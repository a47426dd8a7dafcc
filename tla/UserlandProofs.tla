--------------------------- MODULE UserlandProofs ---------------------------
(***************************************************************************)
(* Proofs about the components that the run userland explores together:    *)
(*   Mvar        one letter at a time is in the shared byte, got once;     *)
(*   Screen      the console draws on the screen only;                     *)
(*   Containers  the kernel's queue and array are sequences;               *)
(*   Shell       lines are understood, and their arguments freed;          *)
(*   Traps       interrupts and system calls disturb no program.           *)
(* Each part has an inductive invariant of its own, and its theorem last.  *)
(***************************************************************************)
EXTENDS Mvar, Shell, Containers, Traps, Screen, Arithmetic, TLAPS

-----------------------------------------------------------------------------
(* The MVar program.                                                        *)

Name == {"empty", "full"}
WriterPc == {"none", "delay", "failed", "waiting", "put", "posting"}
ReaderPc == {"none", "delay", "failed", "waiting", "get", "clear", "posting", "print"}

\* The letter put has not been got: its token is in "full", or with the writer
\* that is about to post it, or with the reader that is about to get it.
SlotFull ==
    \/ sems["full"].value = 1
    \/ \E w \in Writers : pc[w] = "posting"
    \/ \E r \in Readers : pc[r] = "get" \/ Woken(r)

MvarTypes ==
    /\ sems \in [Name -> [users : Nat, value : {0, 1}, blockedProcesses : Seq(MvarProc)]]
    /\ asleep \subseteq MvarProc
    /\ shared_mvar_value \in Nat /\ parent \in Nat
    /\ pc \in [MvarProc -> WriterPc \cup ReaderPc] /\ value \in [Readers -> Nat]
    /\ \A w \in Writers : pc[w] \in WriterPc
    /\ \A r \in Readers : pc[r] \in ReaderPc
    /\ unread \in Seq(Nat)

\* Who has not been created does nothing, and nobody before mvarInit.
Created ==
    /\ \A p \in MvarProc : p >= parent => pc[p] = "none"
    /\ \A p \in asleep : pc[p] = "waiting"
    /\ parent = 0 => sems = [n \in Name |-> NoSem] /\ asleep = {}
    /\ parent > 0 => \A n \in Name : sems[n].users > 0

\* The lines hold sleeping processes, each once: writers wait for "empty", readers
\* for "full".
Lines ==
    /\ \A i \in 1..Len(sems["empty"].blockedProcesses) :
          sems["empty"].blockedProcesses[i] \in Writers \cap asleep
    /\ \A i \in 1..Len(sems["full"].blockedProcesses) :
          sems["full"].blockedProcesses[i] \in Readers \cap asleep
    /\ \A n \in Name : \A i, j \in 1..Len(sems[n].blockedProcesses) :
          sems[n].blockedProcesses[i] = sems[n].blockedProcesses[j] => i = j

\* There is one token: in one of the semaphores, or with one process.
OneToken ==
    /\ \A p, q \in MvarProc : Holder(p) /\ Holder(q) => p = q
    /\ (\E p \in MvarProc : Holder(p)) => sems["empty"].value = 0 /\ sems["full"].value = 0
    /\ sems["empty"].value = 0 \/ sems["full"].value = 0

\* The byte holds the one unread letter.
Slot ==
    /\ SlotFull => unread = <<shared_mvar_value>>
    /\ ~SlotFull => unread = <<>>

MvarInv == MvarTypes /\ Created /\ Lines /\ OneToken /\ Slot
-----------------------------------------------------------------------------

\* The processes are positive numbers, writers and readers apart.
LEMMA Processes ==
    /\ MvarProc \subseteq Nat \ {0}
    /\ Writers \cap Readers = {}
    /\ MvarProc = Writers \cup Readers
    /\ \A w \in Writers : letter(w) \in Nat
BY MvarAssumption DEF MvarProc, Writers, Readers, letter

\* What a wait does to the registry and to the caller.
LEMMA WaitEffect ==
    ASSUME MvarInv, parent > 0, NEW p \in MvarProc, NEW s \in Name, NEW go,
           p \notin asleep, Wait(p, s, go)
    PROVE  \/ /\ sems[s].value = 0
              /\ sems' = [sems EXCEPT ![s].blockedProcesses = Append(sems[s].blockedProcesses, p)]
              /\ asleep' = asleep \cup {p}
              /\ pc' = [pc EXCEPT ![p] = "waiting"]
           \/ /\ sems[s].value = 1
              /\ sems' = [sems EXCEPT ![s].value = 0]
              /\ asleep' = asleep
              /\ pc' = [pc EXCEPT ![p] = go]
<1>1. is_semaphore_valid(Sems, s)
    BY DEF is_semaphore_valid, Sems, MvarInv, Created
<1>2. sems[s].value \in {0, 1}
    BY DEF MvarInv, MvarTypes
<1>3. CASE sems[s].value = 0
  <2>1. semWait(Sems, s, p) = [sems |-> [sems EXCEPT ![s].blockedProcesses = Append(sems[s].blockedProcesses, p)],
                               asleep |-> asleep \cup {p}]
    BY <1>1, <1>3 DEF semWait, Sems
  <2> QED
    BY <1>3, <2>1 DEF Wait, SetSems
<1>4. CASE sems[s].value = 1
  <2>1. semWait(Sems, s, p) = [sems |-> [sems EXCEPT ![s].value = 0], asleep |-> asleep]
    BY <1>1, <1>4 DEF semWait, Sems
  <2> QED
    BY <1>4, <2>1 DEF Wait, SetSems
<1> QED
    BY <1>2, <1>3, <1>4

\* What a post by the holder does.
LEMMA PostEffect ==
    ASSUME MvarInv, parent > 0, NEW p \in MvarProc, NEW s \in Name, NEW from, NEW go,
           Holder(p), Post(p, s, from, go)
    PROVE  \/ /\ sems[s].blockedProcesses = <<>>
              /\ sems' = [sems EXCEPT ![s].value = 1]
              /\ asleep' = asleep
           \/ /\ sems[s].blockedProcesses # <<>>
              /\ sems' = [sems EXCEPT ![s].blockedProcesses = Tail(sems[s].blockedProcesses)]
              /\ asleep' = asleep \ {Head(sems[s].blockedProcesses)}
<1>1. is_semaphore_valid(Sems, s)
    BY DEF is_semaphore_valid, Sems, MvarInv, Created
<1>2. sems[s].value = 0
    BY DEF MvarInv, OneToken, Name
<1>3. CASE sems[s].blockedProcesses = <<>>
  <2>1. PICK v : v = (sems[s].value + 1) % (UINT16_MAX + 1)
    OBVIOUS
  <2>2. v = 1
    BY <1>2, <2>1, SMT DEF UINT16_MAX
  <2>3. semPost(Sems, s) = [sems |-> [sems EXCEPT ![s].value = v], asleep |-> asleep]
    BY <1>1, <1>3, <2>1 DEF semPost, Sems
  <2> QED
    BY <1>3, <2>2, <2>3 DEF Post, SetSems
<1>4. CASE sems[s].blockedProcesses # <<>>
  <2> DEFINE line == sems[s].blockedProcesses
             k == [Sems EXCEPT !.sems[s].blockedProcesses = Tail(@), !.asleep = @ \ {Head(line)}]
  <2>1. semPost(Sems, s) = k
    BY <1>1, <1>4 DEF semPost, Sems
  <2>2. k.sems = [sems EXCEPT ![s].blockedProcesses = Tail(line)]
    BY DEF Sems
  <2>3. k.asleep = asleep \ {Head(line)}
    BY DEF Sems
  <2> QED
    BY <1>4, <2>1, <2>2, <2>3 DEF Post, SetSems
<1> QED
    BY <1>3, <1>4

\* It holds before mvarInit.
LEMMA InitInv == Init => MvarInv
<1> SUFFICES ASSUME Init PROVE MvarInv
    OBVIOUS
<1> USE Processes
<1>1. sems = [n \in Name |-> NoSem]
    BY DEF Init, initSemQueue, Name
<1>2. MvarTypes
  <2>1. NoSem \in [users : Nat, value : {0, 1}, blockedProcesses : Seq(MvarProc)]
    BY DEF NoSem
  <2>2. sems \in [Name -> [users : Nat, value : {0, 1}, blockedProcesses : Seq(MvarProc)]]
    BY <1>1, <2>1
  <2>3. pc \in [MvarProc -> WriterPc \cup ReaderPc] /\ value \in [Readers -> Nat]
    BY DEF Init, WriterPc, ReaderPc
  <2>4. (\A w \in Writers : pc[w] \in WriterPc) /\ (\A r \in Readers : pc[r] \in ReaderPc)
    BY DEF Init, WriterPc, ReaderPc
  <2> QED
    BY <2>2, <2>3, <2>4 DEF Init, MvarTypes
<1>3. Created
    BY <1>1 DEF Init, Created
<1>4. Lines
    BY <1>1 DEF Init, Lines, NoSem, Name
<1>5. \A p \in MvarProc : ~Holder(p)
    BY DEF Init, Holder, Woken
<1>6. OneToken
    BY <1>1, <1>5 DEF OneToken, NoSem, Name
<1>7. ~SlotFull
    BY <1>1 DEF Init, SlotFull, Woken, NoSem, Name
<1>8. Slot
    BY <1>7 DEF Slot, Init
<1> QED
    BY <1>2, <1>3, <1>4, <1>6, <1>8 DEF MvarInv

\* A step of a process that leaves the semaphores alone.
LEMMA LocalStep ==
    ASSUME MvarInv, NEW p \in MvarProc, NEW to, pc[p] # "none",
           UNCHANGED <<sems, asleep, parent>>, pc' = [pc EXCEPT ![p] = to],
           p \in Writers => to \in WriterPc, p \in Readers => to \in ReaderPc,
           p \notin asleep, Holder(p) <=> Holder(p)',
           shared_mvar_value' \in Nat, value' \in [Readers -> Nat], unread' \in Seq(Nat)
    PROVE  MvarTypes' /\ Created' /\ Lines' /\ OneToken'
<1> USE Processes
<1>1. pc' \in [MvarProc -> WriterPc \cup ReaderPc] /\ pc'[p] = to
    BY DEF MvarInv, MvarTypes
<1>2. \A q \in MvarProc \ {p} : pc'[q] = pc[q]
    BY DEF MvarInv, MvarTypes
<1>3. MvarTypes'
    BY <1>1, <1>2 DEF MvarInv, MvarTypes
<1>4. parent > p
    BY DEF MvarInv, MvarTypes, Created
<1>5. Created'
    BY <1>1, <1>2, <1>4 DEF MvarInv, MvarTypes, Created
<1>6. Lines'
    BY DEF MvarInv, Lines
<1>7. \A q \in MvarProc : Holder(q) <=> Holder(q)'
    BY <1>2 DEF Holder, Woken
<1>8. OneToken'
    BY <1>7 DEF MvarInv, OneToken
<1> QED
    BY <1>3, <1>5, <1>6, <1>8

\* A semaphore gets another line.
LEMMA LineChanged ==
    ASSUME sems \in [Name -> [users : Nat, value : {0, 1}, blockedProcesses : Seq(MvarProc)]],
           NEW s \in Name, NEW line \in Seq(MvarProc),
           sems' = [sems EXCEPT ![s].blockedProcesses = line]
    PROVE  /\ sems' \in [Name -> [users : Nat, value : {0, 1}, blockedProcesses : Seq(MvarProc)]]
           /\ \A n \in Name : sems'[n].users = sems[n].users /\ sems'[n].value = sems[n].value
           /\ sems'[s].blockedProcesses = line
           /\ \A n \in Name \ {s} : sems'[n].blockedProcesses = sems[n].blockedProcesses
OBVIOUS

\* Whoever does something has been created.
LEMMA BusyIsCreated ==
    ASSUME MvarInv, NEW p \in MvarProc, pc[p] # "none"
    PROVE  parent > 0 /\ parent > p
BY Processes DEF MvarInv, MvarTypes, Created

\* A woken process goes on with the token it was handed.
LEMMA AwakeStep ==
    ASSUME MvarInv, NEW p \in MvarProc, NEW go, Awake(p, go),
           (p \in Writers /\ go = "put") \/ (p \in Readers /\ go = "get")
    PROVE  MvarInv'
<1> USE Processes
<1>1. pc' = [pc EXCEPT ![p] = go] /\ pc[p] = "waiting" /\ p \notin asleep
    BY DEF Awake
<1>2. UNCHANGED <<sems, asleep, shared_mvar_value, parent, value, unread>>
    BY DEF Awake
<1>3. Holder(p) /\ pc'[p] = go /\ Holder(p)'
    BY <1>1, <1>2 DEF MvarInv, MvarTypes, Holder, Woken
<1>4. MvarTypes' /\ Created' /\ Lines' /\ OneToken'
    BY <1>1, <1>2, <1>3, LocalStep DEF MvarInv, MvarTypes, WriterPc, ReaderPc
<1>5. \A q \in MvarProc \ {p} : pc'[q] = pc[q]
    BY <1>1 DEF MvarInv, MvarTypes
<1>6. SlotFull' <=> SlotFull
    BY <1>1, <1>2, <1>3, <1>5 DEF SlotFull, Woken
<1>7. Slot'
    BY <1>2, <1>6 DEF MvarInv, Slot
<1> QED
    BY <1>4, <1>7 DEF MvarInv

\* A wait takes the token or joins the end of the line.
LEMMA WaitStep ==
    ASSUME MvarInv, NEW p \in MvarProc, NEW s \in Name, NEW go, Wait(p, s, go),
           \/ p \in Writers /\ s = "empty" /\ go = "put"
           \/ p \in Readers /\ s = "full" /\ go = "get"
    PROVE  MvarInv'
<1> USE Processes
<1>1. pc[p] = "delay" /\ p \notin asleep /\ ~Holder(p)
    BY DEF Wait, MvarInv, Created, Holder, Woken
<1>2. parent > 0 /\ parent > p
    BY <1>1, BusyIsCreated
<1>3. UNCHANGED <<shared_mvar_value, parent, value, unread>>
    BY DEF Wait
<1>t. /\ sems \in [Name -> [users : Nat, value : {0, 1}, blockedProcesses : Seq(MvarProc)]]
      /\ pc \in [MvarProc -> WriterPc \cup ReaderPc]
    BY DEF MvarInv, MvarTypes
<1>4. CASE /\ sems[s].value = 0
           /\ sems' = [sems EXCEPT ![s].blockedProcesses = Append(sems[s].blockedProcesses, p)]
           /\ asleep' = asleep \cup {p}
           /\ pc' = [pc EXCEPT ![p] = "waiting"]
  <2> DEFINE line == sems[s].blockedProcesses
  <2>0. line \in Seq(MvarProc)
    BY <1>t
  <2>1. /\ Append(line, p) \in Seq(MvarProc)
        /\ Len(Append(line, p)) = Len(line) + 1
        /\ \A i \in 1..Len(line) : Append(line, p)[i] = line[i]
        /\ Append(line, p)[Len(line) + 1] = p
    BY <2>0
  <2>2. /\ sems' \in [Name -> [users : Nat, value : {0, 1}, blockedProcesses : Seq(MvarProc)]]
        /\ \A n \in Name : sems'[n].users = sems[n].users /\ sems'[n].value = sems[n].value
        /\ sems'[s].blockedProcesses = Append(line, p)
        /\ \A n \in Name \ {s} : sems'[n].blockedProcesses = sems[n].blockedProcesses
    BY <1>4, <1>t, <2>1, LineChanged
  <2>3. /\ pc' \in [MvarProc -> WriterPc \cup ReaderPc] /\ pc'[p] = "waiting"
        /\ \A q \in MvarProc \ {p} : pc'[q] = pc[q]
    BY <1>4, <1>t DEF WriterPc
  <2>4. MvarTypes'
    BY <1>3, <1>4, <2>2, <2>3 DEF MvarInv, MvarTypes, WriterPc, ReaderPc
  <2>5. Created'
    BY <1>2, <1>3, <1>4, <2>2, <2>3 DEF MvarInv, MvarTypes, Created
  <2>6. Lines'
    <3>1. \A i \in 1..Len(line) : line[i] # p
      BY <1>1 DEF MvarInv, Lines, Name
    <3>2. \A i, j \in 1..Len(Append(line, p)) : Append(line, p)[i] = Append(line, p)[j] => i = j
      <4>1. \A i, j \in 1..Len(line) : line[i] = line[j] => i = j
        BY DEF MvarInv, Lines
      <4>2. Len(line) \in Nat
        BY <2>0
      <4> HIDE DEF line
      <4>3. TAKE i, j \in 1..Len(Append(line, p))
      <4>4. (i \in 1..Len(line) \/ i = Len(line) + 1) /\ (j \in 1..Len(line) \/ j = Len(line) + 1)
        BY <2>1, <4>2
      <4> QED
        BY <2>1, <3>1, <4>1, <4>2, <4>4
    <3>3. CASE s = "empty"
      <4>1. \A i \in 1..Len(Append(line, p)) : Append(line, p)[i] \in Writers \cap asleep'
        BY <1>4, <2>0, <2>1, <3>3 DEF MvarInv, Lines
      <4> QED
        BY <1>4, <2>2, <3>2, <3>3, <4>1 DEF MvarInv, Lines, Name
    <3>4. CASE s = "full"
      <4>1. \A i \in 1..Len(Append(line, p)) : Append(line, p)[i] \in Readers \cap asleep'
        BY <1>4, <2>0, <2>1, <3>4 DEF MvarInv, Lines
      <4> QED
        BY <1>4, <2>2, <3>2, <3>4, <4>1 DEF MvarInv, Lines, Name
    <3> QED
      BY <3>3, <3>4 DEF Name
  <2>7. \A q \in MvarProc : Holder(q)' <=> Holder(q)
    BY <1>1, <1>4, <2>3 DEF Holder, Woken
  <2>8. OneToken'
    BY <2>2, <2>7 DEF MvarInv, OneToken, Name
  <2>9. SlotFull' <=> SlotFull
    BY <1>1, <1>4, <2>2, <2>3 DEF SlotFull, Woken, Name
  <2>10. Slot'
    BY <1>3, <2>9 DEF MvarInv, Slot
  <2> QED
    BY <2>4, <2>5, <2>6, <2>8, <2>10 DEF MvarInv
<1>5. CASE /\ sems[s].value = 1
           /\ sems' = [sems EXCEPT ![s].value = 0]
           /\ asleep' = asleep
           /\ pc' = [pc EXCEPT ![p] = go]
  <2>2. /\ sems' \in [Name -> [users : Nat, value : {0, 1}, blockedProcesses : Seq(MvarProc)]]
        /\ \A n \in Name : /\ sems'[n].users = sems[n].users
                           /\ sems'[n].blockedProcesses = sems[n].blockedProcesses
        /\ sems'[s].value = 0
        /\ \A n \in Name \ {s} : sems'[n].value = sems[n].value
    BY <1>5, <1>t
  <2>3. /\ pc' \in [MvarProc -> WriterPc \cup ReaderPc] /\ pc'[p] = go
        /\ \A q \in MvarProc \ {p} : pc'[q] = pc[q]
    BY <1>5, <1>t DEF WriterPc, ReaderPc
  <2>4. MvarTypes'
    BY <1>3, <1>5, <2>2, <2>3, SMTT(40) DEF MvarInv, MvarTypes, WriterPc, ReaderPc
  <2>5. Created'
    BY <1>1, <1>2, <1>3, <1>5, <2>2, <2>3 DEF MvarInv, MvarTypes, Created
  <2>6. Lines'
    BY <1>5, <2>2, SMTT(40) DEF MvarInv, Lines, Name
  <2>7. \A q \in MvarProc : ~Holder(q)
    BY <1>5 DEF MvarInv, OneToken, Name
  <2>8. Holder(p)' /\ \A q \in MvarProc \ {p} : ~Holder(q)'
    BY <1>5, <2>3, <2>7 DEF Holder, Woken
  <2>9. sems'["empty"].value = 0 /\ sems'["full"].value = 0
    BY <1>5, <2>2 DEF MvarInv, OneToken, Name
  <2>10. OneToken'
    BY <2>8, <2>9 DEF OneToken
  <2>11. SlotFull' <=> SlotFull
    <3>1. SlotFull <=> s = "full"
      BY <1>5, <2>7 DEF SlotFull, MvarInv, OneToken, Holder, Name
    <3>2. SlotFull' <=> s = "full"
      BY <2>3, <2>8, <2>9 DEF SlotFull, Holder, Woken, Name
    <3> QED
      BY <3>1, <3>2
  <2>12. Slot'
    BY <1>3, <2>11 DEF MvarInv, Slot
  <2> QED
    BY <2>4, <2>5, <2>6, <2>10, <2>12 DEF MvarInv
<1> QED
    BY <1>1, <1>2, <1>4, <1>5, WaitEffect

\* A post puts the token into the semaphore or hands it to the first in line.
LEMMA PostStep ==
    ASSUME MvarInv, NEW p \in MvarProc, NEW s \in Name, NEW go, Post(p, s, "posting", go),
           \/ p \in Writers /\ s = "full" /\ go = "delay"
           \/ p \in Readers /\ s = "empty" /\ go = "print"
    PROVE  MvarInv'
<1> USE Processes
<1> DEFINE line == sems[s].blockedProcesses
<1>1. pc[p] = "posting" /\ p \notin asleep /\ Holder(p)
    BY DEF Post, MvarInv, Created, Holder
<1>2. parent > 0 /\ parent > p
    BY <1>1, BusyIsCreated
<1>3. UNCHANGED <<shared_mvar_value, parent, value, unread>>
    BY DEF Post
<1>t. /\ sems \in [Name -> [users : Nat, value : {0, 1}, blockedProcesses : Seq(MvarProc)]]
      /\ pc \in [MvarProc -> WriterPc \cup ReaderPc]
      /\ line \in Seq(MvarProc)
    BY DEF MvarInv, MvarTypes
<1>4. /\ pc' \in [MvarProc -> WriterPc \cup ReaderPc] /\ pc'[p] = go
      /\ \A q \in MvarProc \ {p} : pc'[q] = pc[q]
    BY <1>t DEF Post, WriterPc, ReaderPc
<1>5. sems["empty"].value = 0 /\ sems["full"].value = 0 /\ \A q \in MvarProc \ {p} : ~Holder(q)
    BY <1>1 DEF MvarInv, OneToken
<1>6. SlotFull <=> s = "full"
    BY <1>1, <1>5 DEF SlotFull, Holder, Woken, Name
<1>7. CASE /\ line = <<>>
           /\ sems' = [sems EXCEPT ![s].value = 1]
           /\ asleep' = asleep
  <2>1. /\ sems' \in [Name -> [users : Nat, value : {0, 1}, blockedProcesses : Seq(MvarProc)]]
        /\ \A n \in Name : /\ sems'[n].users = sems[n].users
                           /\ sems'[n].blockedProcesses = sems[n].blockedProcesses
        /\ sems'[s].value = 1
        /\ \A n \in Name \ {s} : sems'[n].value = 0
    BY <1>5, <1>7, <1>t DEF Name
  <2>2. MvarTypes'
    BY ZenonT(60), <1>3, <1>4, <1>7, <2>1 DEF MvarInv, MvarTypes, WriterPc, ReaderPc
  <2>3. Created'
    BY <1>1, <1>2, <1>3, <1>4, <1>7, <2>1 DEF MvarInv, MvarTypes, Created
  <2>4. Lines'
    BY <1>7, <2>1 DEF MvarInv, Lines, Name
  <2>5. \A q \in MvarProc : ~Holder(q)'
    BY <1>4, <1>5, <1>7 DEF Holder, Woken
  <2>6. OneToken'
    BY <2>1, <2>5 DEF OneToken, Name
  <2>7. SlotFull' <=> s = "full"
    BY <2>1, <2>5 DEF SlotFull, Holder, Name
  <2>8. Slot'
    BY <1>3, <1>6, <2>7 DEF MvarInv, Slot
  <2> QED
    BY <2>2, <2>3, <2>4, <2>6, <2>8 DEF MvarInv
<1>8. CASE /\ line # <<>>
           /\ sems' = [sems EXCEPT ![s].blockedProcesses = Tail(line)]
           /\ asleep' = asleep \ {Head(line)}
  <2>h. PICK h \in MvarProc : h = Head(line)
    BY <1>8, <1>t
  <2>1. /\ Len(line) \in Nat \ {0} /\ h = line[1]
        /\ Tail(line) \in Seq(MvarProc) /\ Len(Tail(line)) = Len(line) - 1
        /\ \A i \in 1..(Len(line) - 1) : Tail(line)[i] = line[i + 1]
    BY <1>8, <1>t, <2>h
  <2>2. /\ sems' \in [Name -> [users : Nat, value : {0, 1}, blockedProcesses : Seq(MvarProc)]]
        /\ \A n \in Name : sems'[n].users = sems[n].users /\ sems'[n].value = sems[n].value
        /\ sems'[s].blockedProcesses = Tail(line)
        /\ \A n \in Name \ {s} : sems'[n].blockedProcesses = sems[n].blockedProcesses
    BY <1>8, <1>t, <2>1, LineChanged
  <2>3. /\ h \in asleep /\ pc[h] = "waiting" /\ h # p /\ h \in MvarProc
        /\ s = "full" => h \in Readers
        /\ s = "empty" => h \in Writers
    BY <1>1, <2>1 DEF MvarInv, Lines, Created, Name
  <2>a. asleep' = asleep \ {h}
    BY <1>8, <2>h
  <2>4. MvarTypes'
    BY ZenonT(60), <1>3, <1>4, <2>a, <2>2 DEF MvarInv, MvarTypes, WriterPc, ReaderPc
  <2>5. Created'
    BY <1>1, <1>2, <1>3, <1>4, <2>a, <2>2, SMTT(40) DEF MvarInv, MvarTypes, Created
  <2>6. Lines'
    <3>1. \A i, j \in 1..Len(line) : line[i] = line[j] => i = j
      BY DEF MvarInv, Lines
    <3>2. \A i \in 1..Len(Tail(line)) : Tail(line)[i] # h
      BY <2>1, <3>1
    <3>3. \A i, j \in 1..Len(Tail(line)) : Tail(line)[i] = Tail(line)[j] => i = j
      BY <2>1, <3>1
    <3>4. CASE s = "empty"
      <4>1. \A i \in 1..Len(Tail(line)) : Tail(line)[i] \in Writers \cap asleep'
        <5>1. \A i \in 1..Len(line) : line[i] \in Writers \cap asleep
          BY <3>4 DEF MvarInv, Lines
        <5> QED
          BY <2>a, <2>1, <3>2, <5>1
      <4>2. \A i \in 1..Len(sems["full"].blockedProcesses) :
                sems["full"].blockedProcesses[i] \in Readers \cap asleep'
        BY <2>a, <2>3, <3>4 DEF MvarInv, Lines
      <4>3. /\ sems'["empty"].blockedProcesses = Tail(line)
            /\ sems'["full"].blockedProcesses = sems["full"].blockedProcesses
        BY <2>2, <3>4 DEF Name
      <4>4. \A i, j \in 1..Len(sems["full"].blockedProcesses) :
                sems["full"].blockedProcesses[i] = sems["full"].blockedProcesses[j] => i = j
        BY DEF MvarInv, Lines, Name
      <4> HIDE DEF line
      <4> QED
        BY <3>3, <4>1, <4>2, <4>3, <4>4 DEF Lines, Name
    <3>5. CASE s = "full"
      <4>1. \A i \in 1..Len(Tail(line)) : Tail(line)[i] \in Readers \cap asleep'
        <5>1. \A i \in 1..Len(line) : line[i] \in Readers \cap asleep
          BY <3>5 DEF MvarInv, Lines
        <5> QED
          BY <2>a, <2>1, <3>2, <5>1
      <4>2. \A i \in 1..Len(sems["empty"].blockedProcesses) :
                sems["empty"].blockedProcesses[i] \in Writers \cap asleep'
        BY <2>a, <2>3, <3>5 DEF MvarInv, Lines
      <4>3. /\ sems'["full"].blockedProcesses = Tail(line)
            /\ sems'["empty"].blockedProcesses = sems["empty"].blockedProcesses
        BY <2>2, <3>5 DEF Name
      <4>4. \A i, j \in 1..Len(sems["empty"].blockedProcesses) :
                sems["empty"].blockedProcesses[i] = sems["empty"].blockedProcesses[j] => i = j
        BY DEF MvarInv, Lines, Name
      <4> HIDE DEF line
      <4> QED
        BY <3>3, <4>1, <4>2, <4>3, <4>4 DEF Lines, Name
    <3> QED
      BY <3>4, <3>5 DEF Name
  <2>7. Holder(h)' /\ \A q \in MvarProc \ {h} : ~Holder(q)'
    <3>1. Holder(h)'
      BY <1>4, <2>a, <2>3 DEF Holder, Woken
    <3>2. ~Holder(p)'
      <4>1. go \in {"delay", "print"}
        OBVIOUS
      <4> QED
        BY <1>4, <4>1 DEF Holder, Woken
    <3>3. \A q \in MvarProc \ {p, h} : ~Holder(q)'
      BY <1>4, <1>5, <2>a DEF Holder, Woken
    <3> QED
      BY <3>1, <3>2, <3>3
  <2>8. OneToken'
    BY <1>5, <2>2, <2>7 DEF OneToken, Name
  <2>9. SlotFull' <=> s = "full"
    BY <1>4, <1>5, <2>a, <2>2, <2>3, <2>7 DEF SlotFull, Holder, Woken, Name
  <2>10. Slot'
    BY <1>3, <1>6, <2>9 DEF MvarInv, Slot
  <2> QED
    BY <2>4, <2>5, <2>6, <2>8, <2>10 DEF MvarInv
<1> QED
    BY <1>1, <1>2, <1>7, <1>8, PostEffect

\* The holder finds the byte empty and fills it.
LEMMA PutStep ==
    ASSUME MvarInv, NEW w \in Writers, mvarPut_set(w)
    PROVE  MvarInv'
<1> USE Processes
<1>1. pc[w] = "put" /\ w \notin asleep /\ w \in MvarProc /\ Holder(w)
    BY DEF mvarPut_set, MvarInv, Created, Holder
<1>2. pc' = [pc EXCEPT ![w] = "posting"] /\ UNCHANGED <<sems, asleep, parent, value>>
    BY DEF mvarPut_set
<1>3. pc'[w] = "posting" /\ Holder(w)'
    BY <1>1, <1>2 DEF MvarInv, MvarTypes, Holder
<1>4. ~SlotFull
    BY <1>1 DEF SlotFull, MvarInv, OneToken, Holder, Name
<1>5. unread = <<>>
    BY <1>4 DEF MvarInv, Slot
<1>6. shared_mvar_value' = letter(w) /\ unread' = <<letter(w)>> /\ unread' \in Seq(Nat)
    BY <1>5 DEF mvarPut_set
<1>7. MvarTypes' /\ Created' /\ Lines' /\ OneToken'
    BY <1>1, <1>2, <1>3, <1>6, LocalStep DEF MvarInv, MvarTypes, WriterPc
<1>8. SlotFull'
    BY <1>3 DEF SlotFull
<1> QED
    BY <1>6, <1>7, <1>8 DEF MvarInv, Slot

\* The holder finds the one unread letter.
LEMMA GetStep ==
    ASSUME MvarInv, NEW r \in Readers, mvarGet_get(r)
    PROVE  MvarInv' /\ unread # <<>> /\ value'[r] = Head(unread)
<1> USE Processes
<1>1. pc[r] = "get" /\ r \notin asleep /\ r \in MvarProc /\ Holder(r)
    BY DEF mvarGet_get, MvarInv, Created, Holder
<1>2. pc' = [pc EXCEPT ![r] = "clear"] /\ UNCHANGED <<sems, asleep, parent, shared_mvar_value>>
    BY DEF mvarGet_get
<1>3. pc'[r] = "clear" /\ Holder(r)' /\ \A q \in MvarProc \ {r} : pc'[q] = pc[q]
    BY <1>1, <1>2 DEF MvarInv, MvarTypes, Holder
<1>4. SlotFull
    BY <1>1 DEF SlotFull
<1>5. unread = <<shared_mvar_value>>
    BY <1>4 DEF MvarInv, Slot
<1>6. unread' = <<>> /\ unread' \in Seq(Nat) /\ value' \in [Readers -> Nat] /\ value'[r] = shared_mvar_value
    BY <1>5 DEF mvarGet_get, MvarInv, MvarTypes
<1>7. MvarTypes' /\ Created' /\ Lines' /\ OneToken'
    BY <1>1, <1>2, <1>3, <1>6, LocalStep DEF MvarInv, MvarTypes, ReaderPc
<1>8. ~SlotFull'
    BY <1>1, <1>2, <1>3, <1>7 DEF SlotFull, MvarInv, OneToken, Holder, Woken, Name
<1> QED
    BY <1>5, <1>6, <1>7, <1>8 DEF MvarInv, Slot

\* The reader empties the byte before it posts.
LEMMA ClearStep ==
    ASSUME MvarInv, NEW r \in Readers, mvarGet_clear(r)
    PROVE  MvarInv'
<1> USE Processes
<1>1. pc[r] = "clear" /\ r \notin asleep /\ r \in MvarProc /\ Holder(r)
    BY DEF mvarGet_clear, MvarInv, Created, Holder
<1>2. pc' = [pc EXCEPT ![r] = "posting"] /\ UNCHANGED <<sems, asleep, parent, value, unread>>
    BY DEF mvarGet_clear
<1>3. pc'[r] = "posting" /\ Holder(r)' /\ \A q \in MvarProc \ {r} : pc'[q] = pc[q]
    BY <1>1, <1>2 DEF MvarInv, MvarTypes, Holder
<1>4. ~SlotFull
    BY <1>1 DEF SlotFull, MvarInv, OneToken, Holder, Woken, Name
<1>5. unread = <<>> /\ shared_mvar_value' = 0
    BY <1>4 DEF MvarInv, Slot, mvarGet_clear
<1>6. MvarTypes' /\ Created' /\ Lines' /\ OneToken'
    BY <1>1, <1>2, <1>3, <1>5, LocalStep DEF MvarInv, MvarTypes, ReaderPc
<1>7. ~SlotFull'
    BY <1>1, <1>2, <1>3, <1>6 DEF SlotFull, MvarInv, OneToken, Holder, Woken, Name
<1> QED
    BY <1>2, <1>5, <1>6, <1>7 DEF MvarInv, Slot

\* Printing concerns nobody else.
LEMMA ReportStep ==
    ASSUME MvarInv, NEW r \in Readers, Report(r)
    PROVE  MvarInv'
<1> USE Processes
<1> DEFINE to == IF value[r] = 0 THEN "failed" ELSE "delay"
<1>1. pc[r] = "print" /\ r \notin asleep /\ r \in MvarProc /\ ~Holder(r)
    BY DEF Report, MvarInv, Created, Holder, Woken
<1>2. pc' = [pc EXCEPT ![r] = to] /\ UNCHANGED <<sems, asleep, shared_mvar_value, parent, unread>>
    BY DEF Report
<1>3. pc'[r] \in {"failed", "delay"} /\ ~Holder(r)' /\ \A q \in MvarProc \ {r} : pc'[q] = pc[q]
    BY <1>1, <1>2 DEF MvarInv, MvarTypes, Holder, Woken
<1>4. value' \in [Readers -> Nat]
    BY DEF Report, MvarInv, MvarTypes
<1>5. MvarTypes' /\ Created' /\ Lines' /\ OneToken'
    BY <1>1, <1>2, <1>3, <1>4, LocalStep DEF MvarInv, MvarTypes, ReaderPc
<1>6. SlotFull' <=> SlotFull
    BY <1>1, <1>2, <1>3 DEF SlotFull, Woken
<1> QED
    BY <1>2, <1>5, <1>6 DEF MvarInv, Slot

\* mvarInit opens both semaphores: one token, in "empty".
LEMMA InitStep ==
    ASSUME MvarInv, mvarInit
    PROVE  MvarInv'
<1> USE Processes
<1>1. /\ parent = 0 /\ parent' = 1 /\ shared_mvar_value' = 0
      /\ UNCHANGED <<pc, value, unread>>
    BY DEF mvarInit
<1>2. /\ sems = [n \in Name |-> NoSem] /\ asleep = {}
      /\ \A p \in MvarProc : pc[p] = "none"
    BY <1>1 DEF MvarInv, Created
<1> DEFINE one == [Sems EXCEPT !.sems["empty"] = [users |-> 1, value |-> 1, blockedProcesses |-> <<>>]]
<1>3. semOpen(Sems, "empty", 1) = one
    BY <1>2 DEF semOpen, is_semaphore_valid, Sems, NoSem, Name
<1>t. NoSem \in [users : Nat, value : {0, 1}, blockedProcesses : Seq(MvarProc)]
    BY DEF NoSem
<1>b. [users |-> 1, value |-> 1, blockedProcesses |-> <<>>] \in
          [users : Nat, value : {0, 1}, blockedProcesses : Seq(MvarProc)]
    OBVIOUS
<1>c. [users |-> 1, value |-> 0, blockedProcesses |-> <<>>] \in
          [users : Nat, value : {0, 1}, blockedProcesses : Seq(MvarProc)]
    OBVIOUS
<1>d. one = [sems |-> [sems EXCEPT !["empty"] = [users |-> 1, value |-> 1, blockedProcesses |-> <<>>]],
             asleep |-> asleep]
    BY DEF Sems
<1>4. /\ one.asleep = {} /\ one.sems["full"] = NoSem
      /\ one.sems \in [Name -> [users : Nat, value : {0, 1}, blockedProcesses : Seq(MvarProc)]]
      /\ one.sems["empty"] = [users |-> 1, value |-> 1, blockedProcesses |-> <<>>]
  <2> HIDE DEF one
  <2>1. one.asleep = {} /\ one.sems = [sems EXCEPT !["empty"] = [users |-> 1, value |-> 1, blockedProcesses |-> <<>>]]
    BY <1>2, <1>d
  <2> QED
    BY <1>2, <1>t, <1>b, <2>1 DEF Name
<1>5. /\ asleep' = {} /\ DOMAIN sems' = Name
      /\ sems'["empty"] = [users |-> 1, value |-> 1, blockedProcesses |-> <<>>]
      /\ sems'["full"] = [users |-> 1, value |-> 0, blockedProcesses |-> <<>>]
      /\ sems' \in [Name -> [users : Nat, value : {0, 1}, blockedProcesses : Seq(MvarProc)]]
  <2> HIDE DEF one
  <2>1. semOpen(one, "full", 0) = [one EXCEPT !.sems["full"] = [users |-> 1, value |-> 0, blockedProcesses |-> <<>>]]
    BY <1>4 DEF semOpen, is_semaphore_valid, NoSem
  <2>2. SetSems(semOpen(one, "full", 0))
    BY <1>3 DEF mvarInit
  <2>3. /\ sems' = [one.sems EXCEPT !["full"] = [users |-> 1, value |-> 0, blockedProcesses |-> <<>>]]
        /\ asleep' = one.asleep
    BY <1>d, <2>1, <2>2 DEF SetSems
  <2> QED
    BY <1>4, <1>c, <2>3 DEF Name
<1>6. MvarTypes'
    BY <1>1, <1>5 DEF MvarInv, MvarTypes
<1>7. Created'
    BY <1>1, <1>2, <1>5 DEF Created, Name
<1>8. Lines'
    BY <1>5 DEF Lines, Name
<1>9. \A p \in MvarProc : ~Holder(p)'
    BY <1>1, <1>2 DEF Holder, Woken
<1>10. OneToken'
    BY <1>5, <1>9 DEF OneToken
<1>11. ~SlotFull /\ ~SlotFull'
    BY <1>1, <1>2, <1>5 DEF SlotFull, Woken, NoSem, Name
<1>12. Slot'
    BY <1>1, <1>11 DEF MvarInv, Slot
<1> QED
    BY <1>6, <1>7, <1>8, <1>10, <1>12 DEF MvarInv

\* A new process holds nothing.
LEMMA CreateStep ==
    ASSUME MvarInv, _mvar
    PROVE  MvarInv'
<1> USE Processes
<1>1. PICK start \in {"delay", "failed"} : pc' = [pc EXCEPT ![parent] = start]
    BY DEF _mvar
<1>2. /\ parent \in MvarProc /\ parent' = parent + 1 /\ pc[parent] = "none" /\ parent \notin asleep
      /\ UNCHANGED <<sems, asleep, shared_mvar_value, value, unread>>
    BY DEF _mvar, MvarInv, MvarTypes, Created
<1>3. /\ pc' \in [MvarProc -> WriterPc \cup ReaderPc] /\ pc'[parent] = start
      /\ \A q \in MvarProc \ {parent} : pc'[q] = pc[q]
    BY <1>1, <1>2 DEF MvarInv, MvarTypes, WriterPc
<1>4. MvarTypes'
    BY <1>2, <1>3, SMTT(40) DEF MvarInv, MvarTypes, WriterPc, ReaderPc
<1>5. Created'
    BY <1>2, <1>3 DEF MvarInv, MvarTypes, Created
<1>6. Lines'
    BY <1>2 DEF MvarInv, Lines
<1>7. \A q \in MvarProc : Holder(q)' <=> Holder(q)
    BY <1>2, <1>3 DEF Holder, Woken
<1>8. OneToken'
    BY <1>2, <1>7 DEF MvarInv, OneToken
<1>9. SlotFull' <=> SlotFull
    BY <1>2, <1>3 DEF SlotFull, Woken
<1> QED
    BY <1>2, <1>4, <1>5, <1>6, <1>8, <1>9 DEF MvarInv, Slot

-----------------------------------------------------------------------------

\* Nothing changes.
LEMMA StutterStep ==
    ASSUME MvarInv, UNCHANGED vars
    PROVE  MvarInv'
<1>1. MvarTypes' /\ Created' /\ Lines'
    BY DEF MvarInv, vars, MvarTypes, Created, Lines
<1>2. OneToken' /\ Slot'
    BY DEF MvarInv, vars, OneToken, Slot, SlotFull, Holder, Woken
<1> QED
    BY <1>1, <1>2 DEF MvarInv

\* Every step of the parent, of a writer and of a reader keeps the invariant.
LEMMA NextStep ==
    ASSUME MvarInv, [Next]_vars
    PROVE  MvarInv'
<1> USE Processes
<1>1. CASE mvarInit
    BY <1>1, InitStep
<1>2. CASE _mvar
    BY <1>2, CreateStep
<1>3. ASSUME NEW w \in Writers, _mvar_writer(w) PROVE MvarInv'
  <2>1. CASE Wait(w, "empty", "put")
    BY <2>1, WaitStep DEF Name
  <2>2. CASE Awake(w, "put")
    BY <2>2, AwakeStep
  <2>3. CASE mvarPut_set(w)
    BY <2>3, PutStep
  <2>4. CASE Post(w, "full", "posting", "delay")
    BY <2>4, PostStep DEF Name
  <2> QED
    BY <1>3, <2>1, <2>2, <2>3, <2>4 DEF _mvar_writer
<1>4. ASSUME NEW r \in Readers, _mvar_reader(r) PROVE MvarInv'
  <2>1. CASE Wait(r, "full", "get")
    BY <2>1, WaitStep DEF Name
  <2>2. CASE Awake(r, "get")
    BY <2>2, AwakeStep
  <2>3. CASE mvarGet_get(r)
    BY <2>3, GetStep
  <2>4. CASE mvarGet_clear(r)
    BY <2>4, ClearStep
  <2>5. CASE mvarGet_post(r)
    BY <2>5, PostStep DEF mvarGet_post, Name
  <2>6. CASE Report(r)
    BY <2>6, ReportStep
  <2> QED
    BY <1>4, <2>1, <2>2, <2>3, <2>4, <2>5, <2>6 DEF _mvar_reader
<1>5. CASE UNCHANGED vars
    BY <1>5, StutterStep
<1> QED
    BY <1>1, <1>2, <1>3, <1>4, <1>5 DEF Next

\* For any number of writers and readers, in every interleaving, there is one token
\* and one letter at most: the inductive invariant of mvar.c's two semaphores.
THEOREM MvarInvariant == Spec => []MvarInv
<1>1. Init => MvarInv
    BY InitInv
<1>2. MvarInv /\ [Next]_vars => MvarInv'
    BY NextStep
<1> QED
    BY <1>1, <1>2, PTL DEF Spec

\* Whether p stands in a line.
Stands(p) == \E n \in Name : \E i \in DOMAIN sems[n].blockedProcesses :
                sems[n].blockedProcesses[i] = p

\* The token is with a process or in a semaphore nobody waits for.
TokenSomewhere == \/ \E p \in MvarProc : Holder(p)
                  \/ \E n \in Name : sems[n].value = 1 /\ sems[n].blockedProcesses = <<>>

\* TokenKept in these words.
LEMMA TokenParts == TokenKept <=> (parent > 0 => TokenSomewhere /\ \A p \in asleep : Stands(p))
BY DEF TokenKept, TokenSomewhere, Stands, Name

\* A step that leaves the semaphores alone and lets nobody drop the token.
LEMMA TokenLocal ==
    ASSUME TokenKept, UNCHANGED <<sems, asleep>>, parent > 0 \/ parent' = parent,
           \A p \in MvarProc : Holder(p) => Holder(p)'
    PROVE  TokenKept'
<1>1. (\A p \in asleep : Stands(p)) => (\A p \in asleep : Stands(p))'
    BY DEF Stands
<1>2. TokenSomewhere => TokenSomewhere'
    BY DEF TokenSomewhere
<1>3. TokenKept' <=> (parent' > 0 => TokenSomewhere' /\ (\A p \in asleep : Stands(p))')
    BY DEF TokenKept, TokenSomewhere, Stands, Name
<1> QED
    BY <1>1, <1>2, <1>3, TokenParts

\* A wait takes the token, or joins a line where there is none.
LEMMA TokenWait ==
    ASSUME MvarInv, TokenKept, NEW p \in MvarProc, NEW s \in Name, NEW go, Wait(p, s, go),
           \/ p \in Writers /\ s = "empty" /\ go = "put"
           \/ p \in Readers /\ s = "full" /\ go = "get"
    PROVE  TokenKept'
<1> USE Processes
<1> DEFINE line == sems[s].blockedProcesses
<1>1. pc[p] = "delay" /\ p \notin asleep /\ ~Holder(p)
    BY DEF Wait, MvarInv, Created, Holder, Woken
<1>2. parent > 0 /\ TokenSomewhere /\ \A q \in asleep : Stands(q)
    BY <1>1, BusyIsCreated, TokenParts
<1>3. /\ sems \in [Name -> [users : Nat, value : {0, 1}, blockedProcesses : Seq(MvarProc)]]
      /\ pc \in [MvarProc -> WriterPc \cup ReaderPc] /\ line \in Seq(MvarProc)
    BY DEF MvarInv, MvarTypes
<1>4. CASE /\ sems[s].value = 0
           /\ sems' = [sems EXCEPT ![s].blockedProcesses = Append(line, p)]
           /\ asleep' = asleep \cup {p}
           /\ pc' = [pc EXCEPT ![p] = "waiting"]
  <2>1. /\ Append(line, p) \in Seq(MvarProc)
        /\ DOMAIN line = 1..Len(line) /\ DOMAIN Append(line, p) = 1..(Len(line) + 1) /\ Len(line) \in Nat
        /\ Append(line, p)[Len(line) + 1] = p
        /\ \A i \in 1..Len(line) : Append(line, p)[i] = line[i]
    BY <1>3
  <2>2. /\ sems'[s].blockedProcesses = Append(line, p)
        /\ \A n \in Name : sems'[n].value = sems[n].value
        /\ \A n \in Name \ {s} : sems'[n].blockedProcesses = sems[n].blockedProcesses
    BY <1>3, <1>4, <2>1, LineChanged
  <2>3. Stands(p)'
    <3>1. Len(line) + 1 \in DOMAIN sems'[s].blockedProcesses /\ sems'[s].blockedProcesses[Len(line) + 1] = p
      BY <2>1, <2>2
    <3> QED
      BY <3>1 DEF Stands
  <2>4. ASSUME NEW q \in asleep PROVE Stands(q)'
    <3>1. PICK n \in Name : \E i \in DOMAIN sems[n].blockedProcesses : sems[n].blockedProcesses[i] = q
      BY <1>2 DEF Stands
    <3>2. PICK i \in DOMAIN sems[n].blockedProcesses : sems[n].blockedProcesses[i] = q
      BY <3>1
    <3>3. i \in DOMAIN sems'[n].blockedProcesses /\ sems'[n].blockedProcesses[i] = q
      <4>1. CASE n = s
        <5>1. i \in 1..Len(line) /\ line[i] = q
          BY <2>1, <3>2, <4>1
        <5>2. i \in DOMAIN Append(line, p) /\ Append(line, p)[i] = q
          BY <2>1, <5>1
        <5> QED
          BY <2>2, <4>1, <5>2
      <4>2. CASE n # s
        BY <2>2, <3>2, <4>2
      <4> QED
        BY <4>1, <4>2
    <3> QED
      BY <3>3 DEF Stands
  <2>5. TokenSomewhere'
    <3>1. \A q \in MvarProc : Holder(q) => Holder(q)'
      BY <1>1, <1>3, <1>4 DEF Holder, Woken
    <3>2. \A n \in Name : sems[n].value = 1 =>
              sems'[n].value = 1 /\ sems'[n].blockedProcesses = sems[n].blockedProcesses
      BY <1>4, <2>2
    <3> QED
      BY <1>2, <3>1, <3>2 DEF TokenSomewhere
  <2>6. (\A q \in asleep : Stands(q))'
    BY <1>4, <2>3, <2>4
  <2> QED
    BY <2>5, <2>6 DEF TokenKept, TokenSomewhere, Stands, Name
<1>5. CASE /\ sems[s].value = 1
           /\ sems' = [sems EXCEPT ![s].value = 0]
           /\ asleep' = asleep
           /\ pc' = [pc EXCEPT ![p] = go]
  <2>1. \A n \in Name : sems'[n].blockedProcesses = sems[n].blockedProcesses
    BY <1>3, <1>5
  <2>2. Holder(p)'
    BY <1>3, <1>5 DEF Holder
  <2>3. (\A q \in asleep : Stands(q))'
    BY <1>2, <1>5, <2>1 DEF Stands
  <2> QED
    BY <2>2, <2>3 DEF TokenKept, Stands, Name
<1> QED
    BY <1>1, <1>2, <1>4, <1>5, WaitEffect

\* A post hands the token on or leaves it where nobody waits.
LEMMA TokenPost ==
    ASSUME MvarInv, TokenKept, NEW p \in MvarProc, NEW s \in Name, NEW go, Post(p, s, "posting", go)
    PROVE  TokenKept'
<1> USE Processes
<1> DEFINE line == sems[s].blockedProcesses
<1>1. pc[p] = "posting" /\ p \notin asleep /\ Holder(p)
    BY DEF Post, MvarInv, Created, Holder
<1>2. parent > 0 /\ \A q \in asleep : Stands(q)
    BY <1>1, BusyIsCreated, TokenParts
<1>3. /\ sems \in [Name -> [users : Nat, value : {0, 1}, blockedProcesses : Seq(MvarProc)]]
      /\ pc \in [MvarProc -> WriterPc \cup ReaderPc] /\ line \in Seq(MvarProc)
    BY DEF MvarInv, MvarTypes
<1>4. CASE /\ line = <<>>
           /\ sems' = [sems EXCEPT ![s].value = 1]
           /\ asleep' = asleep
  <2>1. sems'[s].value = 1 /\ \A n \in Name : sems'[n].blockedProcesses = sems[n].blockedProcesses
    BY <1>3, <1>4
  <2>2. (\A q \in asleep : Stands(q))'
    BY <1>2, <1>4, <2>1 DEF Stands
  <2>3. TokenSomewhere'
    BY <1>4, <2>1 DEF TokenSomewhere
  <2> QED
    BY <2>2, <2>3 DEF TokenKept, TokenSomewhere, Stands, Name
<1>5. CASE /\ line # <<>>
           /\ sems' = [sems EXCEPT ![s].blockedProcesses = Tail(line)]
           /\ asleep' = asleep \ {Head(line)}
  <2>h. PICK h \in MvarProc : h = Head(line)
    BY <1>3, <1>5
  <2>1. /\ Len(line) \in Nat \ {0} /\ h = line[1]
        /\ Tail(line) \in Seq(MvarProc) /\ Len(Tail(line)) = Len(line) - 1
        /\ \A i \in 1..(Len(line) - 1) : Tail(line)[i] = line[i + 1]
        /\ DOMAIN line = 1..Len(line) /\ DOMAIN Tail(line) = 1..(Len(line) - 1)
    BY <1>3, <1>5, <2>h
  <2>2. /\ sems'[s].blockedProcesses = Tail(line)
        /\ \A n \in Name \ {s} : sems'[n].blockedProcesses = sems[n].blockedProcesses
    BY <1>3, <1>5, <2>1, LineChanged
  <2>3. h \in asleep /\ pc[h] = "waiting" /\ h # p
    BY <1>1, <2>1 DEF MvarInv, Lines, Created, Name
  <2>4. asleep' = asleep \ {h} /\ pc'[h] = "waiting"
    BY <1>3, <1>5, <2>h, <2>3 DEF Post
  <2>5. Holder(h)'
    BY <2>4 DEF Holder, Woken
  <2>6. ASSUME NEW q \in asleep \ {h} PROVE Stands(q)'
    <3>1. PICK n \in Name : \E i \in DOMAIN sems[n].blockedProcesses : sems[n].blockedProcesses[i] = q
      BY <1>2 DEF Stands
    <3>2. PICK i \in DOMAIN sems[n].blockedProcesses : sems[n].blockedProcesses[i] = q
      BY <3>1
    <3>3. CASE n = s
      <4>1. i \in 1..Len(line) /\ line[i] = q /\ i # 1
        BY <2>1, <3>2, <3>3
      <4>2. i - 1 \in 1..(Len(line) - 1) /\ Tail(line)[i - 1] = q
        BY SMTT(40), <2>1, <4>1
      <4>3. i - 1 \in DOMAIN sems'[s].blockedProcesses /\ sems'[s].blockedProcesses[i - 1] = q
        BY <2>1, <2>2, <4>2
      <4> QED
        BY <4>3 DEF Stands
    <3>4. CASE n # s
      <4>1. i \in DOMAIN sems'[n].blockedProcesses /\ sems'[n].blockedProcesses[i] = q
        BY <2>2, <3>2, <3>4
      <4> QED
        BY <4>1 DEF Stands
    <3> QED
      BY <3>3, <3>4
  <2>7. (\A q \in asleep : Stands(q))'
    BY <2>4, <2>6
  <2> QED
    BY <2>5, <2>7 DEF TokenKept, Stands, Name
<1> QED
    BY <1>1, <1>2, <1>4, <1>5, PostEffect

\* mvarInit puts the token into "empty".
LEMMA TokenInit ==
    ASSUME MvarInv, mvarInit
    PROVE  TokenKept'
<1>1. sems = [n \in Name |-> NoSem] /\ asleep = {}
    BY DEF MvarInv, Created, mvarInit
<1>2. PICK e : e = [users |-> 1, value |-> 1, blockedProcesses |-> <<>>]
    OBVIOUS
<1>3. PICK f : f = [users |-> 1, value |-> 0, blockedProcesses |-> <<>>]
    OBVIOUS
<1>4. semOpen(Sems, "empty", 1) = [sems |-> [sems EXCEPT !["empty"] = e], asleep |-> {}]
  <2>1. semOpen(Sems, "empty", 1) = [Sems EXCEPT !.sems["empty"] = e]
    BY <1>1, <1>2 DEF semOpen, is_semaphore_valid, Sems, NoSem, Name
  <2>2. [Sems EXCEPT !.sems["empty"] = e] = [sems |-> [sems EXCEPT !["empty"] = e], asleep |-> asleep]
    BY DEF Sems
  <2> QED
    BY <1>1, <2>1, <2>2
<1>5. PICK k : k = [sems |-> [sems EXCEPT !["empty"] = e], asleep |-> {}]
    OBVIOUS
<1>6. k.sems["full"] = NoSem /\ k.asleep = {} /\ k.sems = [sems EXCEPT !["empty"] = e]
    BY <1>1, <1>5 DEF Name
<1>7. semOpen(k, "full", 0) = [k EXCEPT !.sems["full"] = f]
    BY <1>3, <1>6 DEF semOpen, is_semaphore_valid, NoSem
<1>8. sems' = [k.sems EXCEPT !["full"] = f] /\ asleep' = {}
  <2>1. SetSems(semOpen(k, "full", 0))
    BY <1>4, <1>5 DEF mvarInit
  <2> QED
    BY <1>5, <1>7, <2>1 DEF SetSems
<1>9. sems'["empty"] = e
    BY <1>1, <1>6, <1>8 DEF Name
<1>10. e.value = 1 /\ e.blockedProcesses = <<>>
    BY <1>2
<1> QED
    BY <1>8, <1>9, <1>10 DEF TokenKept

\* Every step keeps the token.
LEMMA TokenStep ==
    ASSUME MvarInv, TokenKept, [Next]_vars
    PROVE  TokenKept'
<1> USE Processes
<1>0. pc \in [MvarProc -> WriterPc \cup ReaderPc]
    BY DEF MvarInv, MvarTypes
<1>1. CASE mvarInit
    BY <1>1, TokenInit
<1>2. CASE _mvar
  <2>0. parent \in MvarProc /\ UNCHANGED <<sems, asleep>> /\ \E start : pc' = [pc EXCEPT ![parent] = start]
    BY <1>2 DEF _mvar
  <2>1. pc[parent] = "none"
    BY <2>0 DEF MvarInv, MvarTypes, Created
  <2>2. \A p \in MvarProc : Holder(p) => Holder(p)'
    BY <1>0, <2>0, <2>1 DEF Holder, Woken
  <2>3. parent > 0
    BY <2>0
  <2> QED
    BY <2>0, <2>2, <2>3, TokenLocal
<1>3. ASSUME NEW p \in MvarProc, NEW to, pc' = [pc EXCEPT ![p] = to], UNCHANGED <<sems, asleep, parent>>,
             \/ p \in Writers /\ to \in {"put", "posting"}
             \/ p \in Readers /\ to \in {"get", "clear", "posting"}
             \/ pc[p] = "print"
      PROVE  TokenKept'
  <2>1. \A q \in MvarProc : Holder(q) => Holder(q)'
    BY <1>0, <1>3 DEF Holder, Woken
  <2> QED
    BY <1>3, <2>1, TokenLocal
<1>4. ASSUME NEW w \in Writers, _mvar_writer(w) PROVE TokenKept'
  <2>1. CASE Wait(w, "empty", "put")
    BY <2>1, TokenWait DEF Name
  <2>2. CASE Awake(w, "put")
    BY <1>3, <2>2 DEF Awake
  <2>3. CASE mvarPut_set(w)
    BY <1>3, <2>3 DEF mvarPut_set
  <2>4. CASE Post(w, "full", "posting", "delay")
    BY <2>4, TokenPost DEF Name
  <2> QED
    BY <1>4, <2>1, <2>2, <2>3, <2>4 DEF _mvar_writer
<1>5. ASSUME NEW r \in Readers, _mvar_reader(r) PROVE TokenKept'
  <2>1. CASE Wait(r, "full", "get")
    BY <2>1, TokenWait DEF Name
  <2>2. CASE Awake(r, "get")
    BY <1>3, <2>2 DEF Awake
  <2>3. CASE mvarGet_get(r)
    BY <1>3, <2>3 DEF mvarGet_get
  <2>4. CASE mvarGet_clear(r)
    BY <1>3, <2>4 DEF mvarGet_clear
  <2>5. CASE mvarGet_post(r)
    BY <2>5, TokenPost DEF mvarGet_post, Name
  <2>6. CASE Report(r)
    BY <1>3, <2>6 DEF Report
  <2> QED
    BY <1>5, <2>1, <2>2, <2>3, <2>4, <2>5, <2>6 DEF _mvar_reader
<1>6. CASE UNCHANGED vars
  <2>1. \A q \in MvarProc : Holder(q) => Holder(q)'
    BY <1>6 DEF vars, Holder, Woken
  <2> QED
    BY <1>6, <2>1, TokenLocal DEF vars
<1> QED
    BY <1>1, <1>2, <1>4, <1>5, <1>6 DEF Next

\* TokenKept: for any number of writers and readers the token that mvar's two
\* semaphores pass between them is never lost, and whoever sleeps stands in a line
\* (mvarPut and mvarGet in mvar.c).
THEOREM TokenIsKept == Spec => []TokenKept
<1>1. Init => MvarInv /\ TokenKept
  <2>1. Init => TokenKept
    BY DEF Init, TokenKept
  <2> QED
    BY <2>1, InitInv
<1>2. MvarInv /\ TokenKept /\ [Next]_vars => (MvarInv /\ TokenKept)'
    BY NextStep, TokenStep
<1> QED
    BY <1>1, <1>2, PTL DEF Spec

\* Only mvarGet's second step takes a reader from "get" to "clear".
LEMMA OnlyGetClears ==
    ASSUME MvarInv, Next, NEW r \in Readers, pc[r] = "get", pc'[r] = "clear"
    PROVE  mvarGet_get(r)
<1> USE Processes
<1>0. pc \in [MvarProc -> WriterPc \cup ReaderPc]
    BY DEF MvarInv, MvarTypes
<1>1. ASSUME NEW q \in MvarProc, NEW to, pc' = [pc EXCEPT ![q] = to]
      PROVE  q = r /\ to = "clear"
    BY <1>0, <1>1
<1>2. ~mvarInit
    BY DEF mvarInit
<1>3. ~_mvar
    BY <1>1 DEF _mvar
<1>4. ASSUME NEW w \in Writers PROVE ~_mvar_writer(w)
    BY <1>1 DEF _mvar_writer, Wait, Awake, mvarPut_set, Post
<1>5. ASSUME NEW q \in Readers, _mvar_reader(q) PROVE mvarGet_get(r)
  <2>1. ~Wait(q, "full", "get") /\ ~Awake(q, "get")
    BY <1>1 DEF Wait, Awake
  <2>2. ~mvarGet_clear(q) /\ ~mvarGet_post(q) /\ ~Report(q)
    BY <1>1 DEF mvarGet_clear, mvarGet_post, Post, Report
  <2>3. mvarGet_get(q)
    BY <1>5, <2>1, <2>2 DEF _mvar_reader
  <2>4. q = r
    BY <1>1, <2>3 DEF mvarGet_get
  <2> QED
    BY <2>3, <2>4
<1> QED
    BY <1>2, <1>3, <1>4, <1>5 DEF Next

\* mvar.c and its two semaphores, for any number of writers and readers: every get
\* returns the letter that was put and not yet got, and no put overwrites one.
THEOREM LettersAreGotOnce == Spec => EachLetterOnce
<1>1. MvarInv /\ MvarInv' /\ [Next]_vars =>
        [/\ \A r \in Readers : pc[r] = "get" /\ pc'[r] = "clear" =>
               unread # <<>> /\ value'[r] = Head(unread)
         /\ Len(unread') <= 1]_vars
  <2> SUFFICES ASSUME MvarInv, MvarInv', Next
               PROVE  /\ \A r \in Readers : pc[r] = "get" /\ pc'[r] = "clear" =>
                           unread # <<>> /\ value'[r] = Head(unread)
                      /\ Len(unread') <= 1
    OBVIOUS
  <2>1. \A r \in Readers : pc[r] = "get" /\ pc'[r] = "clear" =>
            unread # <<>> /\ value'[r] = Head(unread)
    BY OnlyGetClears, GetStep
  <2>2. unread' = <<>> \/ unread' = <<shared_mvar_value'>>
    BY DEF MvarInv, Slot
  <2>3. unread' \in Seq(Nat) /\ shared_mvar_value' \in Nat
    BY DEF MvarInv, MvarTypes
  <2>4. \A u \in Seq(Nat), x \in Nat : u = <<>> \/ u = <<x>> => Len(u) <= 1
    <3>1. \A u \in Seq(Nat) : u = <<>> => Len(u) = 0
      OBVIOUS
    <3>2. \A u \in Seq(Nat), x \in Nat : u = <<x>> => Len(u) = 1
      OBVIOUS
    <3>3. \A u \in Seq(Nat) : Len(u) \in Nat
      OBVIOUS
    <3>4. TAKE u \in Seq(Nat), x \in Nat
    <3>5. CASE u = <<>>
      BY <3>1, <3>3, <3>5
    <3>6. CASE u = <<x>>
      BY <3>2, <3>3, <3>6
    <3> QED
      BY <3>5, <3>6
  <2>5. Len(unread') <= 1
    BY <2>2, <2>3, <2>4
  <2> QED
    BY <2>1, <2>5
<1> QED
    BY <1>1, MvarInvariant, PTL DEF Spec, EachLetterOnce

-----------------------------------------------------------------------------
(* The console.                                                             *)

\* A position in a line of characters of width c.
Whole(c) == {m * c : m \in Nat}

\* What the console keeps, as long as no line has two sizes and operations do not
\* overlap: the position is at the start of a character and on a line of the window,
\* and the line, as tall as it has become, is in the window.  During a scroll that is
\* so of where the position is about to be moved.
Shape(s) ==
    s \in [x : Nat, y : Nat, fontSize : 1..MaxFont, maxGlyphSizeYOnLine : Nat, dirty_line : BOOLEAN]
Placed(s) ==
    /\ s.x \in Whole(Cell(s)) /\ s.x <= Width
    /\ Cell(s) <= s.maxGlyphSizeYOnLine /\ s.y + s.maxGlyphSizeYOnLine <= Height
Good(s) == Shape(s) /\ Placed(s)

Back(s) == [s EXCEPT !.y = @ - Cell(s)]
Sound == /\ off = FALSE /\ behind \in BOOLEAN /\ Shape(scr)
         /\ behind = FALSE => Good(scr)
         /\ behind = TRUE => Good(Back(scr))
ScreenInv ==
    /\ resized \in BOOLEAN /\ overlapped \in BOOLEAN
    /\ resized = FALSE /\ overlapped = FALSE => Sound

\* A character of any size is in the window twice over.
LEMMA CellSize ==
    ASSUME NEW s, Shape(s)
    PROVE  Cell(s) \in Nat \ {0} /\ Cell(s) <= Width /\ 2 * Cell(s) <= Height
<1>1. Glyph \in Nat \ {0} /\ MaxFont \in Nat /\ Width \in Nat /\ Height \in Nat
    BY ScreenAssumption
<1>2. s.fontSize \in Nat \ {0} /\ s.fontSize <= MaxFont
    BY <1>1 DEF Shape
<1> DEFINE f == s.fontSize
<1>3. Glyph * f \in Nat \ {0} /\ Glyph * f <= Glyph * MaxFont
  <2> HIDE DEF f
  <2>1. ASSUME NEW g \in Nat \ {0}, NEW a \in Nat \ {0}, NEW b \in Nat, a <= b
        PROVE  g * a \in Nat \ {0} /\ g * a <= g * b
    <3>1. PICK k \in Nat : b = a + k
      <4>1. b - a \in Nat /\ b = a + (b - a)
        BY <2>1
      <4> QED
        BY <4>1
    <3>2. g * b = g * a + g * k /\ g * k \in Nat /\ g * a \in Nat /\ g * a # 0
      BY <3>1
    <3> QED
      BY <3>2
  <2> QED
    BY <1>1, <1>2, <2>1 DEF f
<1>4. Glyph * MaxFont \in Nat /\ Glyph * MaxFont <= Width /\ 2 * (Glyph * MaxFont) <= Height
    BY <1>1, ScreenAssumption
<1> QED
    BY <1>1, <1>3, <1>4 DEF Cell

\* Whole characters.
LEMMA WholeSteps ==
    ASSUME NEW c \in Nat \ {0}
    PROVE  /\ 0 \in Whole(c) /\ c \in Whole(c)
           /\ \A a \in Whole(c) : a + c \in Whole(c)
           /\ \A a \in Whole(c) : a # 0 => a - c \in Whole(c) /\ a >= c
           /\ \A a \in Whole(c) : a - c * ((a + c - 1) \div c) = 0
           /\ Whole(c) \subseteq Nat
<1>1. 0 * c = 0 /\ 1 * c = c
    OBVIOUS
<1>2. ASSUME NEW m \in Nat
      PROVE  /\ m * c \in Nat /\ (m + 1) * c = m * c + c
             /\ m # 0 => m - 1 \in Nat /\ (m - 1) * c = m * c - c /\ m * c >= c
  <2>1. m * c \in Nat /\ (m + 1) * c = m * c + c
    OBVIOUS
  <2>2. ASSUME m # 0 PROVE m - 1 \in Nat /\ (m - 1) * c = m * c - c /\ m * c >= c
    <3>1. PICK k \in Nat : m = k + 1
      <4>1. m - 1 \in Nat /\ m = (m - 1) + 1
        BY <2>2
      <4> QED
        BY <4>1
    <3>2. m * c = k * c + c /\ k * c \in Nat /\ m - 1 = k
      BY <3>1
    <3> QED
      BY <3>2
  <2> QED
    BY <2>1, <2>2
<1>3. ASSUME NEW m \in Nat
      PROVE  m * c - c * ((m * c + c - 1) \div c) = 0
  <2>1. (m * c + c - 1) \div c = m
    <3>1. c - 1 \in 0..(c - 1) /\ m * c + c - 1 = m * c + (c - 1)
      BY <1>2
    <3> QED
      BY <3>1, SMTT(30)
  <2>2. c * m = m * c
    OBVIOUS
  <2> QED
    BY <2>1, <2>2, <1>2
<1>4. 0 \in Whole(c) /\ c \in Whole(c)
    BY <1>1 DEF Whole
<1>5. \A a \in Whole(c) : a + c \in Whole(c)
  <2> SUFFICES ASSUME NEW m \in Nat PROVE m * c + c \in Whole(c)
    BY DEF Whole
  <2>1. m + 1 \in Nat /\ (m + 1) * c = m * c + c
    BY <1>2
  <2>2. (m + 1) * c \in Whole(c)
    BY <2>1 DEF Whole
  <2> QED
    BY <2>1, <2>2
<1>6. \A a \in Whole(c) : a # 0 => a - c \in Whole(c) /\ a >= c
  <2> SUFFICES ASSUME NEW m \in Nat, m * c # 0 PROVE m * c - c \in Whole(c) /\ m * c >= c
    BY DEF Whole
  <2>1. m # 0
    BY <1>1
  <2> QED
    BY <1>2, <2>1 DEF Whole
<1>7. \A a \in Whole(c) : a - c * ((a + c - 1) \div c) = 0
    BY <1>3 DEF Whole
<1>8. Whole(c) \subseteq Nat
    BY <1>2 DEF Whole
<1> QED
    BY <1>4, <1>5, <1>6, <1>7, <1>8

\* The last character of a line starts inside it.
LEMMA LineEnd ==
    ASSUME NEW c \in Nat \ {0}, NEW w \in Nat, c <= w
    PROVE  w - (w % c) - c \in Whole(c) /\ w - (w % c) - c <= w
<1>1. PICK q \in Nat, r \in 0..(c - 1) : w = c * q + r /\ w % c = r
    BY DivFacts
<1>2. q * c = c * q /\ q * c \in Nat
    OBVIOUS
<1>3. q # 0
  <2>1. q = 0 => c * q = 0
    OBVIOUS
  <2> QED
    BY <1>1, <2>1
<1>4. q * c \in Whole(c) /\ q * c # 0
  <2>1. PICK k \in Nat : q = k + 1
    <3>1. q - 1 \in Nat /\ q = (q - 1) + 1
      BY <1>3
    <3> QED
      BY <3>1
  <2>2. q * c = k * c + c /\ k * c \in Nat
    BY <2>1
  <2> QED
    BY <2>2 DEF Whole
<1>5. w - (w % c) = q * c
    BY <1>1, <1>2
<1>6. q * c - c \in Whole(c)
    BY <1>4, WholeSteps
<1>7. q * c - c <= w
    BY <1>1, <1>2
<1> QED
    BY <1>5, <1>6, <1>7

\* A position moved, and the line with it.
LEMMA MovedGood ==
    ASSUME NEW s, Shape(s), NEW x \in Nat, NEW y \in Nat, NEW g, g = [s EXCEPT !.x = x, !.y = y],
           x \in Whole(Cell(s)), x <= Width, Cell(s) <= s.maxGlyphSizeYOnLine, y + s.maxGlyphSizeYOnLine <= Height
    PROVE  Good(g)
<1>1. Shape(g) /\ g.x = x /\ g.y = y /\ g.maxGlyphSizeYOnLine = s.maxGlyphSizeYOnLine /\ g.fontSize = s.fontSize
    BY DEF Shape
<1>2. Cell(g) = Cell(s)
    BY <1>1 DEF Cell
<1> QED
    BY <1>1, <1>2 DEF Good, Placed

\* A line below the last one is in the window once the screen has been scrolled.
LEMMA ScrollGood ==
    ASSUME NEW u, Shape(u), u.x = 0, u.y <= Height, Cell(u) <= u.maxGlyphSizeYOnLine,
           u.maxGlyphSizeYOnLine = Cell(u) \/ u.y + u.maxGlyphSizeYOnLine <= Height
    PROVE  (Below(u) => Good(Back(u))) /\ (~Below(u) => Good(u))
<1>1. Cell(u) \in Nat \ {0} /\ Cell(u) <= Width /\ 2 * Cell(u) <= Height
    BY CellSize
<1> PICK c \in Nat \ {0} : c = Cell(u)
    BY <1>1
<1>2. Height \in Nat /\ Width \in Nat /\ u.y \in Nat /\ u.maxGlyphSizeYOnLine \in Nat /\ 0 \in Whole(c) /\ 0 <= Width
    BY WholeSteps, ScreenAssumption DEF Shape
<1>3. ASSUME Below(u) PROVE Good(Back(u))
  <2>1. u.y + c > Height
    BY <1>3 DEF Below
  <2>2. u.maxGlyphSizeYOnLine = c /\ u.y - c \in Nat /\ (u.y - c) + c <= Height
    BY <1>1, <1>2, <2>1
  <2> PICK b \in Nat : b = u.y - c
    BY <2>2
  <2>3. Back(u) = [u EXCEPT !.x = 0, !.y = b]
    BY DEF Back, Shape
  <2>4. 0 \in Nat /\ b + u.maxGlyphSizeYOnLine <= Height
    BY <2>2
  <2> QED
    BY <1>2, <2>3, <2>4, MovedGood
<1>4. ASSUME ~Below(u) PROVE Good(u)
  <2>1. ~(u.y + c > Height)
    BY <1>4 DEF Below
  <2>2. u.y + u.maxGlyphSizeYOnLine <= Height
    BY <1>2, <2>1
  <2> PICK b \in Nat : b = u.y
    BY <1>2
  <2>3. u = [u EXCEPT !.x = 0, !.y = b]
    BY DEF Shape
  <2>4. 0 \in Nat /\ b + u.maxGlyphSizeYOnLine <= Height
    BY <2>2
  <2> QED
    BY <1>2, <2>3, <2>4, MovedGood
<1> QED
    BY <1>3, <1>4

\* A new line.
LEMMA NewLineGood ==
    ASSUME NEW s, Good(s), NEW u,
           u = [s EXCEPT !.dirty_line = FALSE, !.y = @ + s.maxGlyphSizeYOnLine, !.x = 0, !.maxGlyphSizeYOnLine = Cell(s)]
    PROVE  Shape(u) /\ (Below(u) => Good(Back(u))) /\ (~Below(u) => Good(u))
<1>1. Shape(s) /\ Cell(s) \in Nat \ {0} /\ Cell(s) <= s.maxGlyphSizeYOnLine /\ s.y + s.maxGlyphSizeYOnLine <= Height
    BY CellSize DEF Good, Placed
<1>2. s.y + s.maxGlyphSizeYOnLine \in Nat /\ Cell(s) \in Nat /\ 0 \in Nat
    BY <1>1 DEF Shape
<1>3. /\ Shape(u) /\ u.x = 0 /\ u.y = s.y + s.maxGlyphSizeYOnLine
      /\ u.maxGlyphSizeYOnLine = Cell(s) /\ u.fontSize = s.fontSize
    BY <1>1, <1>2 DEF Shape
<1>4. Cell(u) = Cell(s)
    BY <1>3 DEF Cell
<1>5. u.y <= Height /\ Cell(u) <= u.maxGlyphSizeYOnLine
    BY <1>1, <1>2, <1>3, <1>4
<1> QED
    BY <1>3, <1>4, <1>5, ScrollGood

\* A character that fits on the line is drawn inside the window.
LEMMA RenderGood ==
    ASSUME NEW s, Good(s), s.x + Cell(s) <= Width
    PROVE  Fits(s) /\ Good([s EXCEPT !.x = @ + Cell(s)])
<1>1. Shape(s) /\ Cell(s) \in Nat \ {0} /\ Cell(s) <= s.maxGlyphSizeYOnLine /\ s.y + s.maxGlyphSizeYOnLine <= Height
    BY CellSize DEF Good, Placed
<1> PICK c \in Nat \ {0} : c = Cell(s)
    BY <1>1
<1>2. Height \in Nat /\ Width \in Nat /\ s.y \in Nat /\ s.x \in Nat /\ s.maxGlyphSizeYOnLine \in Nat
    BY <1>1, ScreenAssumption DEF Shape
<1>3. Fits(s)
    BY <1>1, <1>2 DEF Fits
<1>4. s.x + c \in Whole(c) /\ s.x + c \in Nat
    BY <1>2, WholeSteps DEF Good, Placed
<1>5. [s EXCEPT !.x = @ + Cell(s)] = [s EXCEPT !.x = s.x + c, !.y = s.y]
    BY <1>1 DEF Shape
<1> QED
    BY <1>1, <1>2, <1>3, <1>4, <1>5, MovedGood

\* One character back stays on the screen.
LEMMA RetractGood ==
    ASSUME NEW s, Good(s)
    PROVE  Good(Retracted(s))
<1>1. Shape(s) /\ Cell(s) \in Nat \ {0} /\ Cell(s) <= Width
    BY CellSize DEF Good
<1> PICK c \in Nat \ {0} : c = Cell(s)
    BY <1>1
<1>2. Width \in Nat /\ Height \in Nat /\ c \in Nat /\ s.x \in Nat /\ s.y \in Nat /\ s.maxGlyphSizeYOnLine \in Nat
    BY <1>1, ScreenAssumption DEF Shape
<1>3. s.x \in Whole(c) /\ s.x <= Width /\ c <= s.maxGlyphSizeYOnLine /\ s.y + s.maxGlyphSizeYOnLine <= Height
    BY DEF Good, Placed
<1> PICK g : g = Retracted(s)
    OBVIOUS
<1>4. ASSUME NEW a \in Nat, NEW b \in Nat, a \in Whole(c), a <= Width, b <= s.y,
             g = [s EXCEPT !.x = a, !.y = b]
      PROVE  Good(g)
  <2>1. b + s.maxGlyphSizeYOnLine <= Height
    BY <1>2, <1>3, <1>4
  <2> QED
    BY <1>1, <1>3, <1>4, <2>1, MovedGood
<1>5. CASE s.x # 0
  <2>1. g = [s EXCEPT !.x = s.x - c, !.y = s.y]
    BY <1>1, <1>5 DEF Retracted, Shape
  <2>2. s.x - c \in Whole(c) /\ s.x >= c
    BY <1>3, <1>5, WholeSteps
  <2> PICK a : a = s.x - c
    OBVIOUS
  <2>3. a \in Whole(c) /\ a \in Nat /\ a <= Width /\ s.y <= s.y
    BY <1>2, <1>3, <2>2
  <2> QED
    BY <1>2, <1>4, <2>1, <2>3
<1>6. CASE s.x = 0 /\ s.y - c < 0
  <2>1. g = [s EXCEPT !.x = s.x, !.y = 0]
    BY <1>1, <1>6 DEF Retracted, Shape
  <2>2. 0 \in Nat /\ 0 <= s.y
    BY <1>2
  <2> QED
    BY <1>2, <1>3, <1>4, <2>1, <2>2
<1>7. CASE s.x = 0 /\ ~(s.y - c < 0)
  <2>1. g = [s EXCEPT !.x = Width - (Width % c) - c, !.y = s.y - c]
    BY <1>1, <1>7 DEF Retracted, Shape
  <2>2. s.y - c \in Nat /\ s.y - c <= s.y
    BY <1>2, <1>7
  <2>3. Width - (Width % c) - c \in Whole(c) /\ Width - (Width % c) - c <= Width
    BY <1>1, <1>2, LineEnd
  <2>4. Width - (Width % c) - c \in Nat
    BY <2>3, WholeSteps
  <2> PICK a : a = Width - (Width % c) - c
    OBVIOUS
  <2> PICK b : b = s.y - c
    OBVIOUS
  <2>5. g = [s EXCEPT !.x = a, !.y = b]
    BY <2>1
  <2> QED
    BY <1>4, <2>2, <2>3, <2>4, <2>5
<1>8. s.y - c < 0 \/ ~(s.y - c < 0)
    OBVIOUS
<1> QED
    BY <1>5, <1>6, <1>7, <1>8

\* Another size at the start of a line; a smaller one needs no scroll.
LEMMA SizeGood ==
    ASSUME Good(scr), ~(scr.x > 0), NEW z \in 1..MaxFont, NEW u, u = SetSize(z)
    PROVE  /\ Shape(u) /\ (Below(u) => Good(Back(u))) /\ (~Below(u) => Good(u))
           /\ z <= scr.fontSize => ~Below(u)
<1>1. Shape(scr) /\ Glyph \in Nat /\ MaxFont \in Nat /\ Height \in Nat /\ Width \in Nat
    BY ScreenAssumption DEF Good
<1>2. scr.x = 0 /\ scr.y \in Nat /\ scr.maxGlyphSizeYOnLine \in Nat
    BY <1>1 DEF Shape
<1> PICK h : h = IF scr.dirty_line /\ scr.maxGlyphSizeYOnLine > Glyph * z THEN scr.maxGlyphSizeYOnLine ELSE Glyph * z
    OBVIOUS
<1>3. Glyph * z \in Nat
    BY <1>1
<1> PICK c : c = Glyph * z
    OBVIOUS
<1>4. h \in Nat /\ c <= h /\ (h = c \/ h = scr.maxGlyphSizeYOnLine)
    BY <1>2, <1>3
<1>5. u = [scr EXCEPT !.fontSize = z, !.maxGlyphSizeYOnLine = h]
    BY DEF SetSize
<1>6. Shape(u) /\ u.x = 0 /\ u.y = scr.y /\ u.maxGlyphSizeYOnLine = h /\ u.fontSize = z
    BY <1>1, <1>2, <1>4, <1>5 DEF Shape
<1>7. Cell(u) = c
    BY <1>6 DEF Cell
<1>8. Cell(scr) \in Nat /\ Cell(scr) <= scr.maxGlyphSizeYOnLine /\ scr.y + scr.maxGlyphSizeYOnLine <= Height
    BY CellSize DEF Good, Placed
<1>9. u.y <= Height /\ Cell(u) <= u.maxGlyphSizeYOnLine
      /\ (u.maxGlyphSizeYOnLine = Cell(u) \/ u.y + u.maxGlyphSizeYOnLine <= Height)
    BY <1>1, <1>2, <1>4, <1>6, <1>7, <1>8
<1>10. (Below(u) => Good(Back(u))) /\ (~Below(u) => Good(u))
    BY <1>6, <1>9, ScrollGood
<1>11. ASSUME z <= scr.fontSize PROVE ~Below(u)
  <2>1. scr.fontSize \in Nat /\ z \in Nat /\ scr.fontSize - z \in Nat
    BY <1>1, <1>11 DEF Shape
  <2> PICK f : f = scr.fontSize
    OBVIOUS
  <2> PICK k : k = f - z
    OBVIOUS
  <2>2. f = z + k /\ k \in Nat /\ f \in Nat /\ z \in Nat
    BY <2>1
  <2>3. Glyph * f = Glyph * z + Glyph * k /\ Glyph * k \in Nat
    BY <1>1, <2>2
  <2>4. Cell(scr) = Glyph * f
    BY DEF Cell
  <2>5. c <= Cell(scr) /\ c \in Nat
    BY <1>3, <2>3, <2>4
  <2>6. u.y + c <= Height
    BY <1>1, <1>2, <1>6, <1>8, <2>5
  <2> QED
    BY <1>1, <1>2, <1>6, <1>7, <2>5, <2>6 DEF Below
<1> QED
    BY <1>6, <1>10, <1>11

\* Each step of each operation keeps the console sound.
LEMMA ScreenStep ==
    ASSUME ScreenInv, [ScreenNext]_screenVars
    PROVE  ScreenInv'
<1>1. CASE UNCHANGED screenVars
    BY <1>1 DEF screenVars, ScreenInv, Sound, Back, Good, Shape, Placed, Cell
<1>2. CASE ScreenNext
  <2>1. resized' \in BOOLEAN /\ overlapped' \in BOOLEAN
    BY <1>2 DEF ScreenInv, ScreenNext, histories, putChar_glyph, renderAscii, newLine, scrollBufferPosition,
       retractPosition, carriage_return, tabulator, putChar, Start, clearPreviousCharacter, clear,
       increaseFontSize, decreaseFontSize, setFontSize, overlap
  <2> SUFFICES ASSUME resized' = FALSE, overlapped' = FALSE PROVE Sound'
    BY <2>1 DEF ScreenInv
  <2>2. resized = FALSE /\ overlapped = FALSE
    BY <1>2 DEF ScreenInv, ScreenNext, histories, putChar_glyph, renderAscii, newLine, scrollBufferPosition,
       retractPosition, carriage_return, tabulator, putChar, Start, clearPreviousCharacter, clear,
       increaseFontSize, decreaseFontSize, setFontSize, overlap
  <2>3. Sound /\ Shape(scr) /\ behind \in BOOLEAN /\ off = FALSE
    BY <2>2 DEF ScreenInv, Sound
  <2>4. ASSUME behind' = FALSE, off' = FALSE, Good(scr') PROVE Sound'
    BY <2>4 DEF Sound, Good
  <2>5. ASSUME NEW u, Shape(u), Below(u) => Good(Back(u)), ~Below(u) => Good(u),
               scr' = u, behind' = Below(u), off' = FALSE
        PROVE  Sound'
    <3>1. CASE Below(u)
      <4>1. behind' = TRUE
        BY <2>5, <3>1
      <4> QED
        BY <2>5, <3>1, <4>1 DEF Sound
    <3>2. CASE ~Below(u)
      <4>1. behind' = FALSE
        BY <2>5, <3>2
      <4> QED
        BY <2>5, <3>2, <4>1 DEF Sound
    <3> QED
      BY <3>1, <3>2
  <2>6. ASSUME behind = FALSE PROVE Good(scr)
    BY <2>3, <2>6 DEF Sound
  <2>7. ASSUME putChar_glyph PROVE Sound'
    <3>1. behind = FALSE /\ behind' = FALSE /\ off' = FALSE /\ Good(scr)
      BY <2>3, <2>6, <2>7 DEF putChar_glyph, Doing, histories
    <3> PICK g : g = [scr EXCEPT !.dirty_line = TRUE]
      OBVIOUS
    <3>2. Shape(g) /\ g.x = scr.x /\ g.y = scr.y /\ g.maxGlyphSizeYOnLine = scr.maxGlyphSizeYOnLine
          /\ g.fontSize = scr.fontSize
      BY <2>3 DEF Shape
    <3>3. Good(g)
      BY <3>1, <3>2 DEF Good, Placed, Cell
    <3> QED
      BY <2>4, <2>7, <3>1, <3>3 DEF putChar_glyph
  <2>8. ASSUME renderAscii PROVE Sound'
    <3>1. behind = FALSE /\ behind' = FALSE /\ Good(scr)
      BY <2>3, <2>6, <2>8 DEF renderAscii, Doing
    <3>2. CASE scr' = scr /\ off' = off
      BY <2>3, <2>4, <3>1, <3>2
    <3>3. CASE scr.x + Cell(scr) <= Width /\ scr' = [scr EXCEPT !.x = @ + Cell(scr)] /\ off' = (off \/ ~Fits(scr))
      BY <2>3, <2>4, <3>1, <3>3, RenderGood
    <3> QED
      BY <2>8, <3>2, <3>3 DEF renderAscii
  <2>9. ASSUME newLine PROVE Sound'
    <3> PICK u : u = [scr EXCEPT !.dirty_line = FALSE, !.y = @ + scr.maxGlyphSizeYOnLine, !.x = 0,
                                 !.maxGlyphSizeYOnLine = Cell(scr)]
      OBVIOUS
    <3>1. Good(scr) /\ scr' = u /\ behind' = Below(u) /\ off' = FALSE
      BY <2>3, <2>6, <2>9 DEF newLine, Doing, histories
    <3>2. Shape(u) /\ (Below(u) => Good(Back(u))) /\ (~Below(u) => Good(u))
      BY <3>1, NewLineGood
    <3> QED
      BY <2>5, <3>1, <3>2
  <2>10. ASSUME scrollBufferPosition PROVE Sound'
    <3>1. behind = TRUE /\ behind' = FALSE /\ off' = FALSE /\ scr' = Back(scr)
      BY <2>3, <2>10 DEF scrollBufferPosition, histories, Back
    <3>2. Good(Back(scr))
      BY <2>3, <3>1 DEF Sound
    <3> QED
      BY <2>4, <3>1, <3>2
  <2>11. ASSUME retractPosition PROVE Sound'
    <3>1. behind = FALSE /\ behind' = FALSE /\ off' = FALSE /\ Good(scr) /\ scr' = Retracted(scr)
      BY <2>3, <2>6, <2>11 DEF retractPosition, Doing, histories
    <3> QED
      BY <2>4, <3>1, RetractGood
  <2>12. ASSUME carriage_return \/ tabulator PROVE Sound'
    <3>1. behind = FALSE /\ behind' = FALSE /\ off' = FALSE /\ Good(scr) /\ scr' = scr
      BY <2>3, <2>6, <2>12 DEF carriage_return, tabulator, Doing, histories
    <3> QED
      BY <2>4, <3>1
  <2>13. ASSUME NEW steps, Start(steps) PROVE Sound'
    <3>1. behind = FALSE /\ behind' = FALSE /\ off' = FALSE /\ Good(scr) /\ scr' = scr
      BY <2>3, <2>6, <2>13 DEF Start, Idle, histories
    <3> QED
      BY <2>4, <3>1
  <2>14. ASSUME clear PROVE Sound'
    <3>1. behind = FALSE /\ behind' = FALSE /\ off' = FALSE /\ Good(scr) /\ scr' = [scr EXCEPT !.x = 0, !.y = 0]
      BY <2>3, <2>6, <2>14 DEF clear, Idle, histories
    <3>2. Cell(scr) \in Nat \ {0} /\ 0 \in Nat
      BY <2>3, CellSize
    <3>3. 0 \in Whole(Cell(scr)) /\ 0 <= Width
      BY <3>2, WholeSteps, ScreenAssumption
    <3>4. Cell(scr) <= scr.maxGlyphSizeYOnLine /\ 0 + scr.maxGlyphSizeYOnLine <= Height
      BY <2>3, <3>1, ScreenAssumption DEF Good, Placed, Shape
    <3>5. Good([scr EXCEPT !.x = 0, !.y = 0])
      BY <2>3, <3>2, <3>3, <3>4, MovedGood
    <3> QED
      BY <2>4, <3>1, <3>5
  <2>15. scr.fontSize \in 1..MaxFont /\ MaxFont \in Nat
    BY <2>3, ScreenAssumption DEF Shape
  <2>16. ASSUME increaseFontSize PROVE Sound'
    <3> PICK z : z = IF scr.fontSize > MaxFont - 1 THEN scr.fontSize ELSE scr.fontSize + 1
      OBVIOUS
    <3> PICK u : u = SetSize(z)
      OBVIOUS
    <3>1. Good(scr) /\ ~(scr.x > 0) /\ scr' = u /\ behind' = Below(u) /\ off' = FALSE
      BY <2>2, <2>3, <2>6, <2>16 DEF increaseFontSize, Idle
    <3>2. z \in 1..MaxFont
      BY <2>15
    <3>3. Shape(u) /\ (Below(u) => Good(Back(u))) /\ (~Below(u) => Good(u))
      BY <3>1, <3>2, SizeGood
    <3> QED
      BY <2>5, <3>1, <3>3
  <2>17. ASSUME decreaseFontSize PROVE Sound'
    <3> PICK z : z = IF scr.fontSize <= 1 THEN scr.fontSize ELSE scr.fontSize - 1
      OBVIOUS
    <3> PICK u : u = SetSize(z)
      OBVIOUS
    <3>1. Good(scr) /\ ~(scr.x > 0) /\ scr' = u /\ behind' = FALSE /\ off' = FALSE
      BY <2>2, <2>3, <2>6, <2>17 DEF decreaseFontSize, Idle
    <3>2. z \in 1..MaxFont /\ z <= scr.fontSize
      BY <2>15
    <3>3. Good(u)
      BY <3>1, <3>2, SizeGood
    <3> QED
      BY <2>4, <3>1, <3>3
  <2>18. ASSUME NEW z \in 1..MaxFont, setFontSize(z) PROVE Sound'
    <3> PICK u : u = SetSize(z)
      OBVIOUS
    <3>1. Good(scr) /\ ~(scr.x > 0) /\ ~Below(u) /\ scr' = u /\ behind' = FALSE /\ off' = FALSE
      BY <2>2, <2>3, <2>6, <2>18 DEF setFontSize, Idle
    <3>2. Good(u)
      BY <3>1, SizeGood
    <3> QED
      BY <2>4, <3>1, <3>2
  <2>19. ~overlap
    BY DEF overlap
  <2>20. ASSUME clearPreviousCharacter \/ \E ascii \in {"glyph", "newline", "return", "tab"} : putChar(ascii)
         PROVE  Sound'
    BY <2>13, <2>20 DEF clearPreviousCharacter, putChar
  <2> QED
    BY <1>2, <2>7, <2>8, <2>9, <2>10, <2>11, <2>12, <2>14, <2>16, <2>17, <2>18, <2>19, <2>20 DEF ScreenNext
<1> QED
    BY <1>1, <1>2

\* The console starts well.
LEMMA ScreenStart == ScreenInit => ScreenInv
<1> SUFFICES ASSUME ScreenInit PROVE Good(scr)
    BY DEF ScreenInit, ScreenInv, Sound, Good
<1>1. Glyph \in Nat \ {0} /\ Width \in Nat /\ Height \in Nat /\ MaxFont \in Nat /\ MaxFont >= 2
    BY ScreenAssumption
<1>2. Shape(scr) /\ scr.x = 0 /\ scr.y = 0 /\ scr.fontSize = 2 /\ scr.maxGlyphSizeYOnLine = 2 * Glyph
    BY <1>1 DEF ScreenInit, Shape
<1>3. Cell(scr) = 2 * Glyph /\ Cell(scr) \in Nat \ {0} /\ 2 * Cell(scr) <= Height
    BY <1>1, <1>2, CellSize DEF Cell
<1>4. 0 \in Whole(Cell(scr))
    BY <1>3, WholeSteps
<1>5. Placed(scr)
    BY <1>1, <1>2, <1>3, <1>4 DEF Placed
<1> QED
    BY <1>2, <1>5 DEF Good

\* For a window and font of any size the position of the console stays on the
\* screen and every character is drawn inside it, through text, erasing, clearing,
\* scrolling and changes of size, until the size is changed where the line does not
\* allow it or two processes draw at once (CursorOnScreen).
THEOREM CursorStaysOnScreen == ScreenSpec => []CursorOnScreen
<1>1. ScreenInv => CursorOnScreen
  <2>1. ASSUME Sound PROVE CursorOnScreen
    <3>1. Shape(scr) /\ off = FALSE /\ behind \in BOOLEAN
      BY <2>1 DEF Sound
    <3>2. Cell(scr) \in Nat /\ Width \in Nat /\ Height \in Nat /\ scr.x \in Nat /\ scr.y \in Nat
      BY <3>1, CellSize, ScreenAssumption DEF Shape
    <3>3. CASE behind = FALSE
      <4>1. scr.x \in 0..Width /\ scr.y >= 0 /\ scr.y + Cell(scr) <= Height + 0
        BY <2>1, <3>1, <3>2, <3>3 DEF Sound, Good, Shape, Placed
      <4> QED
        BY <3>1, <3>3, <4>1 DEF CursorOnScreen
    <3>4. CASE behind = TRUE
      <4> PICK b : b = Back(scr)
        OBVIOUS
      <4>1. b.x = scr.x /\ b.y = scr.y - Cell(scr) /\ b.fontSize = scr.fontSize
        BY <3>1 DEF Back, Shape
      <4>2. b.x <= Width /\ b.y + Cell(b) <= Height /\ Cell(b) = Cell(scr)
        <5>1. Good(b) /\ Cell(b) = Cell(scr)
          BY <2>1, <3>4, <4>1 DEF Sound, Cell
        <5>2. b.y \in Nat /\ b.maxGlyphSizeYOnLine \in Nat /\ Cell(b) <= b.maxGlyphSizeYOnLine
              /\ b.y + b.maxGlyphSizeYOnLine <= Height /\ b.x <= Width
          BY <5>1 DEF Good, Shape, Placed
        <5> QED
          BY <3>2, <5>1, <5>2
      <4>3. scr.x \in 0..Width /\ scr.y >= 0 /\ scr.y + Cell(scr) <= Height + Cell(scr)
        BY <3>2, <4>1, <4>2
      <4> QED
        BY <3>1, <3>4, <4>3 DEF CursorOnScreen
    <3> QED
      BY <3>1, <3>3, <3>4
  <2> QED
    BY <2>1 DEF ScreenInv, CursorOnScreen
<1> QED
    BY <1>1, ScreenStart, ScreenStep, PTL DEF ScreenSpec

-----------------------------------------------------------------------------
(* The queue and the array.                                                 *)

Address == Node \cup {NoNode}

\* The nodes of the queue, from head to tail, are linked in this order; they hold
\* its elements, and every other node is free.
Linked(ns) ==
    /\ head = IF Len(ns) = 0 THEN NoNode ELSE ns[1]
    /\ tail = IF Len(ns) = 0 THEN NoNode ELSE ns[Len(ns)]
    /\ \A i \in 1..Len(ns) : next[ns[i]] = IF i = Len(ns) THEN NoNode ELSE ns[i + 1]
Once(ns) == \A i, j \in 1..Len(ns) : ns[i] = ns[j] => i = j
Owned(ns) ==
    /\ freeNodes \subseteq Node
    /\ \A n \in Node : n \in freeNodes <=> ~ \E i \in 1..Len(ns) : ns[i] = n
Holds(ns) ==
    /\ contents \in Seq(Element) /\ Len(contents) = Len(ns) /\ elemCount = Len(ns)
    /\ DOMAIN data = Node /\ \A i \in 1..Len(ns) : data[ns[i]] = contents[i]
Walks(ns) == cyclicIter = NoNode \/ \E i \in 1..Len(ns) : cyclicIter = ns[i]
Pointers == next \in [Address -> Address] /\ next[NoNode] = NoNode
Chain(ns) ==
    /\ ns \in Seq(Node) /\ Pointers
    /\ Linked(ns) /\ Once(ns) /\ Owned(ns) /\ Holds(ns) /\ Walks(ns)
QueueInv == \E ns : Chain(ns)

ArrayInv ==
    /\ dim \in Nat \ {0} /\ elements \in Seq(Element)
    /\ count = Len(elements) /\ count <= dim /\ DOMAIN base = 0..(dim - 1)
    /\ \A i \in 0..(count - 1) : base[i] = elements[i + 1]

\* A sequence without its k-th element.
Out(q, k) == [i \in 1..(Len(q) - 1) |-> IF i < k THEN q[i] ELSE q[i + 1]]
LEMMA OutFacts ==
    ASSUME NEW S, NEW q \in Seq(S), NEW k \in 1..Len(q)
    PROVE  /\ Out(q, k) \in Seq(S) /\ Len(Out(q, k)) = Len(q) - 1
           /\ \A i \in 1..(Len(q) - 1) : Out(q, k)[i] = IF i < k THEN q[i] ELSE q[i + 1]
<1>1. Len(q) \in Nat /\ q \in [1..Len(q) -> S] /\ Len(q) - 1 \in Nat
    OBVIOUS
<1>2. \A i \in 1..(Len(q) - 1) : q[i] \in S /\ q[i + 1] \in S
    BY <1>1
<1>3. Out(q, k) \in [1..(Len(q) - 1) -> S]
    BY <1>2 DEF Out
<1>4. ASSUME NEW n \in Nat, NEW p \in [1..n -> S] PROVE p \in Seq(S) /\ Len(p) = n
    OBVIOUS
<1> QED
    BY <1>1, <1>3, <1>4 DEF Out

\* Sequences are functions, and joined are as long as both.
LEMMA SeqIsFcn ==
    ASSUME NEW S, NEW q \in Seq(S)
    PROVE  Len(q) \in Nat /\ q \in [1..Len(q) -> S] /\ q = [i \in 1..Len(q) |-> q[i]]
<1>1. Len(q) \in Nat /\ q \in [1..Len(q) -> S]
    OBVIOUS
<1> QED
    BY <1>1, Zenon
LEMMA JoinedSeq ==
    ASSUME NEW S, NEW a \in Seq(S), NEW b \in Seq(S)
    PROVE  a \o b \in Seq(S) /\ Len(a \o b) = Len(a) + Len(b)
OBVIOUS

\* The two ways in which the elements lose one.
LEMMA OutIs ==
    ASSUME NEW S, NEW q \in Seq(S), NEW k \in 1..Len(q)
    PROVE  SubSeq(q, 1, k - 1) \o SubSeq(q, k + 1, Len(q)) = Out(q, k)
<1>1. Len(q) \in Nat /\ q \in [1..Len(q) -> S] /\ k \in Nat /\ k - 1 \in Nat /\ Len(q) - k \in Nat
    OBVIOUS
<1> DEFINE a == SubSeq(q, 1, k - 1)
           b == SubSeq(q, k + 1, Len(q))
<1>2. a = [i \in 1..(k - 1) |-> q[i]]
    BY <1>1
<1>3. b = [i \in 1..(Len(q) - k) |-> q[k + i]]
    BY <1>1
<1> HIDE DEF a, b
<1>4. ASSUME NEW n \in Nat, NEW p \in [1..n -> S] PROVE p \in Seq(S) /\ Len(p) = n
    OBVIOUS
<1>5. \A i \in 1..(k - 1) : q[i] \in S
    BY <1>1
<1>6. \A i \in 1..(Len(q) - k) : q[k + i] \in S
    BY <1>1, SMTT(40)
<1>7. a \in Seq(S) /\ Len(a) = k - 1
  <2>1. a \in [1..(k - 1) -> S]
    BY <1>2, <1>5, SMTT(40)
  <2> QED
    BY <1>1, <1>4, <2>1
<1>8. b \in Seq(S) /\ Len(b) = Len(q) - k
  <2>1. b \in [1..(Len(q) - k) -> S]
    BY <1>3, <1>6
  <2> QED
    BY <1>1, <1>4, <2>1
<1> PICK c : c = a \o b
    OBVIOUS
<1>9. c \in Seq(S) /\ Len(c) = Len(q) - 1
  <2>1. c \in Seq(S) /\ Len(c) = Len(a) + Len(b)
    BY <1>7, <1>8, JoinedSeq
  <2> QED
    BY <1>1, <1>7, <1>8, <2>1
<1>10. c = [i \in 1..(Len(q) - 1) |-> c[i]]
  <2>1. c = [i \in 1..Len(c) |-> c[i]]
    BY <1>9, SeqIsFcn
  <2> QED
    BY <1>9, <2>1
<1>11. ASSUME NEW i \in 1..(Len(q) - 1)
       PROVE  c[i] = IF i < k THEN q[i] ELSE q[i + 1]
  <2>0. i \in Nat /\ i \in 1..(Len(a) + Len(b))
    BY <1>1, <1>7, <1>8
  <2>1. CASE i < k
    <3>1. i <= Len(a) /\ i \in 1..(k - 1)
      BY <1>1, <1>7, <2>0, <2>1
    <3>2. c[i] = a[i]
      BY <1>7, <1>8, <2>0, <3>1
    <3> QED
      BY <1>2, <2>1, <3>1, <3>2
  <2>2. CASE ~(i < k)
    <3>1. i - (k - 1) \in 1..(Len(q) - k) /\ k + (i - (k - 1)) = i + 1 /\ ~(i <= Len(a))
      BY <1>1, <1>7, <2>2
    <3>2. c[i] = b[i - (k - 1)]
      BY <1>7, <1>8, <2>0, <3>1
    <3> QED
      BY <1>3, <2>2, <3>1, <3>2
  <2> QED
    BY <2>1, <2>2
<1>12. c = Out(q, k)
    BY <1>10, <1>11 DEF Out
<1> QED
    BY <1>12 DEF a, b

LEMMA TailIs ==
    ASSUME NEW S, NEW q \in Seq(S), Len(q) # 0
    PROVE  Tail(q) = Out(q, 1)
<1>1. Len(q) \in Nat /\ q # <<>>
    OBVIOUS
<1>a. Tail(q) \in Seq(S) /\ Len(Tail(q)) = Len(q) - 1
    BY <1>1
<1>b. \A i \in 1..(Len(q) - 1) : Tail(q)[i] = q[i + 1]
    BY <1>1
<1> PICK c : c = Tail(q)
    OBVIOUS
<1>2. c = [i \in 1..(Len(q) - 1) |-> c[i]]
  <2>1. c = [i \in 1..Len(c) |-> c[i]]
    BY <1>a, SeqIsFcn
  <2> QED
    BY <1>a, <2>1
<1>3. \A i \in 1..(Len(q) - 1) : ~(i < 1)
    BY <1>1
<1> QED
    BY <1>2, <1>b, <1>3 DEF Out

LEMMA RemoveFirstIs ==
    ASSUME NEW S, NEW q \in Seq(S), NEW k \in 1..Len(q), \A j \in 1..(k - 1) : q[j] # q[k]
    PROVE  RemoveFirst(q, q[k]) = Out(q, k)
<1> PICK e : e = q[k]
    OBVIOUS
<1> DEFINE I == {i \in 1..Len(q) : q[i] = e}
<1>1. k \in I /\ I \subseteq Int /\ \A j \in I : k <= j
    OBVIOUS
<1>2. Min(I) = k
  <2> HIDE DEF I
  <2>1. ASSUME NEW m \in I, \A j \in I : m <= j PROVE m = k
    BY <1>1, <2>1
  <2> QED
    BY <1>1, <2>1 DEF Min
<1>3. SelectInSeq(q, LAMBDA v : v = e) = IF I # {} THEN Min(I) ELSE 0
    BY DEF SelectInSeq
<1>4. SelectInSeq(q, LAMBDA v : v = e) = k
    BY <1>1, <1>2, <1>3
<1>5. RemoveFirst(q, e) = SubSeq(q, 1, k - 1) \o SubSeq(q, k + 1, Len(q))
    BY <1>4 DEF RemoveFirst, RemoveAt
<1> QED
    BY <1>5, OutIs

\* The recursion that walks the nodes has a solution.
LEMMA AtFacts ==
    ASSUME Pointers, head \in Address
    PROVE  At[1] = head /\ \A i \in Nat \ {0} : At[i + 1] = next[At[i]]
<1> DEFINE Is(f) == f = [i \in Nat |-> IF i <= 1 THEN head ELSE next[f[i - 1]]]
<1>1. PICK f \in [Nat -> Address] : f[0] = head /\ \A n \in Nat : f[n + 1] = next[f[n]]
    BY NatRecursion, SMTT(40) DEF Pointers
<1> PICK g : g = [i \in Nat |-> IF i = 0 THEN head ELSE f[i - 1]]
    OBVIOUS
<1>2. ASSUME NEW i \in Nat PROVE g[i] = IF i <= 1 THEN head ELSE next[g[i - 1]]
  <2>1. CASE i <= 1
    <3>1. i = 0 \/ (i # 0 /\ i - 1 = 0)
      BY <2>1
    <3> QED
      BY <1>1, <2>1, <3>1
  <2>2. CASE ~(i <= 1)
    <3>1. i # 0 /\ i - 1 # 0 /\ i - 1 \in Nat /\ i - 1 - 1 \in Nat /\ i - 1 - 1 + 1 = i - 1
      BY <2>2
    <3>2. g[i] = f[i - 1] /\ g[i - 1] = f[i - 1 - 1]
      BY <3>1
    <3>3. f[i - 1] = next[f[i - 1 - 1]]
      BY <1>1, <3>1
    <3> QED
      BY <2>2, <3>2, <3>3
  <2> QED
    BY <2>1, <2>2
<1>3. g = [i \in Nat |-> g[i]]
    OBVIOUS
<1>4. [i \in Nat |-> g[i]] = [i \in Nat |-> IF i <= 1 THEN head ELSE next[g[i - 1]]]
    BY <1>2
<1>5. Is(g)
    BY <1>3, <1>4
<1>6. Is(CHOOSE h : Is(h))
  <2> HIDE DEF Is
  <2> QED
    BY <1>5
<1>7. At = CHOOSE h : Is(h)
    BY DEF At
<1>8. Is(At)
  <2> HIDE DEF Is
  <2> QED
    BY <1>6, <1>7
<1>9. At[1] = head
    BY <1>8
<1>10. ASSUME NEW i \in Nat \ {0} PROVE At[i + 1] = next[At[i]]
  <2>1. i + 1 \in Nat /\ ~(i + 1 <= 1) /\ i + 1 - 1 = i
    OBVIOUS
  <2> QED
    BY <1>8, <2>1
<1> QED
    BY <1>9, <1>10

\* The nodes seen from the head are those of the chain.
LEMMA NodesAre ==
    ASSUME NEW ns, Chain(ns)
    PROVE  /\ \A i \in 1..Len(ns) : NodeAt(i) = ns[i]
           /\ NodeAt(Len(ns) + 1) = NoNode
<1>1. ns \in Seq(Node) /\ Len(ns) \in Nat
    BY DEF Chain
<1>2. \A i \in 1..Len(ns) : ns[i] \in Node
    BY <1>1
<1>3. head \in Address
    BY <1>1, <1>2 DEF Chain, Linked, Address
<1>4. At[1] = head /\ \A i \in Nat \ {0} : At[i + 1] = next[At[i]]
    BY <1>3, AtFacts DEF Chain
<1> DEFINE Is == {i \in Nat : i + 1 <= Len(ns) => At[i + 1] = ns[i + 1]}
<1>5. 0 \in Is
    BY <1>1, <1>4 DEF Chain, Linked
<1>6. ASSUME NEW i \in Nat, i \in Is PROVE i + 1 \in Is
  <2>1. CASE i + 1 + 1 <= Len(ns)
    <3>1. i + 1 \in 1..Len(ns) /\ i + 1 # Len(ns) /\ i + 1 \in Nat \ {0}
      BY <1>1, <2>1
    <3>2. At[i + 1] = ns[i + 1]
      BY <1>1, <1>6, <3>1
    <3>3. At[i + 1 + 1] = next[ns[i + 1]]
      BY <1>4, <3>1, <3>2
    <3>4. next[ns[i + 1]] = ns[i + 1 + 1]
      BY <3>1 DEF Chain, Linked
    <3> QED
      BY <3>3, <3>4
  <2> QED
    BY <2>1
<1>7. \A i \in Nat : i \in Is
  <2> HIDE DEF Is
  <2> QED
    BY <1>5, <1>6, SetInduction
<1>8. ASSUME NEW i \in 1..Len(ns) PROVE At[i] = ns[i]
  <2>1. i - 1 \in Nat /\ i - 1 + 1 = i
    BY <1>1
  <2>2. i - 1 \in Is
    BY <1>7, <2>1
  <2> QED
    BY <1>1, <2>1, <2>2
<1>9. At[Len(ns) + 1] = NoNode
  <2>1. CASE Len(ns) = 0
    BY <1>4, <2>1 DEF Chain, Linked
  <2>2. CASE Len(ns) # 0
    <3>1. Len(ns) \in 1..Len(ns) /\ Len(ns) \in Nat \ {0}
      BY <1>1, <2>2
    <3>2. next[ns[Len(ns)]] = NoNode
      BY <3>1 DEF Chain, Linked
    <3> QED
      BY <1>4, <1>8, <3>1, <3>2
  <2> QED
    BY <2>1, <2>2
<1> QED
    BY <1>8, <1>9 DEF NodeAt

\* A chain is what the property asks for.
LEMMA ChainIsSequence == QueueInv => QueueIsSequence
<1> SUFFICES ASSUME NEW ns, Chain(ns) PROVE QueueIsSequence
    BY DEF QueueInv
<1>1. ns \in Seq(Node) /\ Len(ns) \in Nat /\ elemCount = Len(ns) /\ Len(contents) = Len(ns)
    BY DEF Chain, Holds
<1>2. \A i \in 1..Len(ns) : ns[i] \in Node
    BY <1>1
<1>3. \A i \in 1..elemCount : NodeAt(i) = ns[i]
    BY <1>1, NodesAre
<1>4. NodeAt(elemCount + 1) = NoNode
    BY <1>1, NodesAre
<1>5. \A i \in 1..elemCount : NodeAt(i) # NoNode /\ data[NodeAt(i)] = contents[i]
    BY <1>1, <1>2, <1>3, ContainersAssumption DEF Chain, Holds
<1>6. elemCount > 0 => queuePeek = Head(contents)
  <2> SUFFICES ASSUME elemCount > 0 PROVE data[head] = Head(contents)
    BY DEF queuePeek
  <2>1. 1 \in 1..Len(ns) /\ head = ns[1]
    BY <1>1 DEF Chain, Linked
  <2>2. data[ns[1]] = contents[1]
    BY <2>1 DEF Chain, Holds
  <2>3. contents \in Seq(Element)
    BY DEF Chain, Holds
  <2> QED
    BY <2>1, <2>2, <2>3
<1>7. tail = IF elemCount = 0 THEN NoNode ELSE NodeAt(elemCount)
  <2>1. CASE elemCount = 0
    BY <1>1, <2>1 DEF Chain, Linked
  <2>2. CASE elemCount # 0
    <3>1. elemCount \in 1..elemCount
      BY <1>1, <2>2
    <3> QED
      BY <1>1, <1>3, <2>2, <3>1 DEF Chain, Linked
  <2> QED
    BY <2>1, <2>2
<1> DEFINE chain == {NodeAt(i) : i \in 1..elemCount}
<1>8. \A n : n \in chain <=> \E i \in 1..Len(ns) : ns[i] = n
    BY <1>1, <1>3
<1> HIDE DEF chain
<1>9. cyclicIter \in chain \cup {NoNode}
    BY <1>8 DEF Chain, Walks
<1>10. chain \subseteq Node
    BY <1>2, <1>8
<1>11. chain \cap freeNodes = {} /\ chain \cup freeNodes = Node
    BY <1>8, <1>10 DEF Chain, Owned
<1> QED
    BY <1>1, <1>4, <1>5, <1>6, <1>7, <1>9, <1>11 DEF QueueIsSequence, chain

\* A node is taken out of the chain (dequeue, queueRemove).
Unlinks(ns, k) ==
    /\ head' = IF k = 1 THEN next[ns[k]] ELSE head
    /\ next' = IF k = 1 THEN next ELSE [next EXCEPT ![ns[k - 1]] = next[ns[k]]]
    /\ tail' = IF ns[k] = tail THEN (IF k = 1 THEN NoNode ELSE ns[k - 1]) ELSE tail
    /\ cyclicIter' \in {NoNode, next[ns[k]]} \/ (cyclicIter' = cyclicIter /\ cyclicIter # ns[k])
    /\ freeNodes' = freeNodes \cup {ns[k]}
    /\ elemCount' = elemCount - 1
    /\ contents' = Out(contents, k)
    /\ data' = data
LEMMA UnlinkKeeps ==
    ASSUME NEW ns, Chain(ns), NEW k \in 1..Len(ns), Unlinks(ns, k)
    PROVE  QueueInv'
<1> PICK L : L = Len(ns)
    OBVIOUS
<1> PICK ms : ms = Out(ns, k)
    OBVIOUS
<1>1. ns \in Seq(Node) /\ L \in Nat /\ k \in 1..L /\ contents \in Seq(Element) /\ Len(contents) = L
    BY DEF Chain, Holds
<1>2. \A i \in 1..L : ns[i] \in Node
    BY <1>1
<1>3. \A i, j \in 1..L : ns[i] = ns[j] => i = j
    BY DEF Chain, Once
<1>4. /\ ms \in Seq(Node) /\ Len(ms) = L - 1
      /\ \A i \in 1..(L - 1) : ms[i] = IF i < k THEN ns[i] ELSE ns[i + 1]
    BY <1>1, OutFacts
<1>5. \A i \in 1..L : next[ns[i]] = IF i = L THEN NoNode ELSE ns[i + 1]
    BY DEF Chain, Linked
<1>6. next[ns[k]] \in Address
    BY <1>1, <1>2 DEF Chain, Pointers, Address
<1>7. Pointers'
  <2>1. CASE k = 1
    BY <2>1 DEF Unlinks, Chain, Pointers
  <2>2. CASE k # 1
    <3>1. k - 1 \in 1..L
      BY <1>1, <2>2
    <3>2. ns[k - 1] \in Node /\ ns[k - 1] # NoNode
      BY <1>2, <3>1, ContainersAssumption
    <3>3. next' = [next EXCEPT ![ns[k - 1]] = next[ns[k]]]
      BY <2>2 DEF Unlinks
    <3> QED
      BY <1>6, <3>2, <3>3 DEF Chain, Pointers, Address
  <2> QED
    BY <2>1, <2>2
<1>8. ASSUME NEW i \in 1..L, i # k, i # k - 1 PROVE next'[ns[i]] = next[ns[i]]
  <2>1. CASE k = 1
    BY <2>1 DEF Unlinks
  <2>2. CASE k # 1
    <3>1. k - 1 \in 1..L /\ ns[k - 1] # ns[i]
      BY <1>1, <1>3, <1>8, <2>2
    <3>2. next' = [next EXCEPT ![ns[k - 1]] = next[ns[k]]]
      BY <2>2 DEF Unlinks
    <3> QED
      BY <1>2, <3>1, <3>2 DEF Chain, Pointers, Address
  <2> QED
    BY <2>1, <2>2
<1>9. ASSUME k # 1 PROVE k - 1 \in 1..L /\ next'[ns[k - 1]] = next[ns[k]]
  <2>1. k - 1 \in 1..L
    BY <1>1, <1>9
  <2>2. next' = [next EXCEPT ![ns[k - 1]] = next[ns[k]]]
    BY <1>9 DEF Unlinks
  <2> QED
    BY <1>2, <2>1, <2>2 DEF Chain, Pointers, Address
<1>10. \A i \in 1..(L - 1) : next'[ms[i]] = IF i = L - 1 THEN NoNode ELSE ms[i + 1]
  <2> SUFFICES ASSUME NEW i \in 1..(L - 1)
               PROVE  next'[ms[i]] = IF i = L - 1 THEN NoNode ELSE ms[i + 1]
    OBVIOUS
  <2>0. i \in Nat /\ i \in 1..L /\ i + 1 \in 1..L /\ k \in Nat
    BY <1>1
  <2>1. CASE i < k - 1
    <3>1. i < k /\ i # k /\ i # k - 1 /\ i # L /\ i # L - 1 /\ i + 1 \in 1..(L - 1) /\ i + 1 < k
      BY <1>1, <2>0, <2>1
    <3>2. ms[i] = ns[i] /\ ms[i + 1] = ns[i + 1]
      BY <1>4, <3>1
    <3> QED
      BY <1>5, <1>8, <2>0, <3>1, <3>2
  <2>2. CASE i = k - 1
    <3>1. i < k /\ k # 1 /\ i + 1 = k
      BY <1>1, <2>0, <2>2
    <3>2. ms[i] = ns[k - 1] /\ next'[ms[i]] = next[ns[k]]
      BY <1>4, <1>9, <2>2, <3>1
    <3>3. next[ns[k]] = IF k = L THEN NoNode ELSE ns[k + 1]
      BY <1>1, <1>5
    <3>4. CASE i = L - 1
      BY <1>1, <3>1, <3>2, <3>3, <3>4
    <3>5. CASE i # L - 1
      <4>1. i + 1 \in 1..(L - 1) /\ ~(i + 1 < k) /\ k # L
        BY <1>1, <2>0, <3>1, <3>5
      <4>2. ms[i + 1] = ns[k + 1]
        BY <1>4, <3>1, <4>1
      <4> QED
        BY <3>2, <3>3, <3>5, <4>1, <4>2
    <3> QED
      BY <3>4, <3>5
  <2>3. CASE i >= k
    <3>1. ~(i < k) /\ i + 1 # k /\ i + 1 # k - 1
      BY <1>1, <2>0, <2>3
    <3>2. ms[i] = ns[i + 1] /\ next'[ns[i + 1]] = next[ns[i + 1]]
      BY <1>4, <1>8, <2>0, <3>1
    <3>3. CASE i = L - 1
      BY <1>1, <1>5, <2>0, <3>2, <3>3
    <3>4. CASE i # L - 1
      <4>1. i + 1 \in 1..(L - 1) /\ ~(i + 1 < k) /\ i + 1 # L
        BY <1>1, <2>0, <2>3, <3>4
      <4>2. ms[i + 1] = ns[i + 1 + 1]
        BY <1>4, <4>1
      <4> QED
        BY <1>5, <2>0, <3>2, <3>4, <4>1, <4>2
    <3> QED
      BY <3>3, <3>4
  <2> QED
    BY <1>1, <2>0, <2>1, <2>2, <2>3
<1>11. head' = IF L - 1 = 0 THEN NoNode ELSE ms[1]
  <2>1. CASE k = 1
    <3>1. head' = next[ns[1]] /\ 1 \in 1..L
      BY <1>1, <2>1 DEF Unlinks
    <3>2. next[ns[1]] = IF 1 = L THEN NoNode ELSE ns[1 + 1]
      BY <1>5, <3>1
    <3>3. L # 1 => 1 \in 1..(L - 1) /\ ~(1 < k) /\ L - 1 # 0
      BY <1>1, <2>1
    <3>4. L # 1 => ms[1] = ns[1 + 1]
      BY <1>4, <3>3
    <3> QED
      BY <1>1, <3>1, <3>2, <3>3, <3>4
  <2>2. CASE k # 1
    <3>1. L - 1 # 0 /\ 1 \in 1..(L - 1) /\ 1 < k /\ L # 0
      BY <1>1, <2>2
    <3>2. head' = head /\ head = ns[1]
      BY <2>2, <3>1 DEF Unlinks, Chain, Linked
    <3> QED
      BY <1>4, <3>1, <3>2
  <2> QED
    BY <2>1, <2>2
<1>12. tail' = IF L - 1 = 0 THEN NoNode ELSE ms[L - 1]
  <2>1. L # 0 /\ L \in 1..L /\ tail = ns[L]
    BY <1>1 DEF Chain, Linked
  <2>2. ns[k] = tail <=> k = L
    BY <1>1, <1>3, <2>1
  <2>3. CASE k = L
    <3>1. tail' = IF k = 1 THEN NoNode ELSE ns[k - 1]
      BY <2>2, <2>3 DEF Unlinks
    <3>2. k # 1 => L - 1 \in 1..(L - 1) /\ L - 1 < k /\ L - 1 # 0
      BY <1>1, <2>3
    <3>3. k # 1 => ms[L - 1] = ns[L - 1]
      BY <1>4, <3>2
    <3> QED
      BY <1>1, <2>3, <3>1, <3>2, <3>3
  <2>4. CASE k # L
    <3>1. tail' = ns[L]
      BY <2>1, <2>2, <2>4 DEF Unlinks
    <3>2. L - 1 \in 1..(L - 1) /\ ~(L - 1 < k) /\ L - 1 # 0 /\ L - 1 + 1 = L
      BY <1>1, <2>4
    <3> QED
      BY <1>4, <3>1, <3>2
  <2> QED
    BY <2>3, <2>4
<1>13. Linked(ms)'
  <2>1. Len(ms) = L - 1
    BY <1>4
  <2> QED
    BY <1>10, <1>11, <1>12, <2>1 DEF Linked
<1> DEFINE From(i) == IF i < k THEN i ELSE i + 1
<1>14. \A i \in 1..(L - 1) : From(i) \in 1..L /\ From(i) # k /\ ms[i] = ns[From(i)]
    BY <1>1, <1>4
<1>15. ASSUME NEW i \in 1..L, i # k PROVE \E j \in 1..(L - 1) : ms[j] = ns[i]
  <2>1. CASE i < k
    <3>1. i \in 1..(L - 1)
      BY <1>1, <2>1
    <3> QED
      BY <1>4, <2>1, <3>1
  <2>2. CASE i > k
    <3>1. i - 1 \in 1..(L - 1) /\ ~(i - 1 < k) /\ i - 1 + 1 = i
      BY <1>1, <2>2
    <3> QED
      BY <1>4, <3>1
  <2> QED
    BY <1>1, <1>15, <2>1, <2>2
<1>16. Once(ms)
  <2>1. \A i, j \in 1..(L - 1) : From(i) = From(j) => i = j
    BY <1>1
  <2> HIDE DEF From
  <2> QED
    BY <1>3, <1>4, <1>14, <2>1 DEF Once
<1> HIDE DEF From
<1>17. \A n : (\E i \in 1..(L - 1) : ms[i] = n) <=> n # ns[k] /\ \E i \in 1..L : ns[i] = n
  <2> SUFFICES ASSUME NEW n
               PROVE  (\E i \in 1..(L - 1) : ms[i] = n) <=> (n # ns[k] /\ \E i \in 1..L : ns[i] = n)
    OBVIOUS
  <2>1. ASSUME NEW i \in 1..(L - 1), ms[i] = n PROVE n # ns[k] /\ \E j \in 1..L : ns[j] = n
    <3>1. From(i) \in 1..L /\ From(i) # k /\ ms[i] = ns[From(i)]
      BY <1>14
    <3> QED
      BY <1>1, <1>3, <2>1, <3>1
  <2>2. ASSUME NEW i \in 1..L, ns[i] = n, n # ns[k] PROVE \E j \in 1..(L - 1) : ms[j] = n
    <3>1. i # k
      BY <2>2
    <3> QED
      BY <1>15, <2>2, <3>1
  <2> QED
    BY <2>1, <2>2
<1>18. Owned(ms)'
  <2>1. freeNodes' = freeNodes \cup {ns[k]} /\ ns[k] \in Node /\ Len(ms) = L - 1
    BY <1>1, <1>2, <1>4 DEF Unlinks
  <2>2. freeNodes \subseteq Node /\ \A n \in Node : n \in freeNodes <=> ~ \E i \in 1..L : ns[i] = n
    BY DEF Chain, Owned
  <2> QED
    BY <1>17, <2>1, <2>2 DEF Owned
<1>19. Holds(ms)'
  <2>1. /\ contents' = Out(contents, k) /\ data' = data /\ elemCount' = L - 1 /\ Len(ms) = L - 1
    BY <1>1, <1>4 DEF Unlinks, Chain, Holds
  <2>2. /\ contents' \in Seq(Element) /\ Len(contents') = L - 1
        /\ \A i \in 1..(L - 1) : contents'[i] = IF i < k THEN contents[i] ELSE contents[i + 1]
    BY <1>1, <2>1, OutFacts
  <2>3. DOMAIN data = Node /\ \A i \in 1..L : data[ns[i]] = contents[i]
    BY DEF Chain, Holds
  <2>4. \A i \in 1..(L - 1) : i \in 1..L /\ i + 1 \in 1..L
    BY <1>1
  <2>5. \A i \in 1..(L - 1) : data[ms[i]] = contents'[i]
    BY ZenonT(40), <1>4, <2>2, <2>3, <2>4
  <2> QED
    BY <2>1, <2>2, <2>3, <2>5 DEF Holds
<1>20. Walks(ms)'
  <2>1. CASE cyclicIter' = NoNode
    BY <2>1 DEF Walks
  <2>2. CASE cyclicIter' = next[ns[k]]
    <3>1. next[ns[k]] = IF k = L THEN NoNode ELSE ns[k + 1]
      BY <1>1, <1>5
    <3>2. k # L => k + 1 \in 1..L /\ k + 1 # k
      BY <1>1
    <3> QED
      BY <1>4, <1>15, <2>2, <3>1, <3>2 DEF Walks
  <2>3. CASE cyclicIter' = cyclicIter /\ cyclicIter # ns[k]
    BY <1>4, <1>17, <2>3 DEF Chain, Walks
  <2> QED
    BY <2>1, <2>2, <2>3 DEF Unlinks
<1>21. Once(ms)'
    BY <1>16 DEF Once
<1>22. Chain(ms)'
    BY <1>4, <1>7, <1>13, <1>18, <1>19, <1>20, <1>21 DEF Chain
<1> QED
    BY <1>22 DEF QueueInv

LEMMA DequeueKeeps == QueueInv /\ dequeue => QueueInv'
<1> SUFFICES ASSUME NEW ns, Chain(ns), dequeue PROVE QueueInv'
    BY DEF QueueInv
<1>1. ns \in Seq(Node) /\ Len(ns) \in Nat /\ contents \in Seq(Element) /\ Len(contents) = Len(ns)
    BY DEF Chain, Holds
<1>2. Len(ns) # 0 /\ head = ns[1] /\ 1 \in 1..Len(ns)
    BY <1>1 DEF dequeue, Chain, Linked
<1>3. next[ns[1]] = IF 1 = Len(ns) THEN NoNode ELSE ns[1 + 1]
    BY <1>2 DEF Chain, Linked
<1>4. tail = ns[Len(ns)] /\ Len(ns) \in 1..Len(ns)
    BY <1>1, <1>2 DEF Chain, Linked
<1>5. ns[1] = tail <=> 1 = Len(ns)
    BY <1>2, <1>4 DEF Chain, Once
<1>6. next[ns[1]] = NoNode <=> 1 = Len(ns)
  <2>1. 1 # Len(ns) => 1 + 1 \in 1..Len(ns)
    BY <1>1, <1>2
  <2>2. 1 # Len(ns) => ns[1 + 1] \in Node
    BY <1>1, <2>1
  <2> QED
    BY <1>3, <2>2, ContainersAssumption
<1>7. Tail(contents) = Out(contents, 1)
    BY <1>1, <1>2, TailIs
<1>8. Unlinks(ns, 1)
    BY <1>2, <1>5, <1>6, <1>7 DEF dequeue, Unlinks
<1> QED
    BY <1>2, <1>8, UnlinkKeeps

LEMMA RemoveKeeps == ASSUME QueueInv, NEW e \in Element, queueRemove(e) PROVE QueueInv'
<1> SUFFICES ASSUME NEW ns, Chain(ns) PROVE QueueInv'
    BY DEF QueueInv
<1>1. /\ ns \in Seq(Node) /\ Len(ns) \in Nat /\ elemCount = Len(ns)
      /\ contents \in Seq(Element) /\ Len(contents) = Len(ns)
    BY DEF Chain, Holds
<1>2. PICK k \in 1..Len(ns) :
        LET current == NodeAt(k)
            prev == IF k = 1 THEN NoNode ELSE NodeAt(k - 1) IN
        /\ data[current] = e /\ \A j \in 1..(k - 1) : data[NodeAt(j)] # e
        /\ head' = IF prev = NoNode THEN next[current] ELSE head
        /\ next' = IF prev = NoNode THEN next ELSE [next EXCEPT ![prev] = next[current]]
        /\ tail' = TailWithout(current, prev)
        /\ cyclicIter' = IF cyclicIter = current THEN next[current] ELSE cyclicIter
        /\ freeNodes' = freeNodes \cup {current}
        /\ elemCount' = elemCount - 1
        /\ contents' = RemoveFirst(contents, e)
        /\ UNCHANGED data
    BY <1>1 DEF queueRemove
<1>3. NodeAt(k) = ns[k] /\ \A j \in 1..(k - 1) : j \in 1..Len(ns) /\ NodeAt(j) = ns[j]
    BY <1>1, NodesAre
<1>4. k # 1 => k - 1 \in 1..(k - 1)
    BY <1>1
<1>5. k # 1 => NodeAt(k - 1) = ns[k - 1] /\ ns[k - 1] \in Node /\ ns[k - 1] # NoNode
    BY <1>1, <1>3, <1>4, ContainersAssumption
<1> PICK prev : prev = IF k = 1 THEN NoNode ELSE NodeAt(k - 1)
    OBVIOUS
<1>6. (prev = NoNode <=> k = 1) /\ prev = IF k = 1 THEN NoNode ELSE ns[k - 1]
    BY <1>5
<1>7. \A i \in 1..Len(ns) : data[ns[i]] = contents[i]
    BY DEF Chain, Holds
<1>8. contents[k] = e /\ \A j \in 1..(k - 1) : contents[j] # contents[k]
    BY <1>2, <1>3, <1>7
<1>9. contents' = Out(contents, k)
    BY <1>1, <1>2, <1>8, RemoveFirstIs
<1>10. Unlinks(ns, k)
  <2>1. head' = IF k = 1 THEN next[ns[k]] ELSE head
    BY <1>2, <1>3, <1>6
  <2>2. next' = IF k = 1 THEN next ELSE [next EXCEPT ![ns[k - 1]] = next[ns[k]]]
    BY <1>2, <1>3, <1>6
  <2>3. tail' = IF ns[k] = tail THEN (IF k = 1 THEN NoNode ELSE ns[k - 1]) ELSE tail
    BY <1>2, <1>3, <1>6 DEF TailWithout
  <2>4. cyclicIter' \in {NoNode, next[ns[k]]} \/ (cyclicIter' = cyclicIter /\ cyclicIter # ns[k])
    BY <1>2, <1>3
  <2>5. freeNodes' = freeNodes \cup {ns[k]} /\ elemCount' = elemCount - 1 /\ data' = data
    BY <1>2, <1>3
  <2> QED
    BY <1>9, <2>1, <2>2, <2>3, <2>4, <2>5 DEF Unlinks
<1> QED
    BY <1>10, UnlinkKeeps

LEMMA FreeKeeps == QueueInv /\ queueFree => QueueInv'
<1> SUFFICES ASSUME NEW ns, Chain(ns), queueFree PROVE QueueInv'
    BY DEF QueueInv
<1>1. ns \in Seq(Node) /\ Len(ns) \in Nat /\ elemCount = Len(ns)
    BY DEF Chain, Holds
<1>2. \A i \in 1..Len(ns) : ns[i] \in Node /\ NodeAt(i) = ns[i]
    BY <1>1, NodesAre
<1> PICK ms : ms = <<>>
    OBVIOUS
<1>3. ms \in Seq(Node) /\ Len(ms) = 0 /\ \A i \in 1..0 : FALSE
    OBVIOUS
<1>4. freeNodes' = Node
  <2>1. freeNodes' = freeNodes \cup {NodeAt(i) : i \in 1..elemCount}
    BY DEF queueFree
  <2>2. freeNodes \subseteq Node /\ \A n \in Node : n \in freeNodes <=> ~ \E i \in 1..Len(ns) : ns[i] = n
    BY DEF Chain, Owned
  <2> QED
    BY <1>1, <1>2, <2>1, <2>2
<1>5. Pointers' /\ Linked(ms)'
    BY <1>3 DEF queueFree, Chain, Pointers, Linked
<1>6. Once(ms)' /\ Owned(ms)'
    BY <1>3, <1>4 DEF Once, Owned
<1>7. Holds(ms)' /\ Walks(ms)'
  <2>1. contents' \in Seq(Element) /\ Len(contents') = 0 /\ elemCount' = 0 /\ data' = data
    BY DEF queueFree
  <2> QED
    BY <1>3, <2>1 DEF queueFree, Chain, Holds, Walks
<1>8. Chain(ms)'
    BY <1>3, <1>5, <1>6, <1>7 DEF Chain
<1> QED
    BY <1>8 DEF QueueInv

\* The iterator goes to a node of the queue.
LEMMA IterKeeps ==
    ASSUME NEW ns, Chain(ns), NEW n, MoveIter(n), n = NoNode \/ \E i \in 1..Len(ns) : n = ns[i]
    PROVE  QueueInv'
<1>1. Pointers' /\ Linked(ns)' /\ Once(ns)' /\ Owned(ns)'
    BY DEF MoveIter, Chain, Pointers, Linked, Once, Owned
<1>2. Holds(ns)' /\ Walks(ns)'
    BY DEF MoveIter, Chain, Holds, Walks
<1>3. Chain(ns)'
    BY <1>1, <1>2 DEF Chain
<1> QED
    BY <1>3 DEF QueueInv

LEMMA RoundStays ==
    ASSUME NEW ns, Chain(ns), NEW k \in 1..Len(ns)
    PROVE  \E i \in 1..Len(ns) : Round(ns[k]) = ns[i]
<1>1. ns \in Seq(Node) /\ Len(ns) \in Nat /\ Len(ns) # 0 /\ 1 \in 1..Len(ns) /\ head = ns[1]
    BY DEF Chain, Linked
<1>2. next[ns[k]] = IF k = Len(ns) THEN NoNode ELSE ns[k + 1]
    BY DEF Chain, Linked
<1>3. k # Len(ns) => k + 1 \in 1..Len(ns)
    BY <1>1
<1> QED
    BY <1>1, <1>2, <1>3 DEF Round

LEMMA EnqueueKeeps == ASSUME QueueInv, NEW e \in Element, enqueue(e) PROVE QueueInv'
<1> SUFFICES ASSUME NEW ns, Chain(ns) PROVE QueueInv'
    BY DEF QueueInv
<1> PICK L : L = Len(ns)
    OBVIOUS
<1>1. /\ ns \in Seq(Node) /\ L \in Nat /\ elemCount = L /\ contents \in Seq(Element) /\ Len(contents) = L
      /\ freeNodes \subseteq Node
    BY DEF Chain, Holds, Owned
<1>2. \A i \in 1..L : ns[i] \in Node
    BY <1>1
<1>3. PICK new \in freeNodes :
        /\ freeNodes' = freeNodes \ {new}
        /\ data' = [data EXCEPT ![new] = e]
        /\ next' = [next EXCEPT ![new] = NoNode,
                                ![tail] = IF head = NoNode THEN @ ELSE new]
        /\ head' = IF head = NoNode THEN new ELSE head
        /\ tail' = new
        /\ elemCount' = elemCount + 1
        /\ contents' = Append(contents, e)
        /\ UNCHANGED cyclicIter
    BY DEF enqueue
<1>4. new \in Node /\ new # NoNode /\ \A i \in 1..L : ns[i] # new
    BY <1>1, ContainersAssumption DEF Chain, Owned
<1> PICK ms : ms = Append(ns, new)
    OBVIOUS
<1>5. ms \in Seq(Node) /\ Len(ms) = L + 1 /\ ms[L + 1] = new /\ \A i \in 1..L : ms[i] = ns[i]
    BY <1>1, <1>4
<1>6. contents' \in Seq(Element) /\ Len(contents') = L + 1 /\ contents'[L + 1] = e /\ \A i \in 1..L : contents'[i] = contents[i]
    BY <1>1, <1>3
<1>7. (head = NoNode <=> L = 0) /\ (L = 0 => tail = NoNode) /\ (L # 0 => head = ns[1] /\ tail = ns[L] /\ L \in 1..L)
    BY <1>1, <1>2, ContainersAssumption DEF Chain, Linked
<1>8. next \in [Address -> Address] /\ next[NoNode] = NoNode
    BY DEF Chain, Pointers
<1>9. tail \in Address /\ tail # new
    BY <1>2, <1>4, <1>7 DEF Address
<1>10. /\ next' \in [Address -> Address] /\ next'[new] = NoNode
       /\ next'[tail] = IF L = 0 THEN next[tail] ELSE new
       /\ \A n \in Address : n # new /\ n # tail => next'[n] = next[n]
  <2>1. new \in Address /\ NoNode \in Address
    BY <1>4 DEF Address
  <2>2. next' = [n \in Address |-> IF n = tail THEN (IF head = NoNode THEN next[tail] ELSE new)
                                   ELSE IF n = new THEN NoNode ELSE next[n]]
    BY <1>3, <1>8, <1>9, <2>1
  <2> QED
    BY <1>7, <1>8, <1>9, <2>1, <2>2
<1>11. Pointers'
  <2>1. NoNode \in Address
    BY DEF Address
  <2>2. next'[NoNode] = NoNode
  <3>1. CASE L = 0
    BY <1>7, <1>8, <1>10, <3>1
  <3>2. CASE L # 0
    <4>1. tail # NoNode
      BY <1>2, <1>7, <3>2, ContainersAssumption
    <4> QED
      BY <1>4, <1>8, <1>10, <2>1, <4>1
  <3> QED
    BY <3>1, <3>2
  <2> QED
    BY <1>10, <2>2 DEF Pointers
<1>12. Linked(ms)'
  <2>1. Len(ms) # 0 /\ tail' = ms[Len(ms)]
    BY <1>1, <1>3, <1>5
  <2>2. head' = ms[1]
    <3>1. CASE L = 0
      <4>1. ms[1] = new
        BY <1>5, <3>1
      <4> QED
        BY <1>3, <1>7, <3>1, <4>1
    <3>2. CASE L # 0
      <4>1. 1 \in 1..L
        BY <1>1, <3>2
      <4> QED
        BY <1>3, <1>5, <1>7, <3>2, <4>1
    <3> QED
      BY <3>1, <3>2
  <2>3. ASSUME NEW i \in 1..(L + 1) PROVE next'[ms[i]] = IF i = L + 1 THEN NoNode ELSE ms[i + 1]
    <3>1. CASE i = L + 1
      BY <1>5, <1>10, <3>1
    <3>2. CASE i = L
      <4>1. i \in 1..L /\ L # 0 /\ i # L + 1 /\ ms[i] = tail /\ ms[i + 1] = new
        BY <1>1, <1>5, <1>7, <3>2
      <4> QED
        BY <1>10, <4>1
    <3>3. CASE i # L /\ i # L + 1
      <4>1. i \in 1..L /\ i + 1 \in 1..L /\ L # 0 /\ L \in 1..L
        BY <1>1, <3>3
      <4>2. ns[i] # new /\ ns[i] # tail /\ ns[i] \in Address
        BY <1>2, <1>4, <1>7, <3>3, <4>1 DEF Chain, Once, Address
      <4>3. next[ns[i]] = ns[i + 1]
        BY <3>3, <4>1 DEF Chain, Linked
      <4> QED
        BY <1>5, <1>10, <3>3, <4>1, <4>2, <4>3
    <3> QED
      BY <3>1, <3>2, <3>3
  <2> QED
    BY <1>5, <2>1, <2>2, <2>3 DEF Linked
<1>13. Once(ms)'
  <2>1. ASSUME NEW i \in 1..(L + 1), NEW j \in 1..(L + 1), ms[i] = ms[j] PROVE i = j
    <3>1. (i \in 1..L \/ i = L + 1) /\ (j \in 1..L \/ j = L + 1)
      BY <1>1
    <3> QED
      BY <1>4, <1>5, <2>1, <3>1 DEF Chain, Once
  <2> QED
    BY <1>5, <2>1 DEF Once
<1>14. ASSUME NEW n PROVE (\E i \in 1..(L + 1) : ms[i] = n) <=> (n = new \/ \E i \in 1..L : ns[i] = n)
  <2>1. L + 1 \in 1..(L + 1) /\ \A i \in 1..L : i \in 1..(L + 1)
    BY <1>1
  <2>2. \A i \in 1..(L + 1) : i \in 1..L \/ i = L + 1
    BY <1>1
  <2> QED
    BY <1>5, <2>1, <2>2
<1>15. Owned(ms)'
  <2>1. freeNodes \subseteq Node /\ \A n \in Node : n \in freeNodes <=> ~ \E i \in 1..L : ns[i] = n
    BY DEF Chain, Owned
  <2> QED
    BY <1>3, <1>5, <1>14, <2>1, ZenonT(40) DEF Owned
<1>16. Holds(ms)'
  <2>1. DOMAIN data = Node /\ \A i \in 1..L : data[ns[i]] = contents[i]
    BY DEF Chain, Holds
  <2>2. DOMAIN data' = Node /\ data'[new] = e /\ \A n \in Node : n # new => data'[n] = data[n]
    BY <1>3, <1>4, <2>1
  <2>3. ASSUME NEW i \in 1..(L + 1) PROVE data'[ms[i]] = contents'[i]
    <3>1. i \in 1..L \/ i = L + 1
      BY <1>1
    <3>2. CASE i \in 1..L
      BY <1>2, <1>4, <1>5, <1>6, <2>1, <2>2, <3>2
    <3>3. CASE i = L + 1
      BY <1>5, <1>6, <2>2, <3>3
    <3> QED
      BY <3>1, <3>2, <3>3
  <2> QED
    BY <1>1, <1>3, <1>5, <1>6, <2>2, <2>3 DEF Holds
<1>17. Walks(ms)'
    BY <1>3, <1>5, <1>14 DEF Chain, Walks
<1>18. Chain(ms)'
    BY <1>5, <1>11, <1>12, <1>13, <1>15, <1>16, <1>17 DEF Chain
<1> QED
    BY <1>18 DEF QueueInv

\* The queue starts empty, with every node free.
LEMMA QueueStart == createQueue => QueueInv
<1> SUFFICES ASSUME createQueue PROVE QueueInv
    OBVIOUS
<1> PICK ms : ms = <<>>
    OBVIOUS
<1>1. ms \in Seq(Node) /\ Len(ms) = 0 /\ \A i \in 1..0 : FALSE
    OBVIOUS
<1>2. Pointers /\ Linked(ms)
  <2>1. NoNode \in Address
    BY DEF Address
  <2> QED
    BY <1>1, <2>1 DEF createQueue, Pointers, Linked, Address
<1>3. Once(ms) /\ Owned(ms) /\ Walks(ms)
    BY <1>1 DEF createQueue, Once, Owned, Walks
<1>4. Holds(ms)
  <2>1. contents \in Seq(Element) /\ Len(contents) = 0 /\ elemCount = 0 /\ DOMAIN data = Node
    BY DEF createQueue
  <2> QED
    BY <1>1, <2>1 DEF Holds
<1>5. Chain(ms)
    BY <1>1, <1>2, <1>3, <1>4 DEF Chain
<1> QED
    BY <1>5 DEF QueueInv

LEMMA QueueStep == QueueInv /\ QueueNext => QueueInv'
<1> SUFFICES ASSUME QueueInv, QueueNext PROVE QueueInv'
    OBVIOUS
<1>1. PICK ns : Chain(ns)
    BY DEF QueueInv
<1>2. Len(ns) \in Nat /\ elemCount = Len(ns) /\ (head # NoNode => Len(ns) # 0 /\ 1 \in 1..Len(ns) /\ head = ns[1])
    BY <1>1 DEF Chain, Holds, Linked
<1>3. ASSUME NEW e \in Element, enqueue(e) PROVE QueueInv'
    BY <1>3, EnqueueKeeps
<1>4. ASSUME NEW e \in Element, queueRemove(e) PROVE QueueInv'
    BY <1>4, RemoveKeeps
<1>5. ASSUME NEW e \in Element, queueElementExists(e) PROVE QueueInv'
  <2>1. ASSUME NEW k \in 1..elemCount, MoveIter(Round(NodeAt(k))) PROVE QueueInv'
    <3>1. k \in 1..Len(ns) /\ NodeAt(k) = ns[k]
      BY <1>1, <1>2, NodesAre
    <3>2. \E i \in 1..Len(ns) : Round(ns[k]) = ns[i]
      BY <1>1, <3>1, RoundStays
    <3> QED
      BY <1>1, <2>1, <3>1, <3>2, IterKeeps
  <2>2. ASSUME head # NoNode, MoveIter(head) PROVE QueueInv'
    BY <1>1, <1>2, <2>2, IterKeeps
  <2> QED
    BY <1>5, <2>1, <2>2 DEF queueElementExists
<1>6. ASSUME queueBeginCyclicIter PROVE QueueInv'
  <2>1. head # NoNode /\ MoveIter(head)
    BY <1>6 DEF queueBeginCyclicIter
  <2> QED
    BY <1>1, <1>2, <2>1, IterKeeps
<1>7. ASSUME queueNextCyclicIter PROVE QueueInv'
  <2>1. cyclicIter # NoNode /\ MoveIter(Round(cyclicIter))
    BY <1>7 DEF queueNextCyclicIter
  <2>2. PICK k \in 1..Len(ns) : cyclicIter = ns[k]
    BY <1>1, <2>1 DEF Chain, Walks
  <2>3. \E i \in 1..Len(ns) : Round(ns[k]) = ns[i]
    BY <1>1, RoundStays
  <2> QED
    BY <1>1, <2>1, <2>2, <2>3, IterKeeps
<1> QED
    BY <1>3, <1>4, <1>5, <1>6, <1>7, DequeueKeeps, FreeKeeps DEF QueueNext

LEMMA ArrayStart == createArray => ArrayInv
<1> SUFFICES ASSUME createArray PROVE ArrayInv
    OBVIOUS
<1>1. BLOCK_SIZE \in Nat \ {0} /\ dim = BLOCK_SIZE /\ elements = <<>> /\ count = 0
    BY ContainersAssumption DEF createArray
<1>2. elements \in Seq(Element) /\ count = Len(elements) /\ count <= dim
    BY <1>1
<1>3. DOMAIN base = 0..(dim - 1)
    BY <1>1 DEF createArray
<1> QED
    BY <1>1, <1>2, <1>3 DEF ArrayInv

LEMMA ArrayStep == ArrayInv /\ ArrayNext => ArrayInv'
<1> SUFFICES ASSUME ArrayInv, ArrayNext PROVE ArrayInv'
    OBVIOUS
<1>1. /\ dim \in Nat \ {0} /\ elements \in Seq(Element) /\ count = Len(elements) /\ count \in Nat
      /\ count <= dim /\ DOMAIN base = 0..(dim - 1) /\ BLOCK_SIZE \in Nat \ {0}
    BY ContainersAssumption DEF ArrayInv
<1>2. \A i \in 0..(count - 1) : base[i] = elements[i + 1] /\ i + 1 \in 1..Len(elements)
    BY <1>1 DEF ArrayInv
<1>3. ASSUME NEW e \in Element, arrayAdd(e) PROVE ArrayInv'
  <2>1. CASE UNCHANGED <<base, dim, count, elements>>
    BY <2>1 DEF ArrayInv
  <2>2. CASE ~ UNCHANGED <<base, dim, count, elements>>
    <3> PICK b : b = IF count = dim
                     THEN [i \in 0..(dim + BLOCK_SIZE - 1) |-> IF i < dim THEN base[i] ELSE NoNode]
                     ELSE base
      OBVIOUS
    <3>1. base' = [b EXCEPT ![count] = e]
      BY <1>3, <2>2 DEF arrayAdd
    <3>2. dim' = IF count = dim THEN dim + BLOCK_SIZE ELSE dim
      BY <1>3, <2>2 DEF arrayAdd
    <3>3. count' = count + 1 /\ elements' = Append(elements, e)
      BY <1>3, <2>2 DEF arrayAdd
    <3>4. dim' \in Nat \ {0} /\ count < dim' /\ dim <= dim'
      BY <1>1, <3>2
    <3>5. DOMAIN b = 0..(dim' - 1)
      BY <1>1, <3>2
    <3>6. \A i \in 0..(count - 1) : i \in 0..(dim' - 1) /\ i # count /\ b[i] = base[i]
      BY <1>1, <3>2, <3>4
    <3>7. count \in 0..(dim' - 1)
      BY <1>1, <3>4
    <3>8. DOMAIN base' = 0..(dim' - 1) /\ base'[count] = e /\ \A i \in 0..(count - 1) : base'[i] = base[i]
      BY <3>1, <3>5, <3>6, <3>7
    <3>9. /\ elements' \in Seq(Element) /\ Len(elements') = count + 1 /\ elements'[count + 1] = e
          /\ \A i \in 1..count : elements'[i] = elements[i]
      BY <1>1, <3>3
    <3>10. ASSUME NEW i \in 0..(count' - 1) PROVE base'[i] = elements'[i + 1]
      <4>1. CASE i = count
        BY <3>8, <3>9, <4>1
      <4>2. CASE i # count
        <5>1. i \in 0..(count - 1) /\ i + 1 \in 1..count
          BY <1>1, <3>3, <4>2
        <5> QED
          BY <1>2, <3>8, <3>9, <5>1
      <4> QED
        BY <4>1, <4>2
    <3>11. count' = Len(elements') /\ count' <= dim'
      BY <1>1, <3>3, <3>4, <3>9
    <3> QED
      BY <3>4, <3>8, <3>9, <3>10, <3>11 DEF ArrayInv
  <2> QED
    BY <2>1, <2>2
<1>4. ASSUME NEW i \in 0..(MaxElements - 1), NEW e \in Element, setElemByIndex(i, e) PROVE ArrayInv'
  <2>1. i \in 0..(count - 1) /\ i \in 0..(dim - 1) /\ i + 1 \in 1..Len(elements)
    BY <1>1, <1>4 DEF setElemByIndex
  <2>2. base' = [base EXCEPT ![i] = e] /\ elements' = [elements EXCEPT ![i + 1] = e] /\ count' = count /\ dim' = dim
    BY <1>4 DEF setElemByIndex
  <2>3. /\ elements' \in Seq(Element) /\ Len(elements') = Len(elements)
        /\ \A j \in 1..Len(elements) : elements'[j] = IF j = i + 1 THEN e ELSE elements[j]
    BY <1>1, <2>1, <2>2
  <2>4. DOMAIN base' = DOMAIN base /\ \A j \in 0..(dim - 1) : base'[j] = IF j = i THEN e ELSE base[j]
    BY <1>1, <2>1, <2>2
  <2>5. ASSUME NEW j \in 0..(count - 1) PROVE base'[j] = elements'[j + 1]
    <3>1. j \in 0..(dim - 1) /\ j + 1 \in 1..Len(elements) /\ (j + 1 = i + 1 <=> j = i)
      BY <1>1, <2>1
    <3> QED
      BY <1>2, <2>3, <2>4, <3>1
  <2> QED
    BY <1>1, <2>2, <2>3, <2>4, <2>5 DEF ArrayInv
<1>5. ASSUME arrayResetSize PROVE ArrayInv'
  <2>1. elements' \in Seq(Element) /\ count' = Len(elements') /\ count' = 0 /\ count' <= dim /\ base' = base /\ dim' = dim
    BY <1>1, <1>5 DEF arrayResetSize
  <2>2. \A i \in 0..(0 - 1) : FALSE
    OBVIOUS
  <2> QED
    BY <1>1, <2>1, <2>2 DEF ArrayInv
<1>6. ASSUME arrayBeginIter \/ arrayGetNext PROVE ArrayInv'
    BY <1>6 DEF arrayBeginIter, arrayGetNext, ArrayInv
<1> QED
    BY <1>3, <1>4, <1>5, <1>6 DEF ArrayNext

\* For any number of nodes, elements and size of block, the kernel's queue and
\* array are the sequences their callers take them for: through any sequence of
\* calls no node or element is lost, doubled or used after it was freed
\* (ContainersAgree; queue.c and array.c).
THEOREM ContainersAreSequences == ContainersSpec => []ContainersAgree
<1>1. createQueue /\ createArray => QueueInv /\ ArrayInv
    BY QueueStart, ArrayStart
<1>2. QueueInv /\ UNCHANGED queueVars => QueueInv'
  <2> SUFFICES ASSUME NEW ns, Chain(ns), UNCHANGED queueVars PROVE QueueInv'
    BY DEF QueueInv
  <2>1. Pointers' /\ Linked(ns)' /\ Once(ns)' /\ Owned(ns)'
    BY DEF queueVars, Chain, Pointers, Linked, Once, Owned
  <2>2. Holds(ns)' /\ Walks(ns)'
    BY DEF queueVars, Chain, Holds, Walks
  <2>3. Chain(ns)'
    BY <2>1, <2>2 DEF Chain
  <2> QED
    BY <2>3 DEF QueueInv
<1>3. ArrayInv /\ UNCHANGED arrayVars => ArrayInv'
    BY DEF arrayVars, ArrayInv
<1>4. QueueInv /\ ArrayInv /\ [ContainersNext]_<<queueVars, arrayVars>> => (QueueInv /\ ArrayInv)'
    BY <1>2, <1>3, QueueStep, ArrayStep DEF ContainersNext
<1>5. QueueInv /\ ArrayInv => ContainersAgree
  <2>1. ArrayInv => ArrayIsSequence
    BY DEF ArrayInv, ArrayIsSequence, getElemByIndex
  <2> QED
    BY <2>1, ChainIsSequence DEF ContainersAgree
<1> QED
    BY <1>1, <1>4, <1>5, PTL DEF ContainersSpec

-----------------------------------------------------------------------------
(* The shell's lines.                                                       *)

Token == Word \cup {"", "|"}
Parsed == [name : Token, args : Seq(Token)]

\* One more command's strings, and one more command's words.
ArgsWith(n, c) == n + Len(c.args)
LEMMA ArgsWithType == ASSUME NEW n \in Nat, NEW c \in Parsed PROVE ArgsWith(n, c) \in Nat
<1>1. c.args \in Seq(Token)
    BY DEF Parsed
<1> QED
    BY <1>1 DEF ArgsWith

LEMMA WordsOfType ==
    ASSUME NEW q \in Seq(Token), NEW c \in Parsed
    PROVE  WordsOf(q, c) \in Seq(Token)
<1>1. c.name \in Token /\ c.args \in Seq(Token)
    BY DEF Parsed
<1>2. <<"|">> \in Seq(Token) /\ <<c.name>> \in Seq(Token) /\ <<>> \in Seq(Token)
  <2>1. \A x \in Token : <<x>> \in Seq(Token)
    OBVIOUS
  <2>2. "|" \in Token
    BY DEF Token
  <2> QED
    BY <1>1, <2>1, <2>2
<1> PICK a : a = IF q = <<>> THEN <<>> ELSE <<"|">>
    OBVIOUS
<1>3. a \in Seq(Token)
    BY <1>2
<1>4. q \o a \in Seq(Token)
    BY <1>3, JoinedSeq
<1>5. (q \o a) \o <<c.name>> \in Seq(Token)
    BY <1>2, <1>4, JoinedSeq
<1>6. ((q \o a) \o <<c.name>>) \o c.args \in Seq(Token)
    BY <1>1, <1>5, JoinedSeq
<1> QED
    BY <1>6 DEF WordsOf

\* The recursions over the commands have solutions, and one more command is one more step.
LEMMA ArgsOfWalk ==
    ASSUME NEW cs \in Seq(Parsed)
    PROVE  \E f : /\ ArgsOf(cs) = f[Len(cs)] /\ f[0] = 0
                 /\ \A i \in 1..Len(cs) : f[i] = ArgsWith(f[i - 1], cs[i])
<1> PICK L : L = Len(cs)
    OBVIOUS
<1>1. L \in Nat /\ \A i \in 1..L : cs[i] \in Parsed
    OBVIOUS
<1> DEFINE F == [i \in 1..L |-> [s \in Nat |-> ArgsWith(s, cs[i])]]
           Is(f) == f = [i \in 0..L |-> IF i = 0 THEN 0 ELSE ArgsWith(f[i - 1], cs[i])]
           R == CHOOSE f : Is(f)
<1>2. \A s \in Nat : \A c \in Parsed : ArgsWith(s, c) \in Nat
    BY ArgsWithType
<1>3. F \in Steps(L, Nat)
    BY <1>1, <1>2 DEF Steps
<1>4. 0 \in Nat
    OBVIOUS
<1>5. PICK g \in [0..L -> Nat] : Iterates(g, L, 0, F)
  <2> HIDE DEF F
  <2> QED
    BY <1>1, <1>3, <1>4, Recursion
<1>6. ASSUME NEW i \in 1..L PROVE g[i] = ArgsWith(g[i - 1], cs[i])
  <2>0. i - 1 \in 0..L
    BY <1>1
  <2>1. i - 1 \in 0..L /\ g[i - 1] \in Nat
    <3> HIDE DEF F
    <3> QED
      BY <1>5, <2>0
  <2> QED
    BY <1>5, <2>1 DEF Iterates
<1>7. g[0] = 0
    BY <1>5 DEF Iterates
<1>8. Is(g)
  <2>1. ASSUME NEW i \in 0..L PROVE g[i] = IF i = 0 THEN 0 ELSE ArgsWith(g[i - 1], cs[i])
    <3>1. CASE i = 0
      BY <1>7, <3>1
    <3>2. CASE i # 0
      <4>1. i \in 1..L
        BY <1>1, <3>2
      <4> QED
        BY <1>6, <3>2, <4>1
    <3> QED
      BY <3>1, <3>2
  <2>2. g = [i \in 0..L |-> g[i]]
    BY <1>5
  <2>3. [i \in 0..L |-> g[i]] = [i \in 0..L |-> IF i = 0 THEN 0 ELSE ArgsWith(g[i - 1], cs[i])]
    BY <2>1
  <2> QED
    BY <2>2, <2>3
<1>9. Is(R)
  <2> HIDE DEF Is
  <2> QED
    BY <1>8
<1>10. ArgsOf(cs) = R[L]
    BY DEF ArgsOf, ArgsWith
<1> HIDE DEF R
<1>11. R[0] = 0
    BY <1>1, <1>9
<1>12. ASSUME NEW i \in 1..L PROVE R[i] = ArgsWith(R[i - 1], cs[i])
  <2>1. i \in 0..L /\ i # 0
    BY <1>1
  <2> QED
    BY <1>9, <2>1
<1> QED
    BY <1>10, <1>11, <1>12

LEMMA ArgsOfFacts ==
    ASSUME NEW cs \in Seq(Parsed)
    PROVE  /\ ArgsOf(cs) \in Nat
           /\ Len(cs) = 0 => ArgsOf(cs) = 0
           /\ \A c \in Parsed : ArgsOf(Append(cs, c)) = ArgsWith(ArgsOf(cs), c)
<1> PICK L : L = Len(cs)
    OBVIOUS
<1>1. L \in Nat /\ \A i \in 1..L : cs[i] \in Parsed
    OBVIOUS
<1>2. PICK f : ArgsOf(cs) = f[L] /\ f[0] = 0 /\ \A i \in 1..L : f[i] = ArgsWith(f[i - 1], cs[i])
    BY ArgsOfWalk
<1>3. f[L] \in Nat
  <2> DEFINE Typed == {i \in Nat : i <= L => f[i] \in Nat}
  <2>0. 0 \in Nat
    OBVIOUS
  <2>1. 0 \in Typed
    BY <1>2, <2>0
  <2>2. ASSUME NEW i \in Nat, i \in Typed PROVE i + 1 \in Typed
    <3>1. CASE i + 1 <= L
      <4>1. i + 1 \in 1..L /\ i <= L /\ i + 1 - 1 = i
        BY <1>1, <3>1
      <4>2. f[i + 1] = ArgsWith(f[i], cs[i + 1]) /\ f[i] \in Nat /\ cs[i + 1] \in Parsed
        BY <1>1, <1>2, <2>2, <4>1
      <4>3. f[i + 1] \in Nat
        BY <4>2, ArgsWithType
      <4> QED
        BY <4>3
    <3> QED
      BY <3>1
  <2>3. L \in Typed
    <3> HIDE DEF Typed
    <3> QED
      BY <1>1, <2>1, <2>2, SetInduction
  <2> QED
    BY <1>1, <2>3
<1>4. ASSUME NEW c \in Parsed PROVE ArgsOf(Append(cs, c)) = ArgsWith(ArgsOf(cs), c)
  <2> PICK ds : ds = Append(cs, c)
    OBVIOUS
  <2>1. ds \in Seq(Parsed) /\ Len(ds) = L + 1 /\ ds[L + 1] = c /\ \A i \in 1..L : ds[i] = cs[i]
    BY <1>1
  <2>2. PICK g : ArgsOf(ds) = g[L + 1] /\ g[0] = 0 /\ \A i \in 1..(L + 1) : g[i] = ArgsWith(g[i - 1], ds[i])
    <3>1. \E g : ArgsOf(ds) = g[Len(ds)] /\ g[0] = 0 /\ \A i \in 1..Len(ds) : g[i] = ArgsWith(g[i - 1], ds[i])
      BY <2>1, ArgsOfWalk
    <3> QED
      BY <2>1, <3>1
  <2> DEFINE Same == {i \in Nat : i <= L => f[i] = g[i]}
  <2>3. 0 \in Same
    BY <1>2, <2>2
  <2>4. ASSUME NEW i \in Nat, i \in Same PROVE i + 1 \in Same
    <3>1. CASE i + 1 <= L
      <4>1. i + 1 \in 1..L /\ i + 1 \in 1..(L + 1) /\ i <= L /\ i + 1 - 1 = i
        BY <1>1, <3>1
      <4>2. f[i + 1] = ArgsWith(f[i], cs[i + 1]) /\ g[i + 1] = ArgsWith(g[i], ds[i + 1])
        BY <1>2, <2>2, <4>1
      <4> QED
        BY <2>1, <2>4, <4>1, <4>2
    <3> QED
      BY <3>1
  <2>5. L \in Same
    <3> HIDE DEF Same
    <3> QED
      BY <1>1, <2>3, <2>4, SetInduction
  <2>6. L + 1 \in 1..(L + 1) /\ L + 1 - 1 = L
    BY <1>1
  <2>7. g[L + 1] = ArgsWith(g[L], c)
    BY <2>1, <2>2, <2>6
  <2> QED
    BY <1>1, <1>2, <2>2, <2>5, <2>7
<1> QED
    BY <1>2, <1>3, <1>4

\* The same for the words.
LEMMA WordsWalk ==
    ASSUME NEW cs \in Seq(Parsed)
    PROVE  \E f : /\ Words(cs) = f[Len(cs)] /\ f[0] = <<>>
                 /\ \A i \in 1..Len(cs) : f[i] = WordsOf(f[i - 1], cs[i])
<1> PICK L : L = Len(cs)
    OBVIOUS
<1>1. L \in Nat /\ \A i \in 1..L : cs[i] \in Parsed
    OBVIOUS
<1> DEFINE F == [i \in 1..L |-> [s \in Seq(Token) |-> WordsOf(s, cs[i])]]
           Is(f) == f = [i \in 0..L |-> IF i = 0 THEN <<>> ELSE WordsOf(f[i - 1], cs[i])]
           R == CHOOSE f : Is(f)
<1>2. \A s \in Seq(Token) : \A c \in Parsed : WordsOf(s, c) \in Seq(Token)
    BY WordsOfType
<1>3. F \in Steps(L, Seq(Token))
    BY <1>1, <1>2 DEF Steps
<1>4. <<>> \in Seq(Token)
    OBVIOUS
<1>5. PICK g \in [0..L -> Seq(Token)] : Iterates(g, L, <<>>, F)
  <2> HIDE DEF F
  <2> QED
    BY <1>1, <1>3, <1>4, Recursion
<1>6. ASSUME NEW i \in 1..L PROVE g[i] = WordsOf(g[i - 1], cs[i])
  <2>0. i - 1 \in 0..L
    BY <1>1
  <2>1. i - 1 \in 0..L /\ g[i - 1] \in Seq(Token)
    <3> HIDE DEF F
    <3> QED
      BY <1>5, <2>0
  <2> QED
    BY <1>5, <2>1 DEF Iterates
<1>7. g[0] = <<>>
    BY <1>5 DEF Iterates
<1>8. Is(g)
  <2>1. ASSUME NEW i \in 0..L PROVE g[i] = IF i = 0 THEN <<>> ELSE WordsOf(g[i - 1], cs[i])
    <3>1. CASE i = 0
      BY <1>7, <3>1
    <3>2. CASE i # 0
      <4>1. i \in 1..L
        BY <1>1, <3>2
      <4> QED
        BY <1>6, <3>2, <4>1
    <3> QED
      BY <3>1, <3>2
  <2>2. g = [i \in 0..L |-> g[i]]
    BY <1>5
  <2>3. [i \in 0..L |-> g[i]] = [i \in 0..L |-> IF i = 0 THEN <<>> ELSE WordsOf(g[i - 1], cs[i])]
    BY <2>1
  <2> QED
    BY <2>2, <2>3
<1>9. Is(R)
  <2> HIDE DEF Is
  <2> QED
    BY <1>8
<1>10. Words(cs) = R[L]
    BY DEF Words
<1> HIDE DEF R
<1>11. R[0] = <<>>
    BY <1>1, <1>9
<1>12. ASSUME NEW i \in 1..L PROVE R[i] = WordsOf(R[i - 1], cs[i])
  <2>1. i \in 0..L /\ i # 0
    BY <1>1
  <2> QED
    BY <1>9, <2>1
<1> QED
    BY <1>10, <1>11, <1>12

LEMMA WordsFacts ==
    ASSUME NEW cs \in Seq(Parsed)
    PROVE  /\ Words(cs) \in Seq(Token)
           /\ Len(cs) = 0 => Words(cs) = <<>>
           /\ \A c \in Parsed : Words(Append(cs, c)) = WordsOf(Words(cs), c)
<1> PICK L : L = Len(cs)
    OBVIOUS
<1>1. L \in Nat /\ \A i \in 1..L : cs[i] \in Parsed
    OBVIOUS
<1>2. PICK f : Words(cs) = f[L] /\ f[0] = <<>> /\ \A i \in 1..L : f[i] = WordsOf(f[i - 1], cs[i])
    BY WordsWalk
<1>3. f[L] \in Seq(Token)
  <2> DEFINE Typed == {i \in Nat : i <= L => f[i] \in Seq(Token)}
  <2>0. <<>> \in Seq(Token)
    OBVIOUS
  <2>1. 0 \in Typed
    BY <1>2, <2>0
  <2>2. ASSUME NEW i \in Nat, i \in Typed PROVE i + 1 \in Typed
    <3>1. CASE i + 1 <= L
      <4>1. i + 1 \in 1..L /\ i <= L /\ i + 1 - 1 = i
        BY <1>1, <3>1
      <4>2. f[i + 1] = WordsOf(f[i], cs[i + 1]) /\ f[i] \in Seq(Token) /\ cs[i + 1] \in Parsed
        BY <1>1, <1>2, <2>2, <4>1
      <4>3. f[i + 1] \in Seq(Token)
        BY <4>2, WordsOfType
      <4> QED
        BY <4>3
    <3> QED
      BY <3>1
  <2>3. L \in Typed
    <3> HIDE DEF Typed
    <3> QED
      BY <1>1, <2>1, <2>2, SetInduction
  <2> QED
    BY <1>1, <2>3
<1>4. ASSUME NEW c \in Parsed PROVE Words(Append(cs, c)) = WordsOf(Words(cs), c)
  <2> PICK ds : ds = Append(cs, c)
    OBVIOUS
  <2>1. ds \in Seq(Parsed) /\ Len(ds) = L + 1 /\ ds[L + 1] = c /\ \A i \in 1..L : ds[i] = cs[i]
    BY <1>1
  <2>2. PICK g : Words(ds) = g[L + 1] /\ g[0] = <<>> /\ \A i \in 1..(L + 1) : g[i] = WordsOf(g[i - 1], ds[i])
    <3>1. \E g : Words(ds) = g[Len(ds)] /\ g[0] = <<>> /\ \A i \in 1..Len(ds) : g[i] = WordsOf(g[i - 1], ds[i])
      BY <2>1, WordsWalk
    <3> QED
      BY <2>1, <3>1
  <2> DEFINE Same == {i \in Nat : i <= L => f[i] = g[i]}
  <2>3. 0 \in Same
    BY <1>2, <2>2
  <2>4. ASSUME NEW i \in Nat, i \in Same PROVE i + 1 \in Same
    <3>1. CASE i + 1 <= L
      <4>1. i + 1 \in 1..L /\ i + 1 \in 1..(L + 1) /\ i <= L /\ i + 1 - 1 = i
        BY <1>1, <3>1
      <4>2. f[i + 1] = WordsOf(f[i], cs[i + 1]) /\ g[i + 1] = WordsOf(g[i], ds[i + 1])
        BY <1>2, <2>2, <4>1
      <4> QED
        BY <2>1, <2>4, <4>1, <4>2
    <3> QED
      BY <3>1
  <2>5. L \in Same
    <3> HIDE DEF Same
    <3> QED
      BY <1>1, <2>3, <2>4, SetInduction
  <2>6. L + 1 \in 1..(L + 1) /\ L + 1 - 1 = L
    BY <1>1
  <2>7. g[L + 1] = WordsOf(g[L], c)
    BY <2>1, <2>2, <2>6
  <2> QED
    BY <1>1, <1>2, <2>2, <2>5, <2>7
<1> QED
    BY <1>2, <1>3, <1>4

\* A part of a sequence, and equal sequences.
LEMMA PartFacts ==
    ASSUME NEW S, NEW q \in Seq(S), NEW a \in Nat \ {0}, NEW b \in Nat, b <= Len(q)
    PROVE  /\ SubSeq(q, a, b) \in Seq(S)
           /\ Len(SubSeq(q, a, b)) = IF a <= b THEN b - a + 1 ELSE 0
           /\ \A i \in Nat : 1 <= i /\ i <= b - a + 1 => SubSeq(q, a, b)[i] = q[a + i - 1]
<1> PICK n : n = IF a <= b THEN b - a + 1 ELSE 0
    OBVIOUS
<1>1. n \in Nat /\ q \in [1..Len(q) -> S] /\ Len(q) \in Nat
    OBVIOUS
<1> PICK r : r = SubSeq(q, a, b)
    OBVIOUS
<1>2. r = [i \in 1..n |-> q[a + i - 1]]
    BY <1>1
<1>3. \A i \in 1..n : a + i - 1 \in 1..Len(q)
    BY <1>1
<1>4. r \in [1..n -> S]
    BY <1>1, <1>2, <1>3
<1>5. \A i \in Nat : 1 <= i /\ i <= b - a + 1 => i \in 1..n
    OBVIOUS
<1>6. r \in Seq(S) /\ Len(r) = n
  <2>1. ASSUME NEW m \in Nat, NEW p \in [1..m -> S] PROVE p \in Seq(S) /\ Len(p) = m
    OBVIOUS
  <2> QED
    BY <1>1, <1>4, <2>1
<1> QED
    BY <1>2, <1>5, <1>6

LEMMA SameSeq ==
    ASSUME NEW S, NEW q \in Seq(S), NEW r \in Seq(S), Len(q) = Len(r), \A i \in 1..Len(q) : q[i] = r[i]
    PROVE  q = r
<1>1. q = [i \in 1..Len(q) |-> q[i]] /\ r = [i \in 1..Len(r) |-> r[i]]
    BY SeqIsFcn
<1>2. [i \in 1..Len(q) |-> q[i]] = [i \in 1..Len(q) |-> r[i]]
    OBVIOUS
<1> QED
    BY <1>1, <1>2

\* The tokens after the "|" at the start.
LEMMA SkipFacts ==
    ASSUME NEW t \in Seq(Token)
    PROVE  /\ SkipPipes(t) \in Seq(Token)
           /\ Len(t) = 0 \/ t[1] # "|" => SkipPipes(t) = t
<1> DEFINE I == {i \in DOMAIN t : \A j \in 1..i : t[j] = "|"}
<1>1. Len(t) \in Nat /\ DOMAIN t = 1..Len(t)
    OBVIOUS
<1>2. I \subseteq 1..Len(t)
    BY <1>1
<1>3. IsFiniteSet(1..Len(t)) /\ Cardinality(1..Len(t)) = Len(t)
    BY <1>1, FS_Interval, SMTT(40)
<1> PICK k : k = Cardinality(I)
    OBVIOUS
<1>4. k \in Nat /\ k <= Len(t)
  <2> HIDE DEF I
  <2>1. IsFiniteSet(I) /\ Cardinality(I) <= Cardinality(1..Len(t))
    BY <1>2, <1>3, FS_Subset
  <2>2. Cardinality(I) \in Nat
    BY <2>1, FS_CardinalityType
  <2> QED
    BY <1>3, <2>1, <2>2
<1>5. SkipPipes(t) = SubSeq(t, k + 1, Len(t))
    BY DEF SkipPipes
<1>6. SkipPipes(t) \in Seq(Token)
  <2> PICK a : a = k + 1
    OBVIOUS
  <2> PICK b : b = Len(t)
    OBVIOUS
  <2>1. a \in Nat \ {0} /\ b \in Nat /\ b <= Len(t)
    BY <1>1, <1>4
  <2>2. SubSeq(t, a, b) \in Seq(Token)
    BY <2>1, PartFacts
  <2> QED
    BY <1>5, <2>2
<1>7. ASSUME Len(t) = 0 \/ t[1] # "|" PROVE SkipPipes(t) = t
  <2>1. \A i \in 1..Len(t) : 1 \in 1..i /\ Len(t) # 0
    BY <1>1
  <2>2. I = {}
    BY <1>1, <1>7, <2>1
  <2>3. k = 0
    BY <2>2, FS_EmptySet
  <2>4. SubSeq(t, 1, Len(t)) = t
    <3>1. /\ SubSeq(t, 1, Len(t)) \in Seq(Token)
          /\ Len(SubSeq(t, 1, Len(t))) = IF 1 <= Len(t) THEN Len(t) - 1 + 1 ELSE 0
          /\ \A i \in Nat : 1 <= i /\ i <= Len(t) - 1 + 1 => SubSeq(t, 1, Len(t))[i] = t[1 + i - 1]
      <4>1. 1 \in Nat \ {0} /\ Len(t) <= Len(t)
        BY <1>1
      <4> QED
        BY <1>1, <4>1, PartFacts
    <3> PICK r : r = SubSeq(t, 1, Len(t))
      OBVIOUS
    <3>2. Len(r) = Len(t)
      BY <1>1, <3>1
    <3>3. \A i \in 1..Len(t) : i \in Nat /\ 1 <= i /\ i <= Len(t) - 1 + 1 /\ 1 + i - 1 = i
      BY <1>1
    <3>4. \A i \in 1..Len(r) : r[i] = t[i]
      BY <3>1, <3>2, <3>3
    <3>5. r \in Seq(Token)
      BY <3>1
    <3> QED
      BY <3>2, <3>4, <3>5, SameSeq
  <2>5. k + 1 = 1
    BY <2>3
  <2> QED
    BY <1>5, <2>4, <2>5
<1> QED
    BY <1>6, <1>7

\* The arguments end at a "|", at the end of the line, or at the end of argv.
Stops(t, n) == n = Len(t) \/ t[n + 1] = "|" \/ n = MAX_ARGUMENT_COUNT - 2
LEMMA ArgCountFacts ==
    ASSUME NEW t \in Seq(Token)
    PROVE  /\ ArgCount(t) \in 0..Len(t) /\ \A i \in 1..ArgCount(t) : t[i] # "|"
           /\ ArgCount(t) <= MAX_ARGUMENT_COUNT - 2 /\ Stops(t, ArgCount(t))
<1>1. Len(t) \in Nat /\ MAX_ARGUMENT_COUNT \in Nat /\ MAX_ARGUMENT_COUNT > 2
    BY ShellAssumption
<1> DEFINE S == {n \in Nat : n <= Len(t) /\ Stops(t, n)}
           P(n) == (\A i \in 1..n : t[i] # "|") /\ n < MAX_ARGUMENT_COUNT - 1 /\ Stops(t, n)
<1>2. Len(t) \in S
    BY <1>1 DEF Stops
<1>3. PICK m \in S : \A y \in S : m <= y
  <2>1. S \in SUBSET Nat /\ S # {}
    BY <1>2
  <2> HIDE DEF S
  <2> QED
    BY <2>1, Least
<1>4. m \in 0..Len(t) /\ Stops(t, m)
    BY <1>1, <1>3
<1>5. \A i \in 1..m : t[i] # "|"
  <2> SUFFICES ASSUME NEW i \in 1..m, t[i] = "|" PROVE FALSE
    OBVIOUS
  <2>1. i - 1 \in Nat /\ i - 1 <= Len(t) /\ i - 1 + 1 = i /\ i - 1 < m
    BY <1>1, <1>4
  <2>2. i - 1 \in S
    BY <2>1 DEF Stops
  <2> QED
    BY <1>3, <1>4, <2>1, <2>2
<1>6. m < MAX_ARGUMENT_COUNT - 1
  <2> SUFFICES ASSUME ~(m < MAX_ARGUMENT_COUNT - 1) PROVE FALSE
    OBVIOUS
  <2>1. MAX_ARGUMENT_COUNT - 2 \in Nat /\ MAX_ARGUMENT_COUNT - 2 < m
    BY <1>1, <1>4
  <2>2. MAX_ARGUMENT_COUNT - 2 <= Len(t)
    BY <1>1, <1>4, <2>1
  <2>3. MAX_ARGUMENT_COUNT - 2 \in S
    BY <2>1, <2>2 DEF Stops
  <2> QED
    BY <1>1, <1>3, <1>4, <2>1, <2>3
<1>7. P(m)
    BY <1>4, <1>5, <1>6
<1>8. ArgCount(t) = CHOOSE n \in 0..Len(t) : P(n)
    BY DEF ArgCount, Stops
<1> HIDE DEF P
<1>9. ArgCount(t) \in 0..Len(t) /\ P(ArgCount(t))
    BY <1>4, <1>7, <1>8
<1>10. ArgCount(t) <= MAX_ARGUMENT_COUNT - 2
    BY <1>1, <1>9 DEF P
<1> QED
    BY <1>9, <1>10 DEF P

At1 == {"prompt", "returned", "parse", "grow", "run", "free"}
ShellTypes ==
    /\ at \in At1 /\ exhausted \in BOOLEAN
    /\ buffer \in Seq(Token) /\ Len(buffer) # 0 /\ toks \in Seq(Token)
    /\ parsedCommands \in Seq(Parsed)
    /\ parsed_commands_dim \in Whole(GROW) /\ parsed_commands_dim # 0
    /\ blocks \in Nat /\ leaked \in Nat

\* The commands fit in the array, and are counted with what was lost in blocks.
Stored ==
    /\ Len(parsedCommands) <= parsed_commands_dim
    /\ at = "parse" => Len(parsedCommands) < parsed_commands_dim
    /\ at \in {"prompt", "returned"} => Len(parsedCommands) = 0
    /\ \A i \in 1..Len(parsedCommands) : Len(parsedCommands[i].args) <= MAX_ARGUMENT_COUNT - 2
    /\ blocks = ArgsOf(parsedCommands) + leaked

\* What is found at the start of the tokens left.
Found == SkipPipes(toks)
LEMMA ParseFacts ==
    ASSUME ShellTypes, NEW n, n = ArgCount(Tail(Found)), Named(Found), NEW c,
           c = [name |-> Found[1], args |-> SubSeq(Found, 2, n + 1)]
    PROVE  /\ Found \in Seq(Token) /\ n \in Nat /\ n + 1 <= Len(Found) /\ n <= MAX_ARGUMENT_COUNT - 2
           /\ c \in Parsed /\ Len(c.args) = n
           /\ \A i \in 1..n : c.args[i] = Found[i + 1] /\ Found[i + 1] # "|"
           /\ n + 1 = Len(Found) \/ Found[n + 2] = "|" \/ n = MAX_ARGUMENT_COUNT - 2
           /\ SubSeq(Found, n + 3, Len(Found)) \in Seq(Token)
<1> PICK t : t = Found
    OBVIOUS
<1>1. t \in Seq(Token) /\ Len(t) \in Nat
    BY SkipFacts DEF ShellTypes, Found
<1>2. Len(t) # 0
    BY <1>1 DEF Named
<1>3. Tail(t) \in Seq(Token) /\ Len(Tail(t)) = Len(t) - 1 /\ \A i \in 1..(Len(t) - 1) : Tail(t)[i] = t[i + 1]
    BY <1>1, <1>2
<1>4. n \in 0..(Len(t) - 1) /\ (\A i \in 1..n : Tail(t)[i] # "|") /\ n <= MAX_ARGUMENT_COUNT - 2 /\ Stops(Tail(t), n)
    BY <1>3, ArgCountFacts
<1>5. n \in Nat /\ n + 1 <= Len(t)
    BY <1>1, <1>4
<1>6. \A i \in 1..n : i \in 1..(Len(t) - 1) /\ t[i + 1] # "|"
    BY <1>1, <1>3, <1>4
<1> PICK r : r = SubSeq(t, 2, n + 1)
    OBVIOUS
<1>7. /\ r \in Seq(Token) /\ Len(r) = IF 2 <= n + 1 THEN n + 1 - 2 + 1 ELSE 0
      /\ \A i \in Nat : 1 <= i /\ i <= n + 1 - 2 + 1 => r[i] = t[2 + i - 1]
  <2>1. 2 \in Nat \ {0} /\ n + 1 \in Nat
    BY <1>5
  <2> QED
    BY SMTT(40), <1>1, <1>5, <2>1, PartFacts
<1>8. Len(r) = n
    BY <1>5, <1>7
<1>9. \A i \in 1..n : i \in Nat /\ 1 <= i /\ i <= n + 1 - 2 + 1 /\ 2 + i - 1 = i + 1
    BY <1>5
<1>10. \A i \in 1..n : r[i] = t[i + 1]
    BY <1>7, <1>9
<1>11. t[1] \in Token
    BY <1>1, <1>2
<1>12. c \in Parsed /\ c.args = r
    BY <1>7, <1>11 DEF Parsed
<1>13. n + 1 = Len(t) \/ t[n + 2] = "|" \/ n = MAX_ARGUMENT_COUNT - 2
  <2>1. CASE n = Len(t) - 1
    BY <1>1, <1>5, <2>1
  <2>2. CASE n # Len(t) - 1
    <3>1. n + 1 \in 1..(Len(t) - 1) /\ n + 1 + 1 = n + 2
      BY <1>1, <1>5, <2>2
    <3>2. Tail(t)[n + 1] = t[n + 2]
      BY <1>3, <3>1
    <3> QED
      BY <1>3, <1>4, <2>2, <3>2 DEF Stops
  <2> QED
    BY <2>1, <2>2
<1>14. SubSeq(t, n + 3, Len(t)) \in Seq(Token)
  <2>1. n + 3 \in Nat \ {0} /\ Len(t) <= Len(t)
    BY <1>1, <1>5
  <2> QED
    BY <1>1, <2>1, PartFacts
<1> QED
    BY <1>1, <1>4, <1>5, <1>6, <1>8, <1>10, <1>12, <1>13, <1>14

\* A full array is a multiple of GROW long.
LEMMA WholeRemainder ==
    ASSUME NEW c \in Nat \ {0}, NEW a \in Whole(c) PROVE a % c = 0
<1>1. PICK m \in Nat : a = m * c
    BY DEF Whole
<1>2. (m * c) \div c = m /\ m * c \in Nat
    BY DivMultiple
<1>3. a \in Nat /\ a \div c = m
    BY <1>1, <1>2
<1> PICK n \in Nat : n = a
    BY <1>3
<1>4. a % c \in 0..(c - 1) /\ a = c * (a \div c) + (a % c)
  <2>1. n % c \in 0..(c - 1) /\ n = c * (n \div c) + (n % c)
    BY DivFacts
  <2> QED
    BY <2>1
<1>5. c * m = m * c
    OBVIOUS
<1>6. a = a + (a % c)
    BY <1>1, <1>3, <1>4, <1>5
<1> QED
    BY <1>3, <1>4, <1>6

\* What dispatch takes the commands for, which of them lose a "&", and what is left.
KindOf(cs) ==
    LET some == \E i \in DOMAIN cs : cs[i].name \in BuiltIn IN
    CASE cs = <<>> -> "nothing"
      [] Len(cs) = 1 -> IF some THEN "builtin" ELSE "command"
      [] Len(cs) = 2 -> IF some THEN "refused" ELSE "pipeline"
      [] OTHER -> "refused"
MarksOf(cs) == IF KindOf(cs) \in {"command", "pipeline"} THEN {i \in DOMAIN cs : Background(cs[i])} ELSE {}
LeftOf(cs) == [i \in DOMAIN cs |-> IF i \in MarksOf(cs) THEN Stripped(cs[i]) ELSE cs[i]]

LEMMA DispatchIs ==
    dispatch => /\ at = "run" /\ at' = "free"
                /\ parsedCommands' = LeftOf(parsedCommands)
                /\ ran' = [kind |-> KindOf(parsedCommands), commands |-> LeftOf(parsedCommands),
                           background |-> MarksOf(parsedCommands) # {}]
                /\ leaked' = leaked + Cardinality(MarksOf(parsedCommands))
                /\ UNCHANGED <<buffer, toks, parsed_commands_dim, blocks, exhausted, typedLines>>
BY DEF dispatch, KindOf, MarksOf, LeftOf

LEMMA KindFacts ==
    ASSUME NEW cs \in Seq(Parsed)
    PROVE  /\ Len(cs) = 0 => KindOf(cs) = "nothing"
           /\ Len(cs) = 1 => KindOf(cs) \in {"builtin", "command"}
           /\ Len(cs) = 2 => KindOf(cs) \in {"refused", "pipeline"}
           /\ Len(cs) > 2 => KindOf(cs) = "refused"
<1>1. Len(cs) \in Nat /\ (cs = <<>> <=> Len(cs) = 0)
    OBVIOUS
<1> PICK b \in BOOLEAN : b = \E i \in DOMAIN cs : cs[i].name \in BuiltIn
    OBVIOUS
<1>2. KindOf(cs) = CASE cs = <<>> -> "nothing"
                     [] Len(cs) = 1 -> IF b THEN "builtin" ELSE "command"
                     [] Len(cs) = 2 -> IF b THEN "refused" ELSE "pipeline"
                     [] OTHER -> "refused"
    BY DEF KindOf
<1>3. CASE Len(cs) = 0
    BY <1>1, <1>2, <1>3
<1>4. CASE Len(cs) = 1
    BY <1>1, <1>2, <1>4
<1>5. CASE Len(cs) = 2
    BY <1>1, <1>2, <1>5
<1>6. CASE Len(cs) > 2
  <2>0. \A n \in Nat : n > 2 => n # 0 /\ n # 1 /\ n # 2
    OBVIOUS
  <2>1. cs # <<>> /\ Len(cs) # 0 /\ Len(cs) # 1 /\ Len(cs) # 2
    BY <1>1, <1>6, <2>0
  <2>2. KindOf(cs) = "refused"
    BY <1>2, <2>1
  <2> QED
    BY <1>1, <1>6, <2>1, <2>2
<1> QED
    BY <1>1, <1>3, <1>4, <1>5, <1>6

\* One string less in a command that loses its "&".
Taken(cs, i) == IF i \in MarksOf(cs) THEN 1 ELSE 0
LEMMA LeftFacts ==
    ASSUME NEW cs \in Seq(Parsed)
    PROVE  /\ LeftOf(cs) \in Seq(Parsed) /\ Len(LeftOf(cs)) = Len(cs)
           /\ \A i \in 1..Len(cs) : /\ Len(LeftOf(cs)[i].args) \in Nat /\ Len(cs[i].args) \in Nat
                                    /\ Len(LeftOf(cs)[i].args) = Len(cs[i].args) - Taken(cs, i)
           /\ MarksOf(cs) \subseteq 1..Len(cs)
           /\ MarksOf(cs) # {} => Len(cs) \in {1, 2}
<1>1. Len(cs) \in Nat /\ DOMAIN cs = 1..Len(cs) /\ \A i \in 1..Len(cs) : cs[i] \in Parsed
    OBVIOUS
<1>2. ASSUME NEW c \in Parsed
      PROVE  /\ Len(c.args) \in Nat /\ Stripped(c) \in Parsed /\ Len(Stripped(c).args) \in Nat
             /\ Background(c) => Len(Stripped(c).args) = Len(c.args) - 1
  <2>1. c.args \in Seq(Token) /\ c.name \in Token /\ Len(c.args) \in Nat
    BY DEF Parsed
  <2>2. CASE Background(c)
    <3> PICK a : a = Front(c.args)
      OBVIOUS
    <3>1. c.args # <<>> /\ Len(c.args) # 0
      BY <2>1, <2>2 DEF Background
    <3>2. a \in Seq(Token) /\ Len(a) = Len(c.args) - 1
      <4>1. a = SubSeq(c.args, 1, Len(c.args) - 1)
        BY DEF Front
      <4> PICK b : b = Len(c.args) - 1
        OBVIOUS
      <4>2. 1 \in Nat \ {0} /\ b \in Nat /\ b <= Len(c.args)
        BY <2>1, <3>1
      <4>3. a \in Seq(Token) /\ Len(a) = IF 1 <= b THEN b - 1 + 1 ELSE 0
        BY <2>1, <4>1, <4>2, PartFacts
      <4> QED
        BY <4>2, <4>3
    <3>3. Stripped(c) = [c EXCEPT !.args = a]
      BY <2>2 DEF Stripped
    <3>4. Stripped(c) \in Parsed /\ Stripped(c).args = a
      BY <3>2, <3>3 DEF Parsed
    <3> QED
      BY <2>1, <3>1, <3>2, <3>4
  <2>3. CASE ~Background(c)
    BY <2>1, <2>3 DEF Stripped
  <2> QED
    BY <2>2, <2>3
<1> PICK d : d = LeftOf(cs)
    OBVIOUS
<1>3. d = [i \in 1..Len(cs) |-> IF i \in MarksOf(cs) THEN Stripped(cs[i]) ELSE cs[i]]
    BY <1>1 DEF LeftOf
<1>4. \A i \in 1..Len(cs) : d[i] \in Parsed
    BY <1>1, <1>2, <1>3
<1>5. d \in Seq(Parsed) /\ Len(d) = Len(cs)
  <2>1. ASSUME NEW m \in Nat, NEW p \in [1..m -> Parsed] PROVE p \in Seq(Parsed) /\ Len(p) = m
    OBVIOUS
  <2>2. d \in [1..Len(cs) -> Parsed]
    BY <1>3, <1>4
  <2> QED
    BY <1>1, <2>1, <2>2
<1>6. \A i \in MarksOf(cs) : i \in 1..Len(cs) /\ Background(cs[i])
    BY <1>1 DEF MarksOf
<1>7. ASSUME NEW i \in 1..Len(cs)
      PROVE  /\ Len(d[i].args) \in Nat /\ Len(cs[i].args) \in Nat
             /\ Len(d[i].args) = Len(cs[i].args) - Taken(cs, i)
  <2>1. CASE i \in MarksOf(cs)
    <3>1. d[i] = Stripped(cs[i]) /\ Background(cs[i])
      BY <1>3, <1>6, <2>1
    <3> QED
      BY <1>1, <1>2, <2>1, <3>1 DEF Taken
  <2>2. CASE i \notin MarksOf(cs)
    <3>1. d[i] = cs[i]
      BY <1>3, <2>2
    <3> QED
      BY <1>1, <1>2, <2>2, <3>1 DEF Taken
  <2> QED
    BY <2>1, <2>2
<1>8. ASSUME MarksOf(cs) # {} PROVE Len(cs) \in {1, 2}
  <2>1. KindOf(cs) \in {"command", "pipeline"}
    BY <1>8 DEF MarksOf
  <2>2. ~(Len(cs) > 2) /\ Len(cs) # 0
    BY <2>1, KindFacts
  <2> QED
    BY <1>1, <2>2
<1> QED
    BY <1>5, <1>6, <1>7, <1>8

\* The strings of one and of two commands.
LEMMA ArgsOfFew ==
    ASSUME NEW cs \in Seq(Parsed)
    PROVE  /\ Len(cs) = 1 => ArgsOf(cs) = Len(cs[1].args)
           /\ Len(cs) = 2 => ArgsOf(cs) = Len(cs[1].args) + Len(cs[2].args)
<1> PICK e : e = <<>>
    OBVIOUS
<1>1. e \in Seq(Parsed) /\ Len(e) = 0
    OBVIOUS
<1>2. \A i \in 1..Len(cs) : cs[i] \in Parsed /\ Len(cs[i].args) \in Nat
  <2>1. \A i \in 1..Len(cs) : cs[i] \in Parsed
    OBVIOUS
  <2>2. \A c \in Parsed : Len(c.args) \in Nat
    <3> SUFFICES ASSUME NEW c \in Parsed PROVE Len(c.args) \in Nat
      OBVIOUS
    <3>1. c.args \in Seq(Token)
      BY DEF Parsed
    <3> QED
      BY <3>1
  <2> QED
    BY <2>1, <2>2
<1>3. ArgsOf(e) = 0 /\ \A c \in Parsed : ArgsOf(Append(e, c)) = ArgsWith(ArgsOf(e), c)
    BY <1>1, ArgsOfFacts
<1>4. \A c \in Parsed : Append(e, c) \in Seq(Parsed) /\ Len(Append(e, c)) = 1 /\ Append(e, c)[1] = c
    BY <1>1
<1>5. ASSUME Len(cs) = 1 PROVE ArgsOf(cs) = Len(cs[1].args)
  <2>1. cs[1] \in Parsed /\ Len(cs[1].args) \in Nat
    BY <1>2, <1>5
  <2>2. cs = Append(e, cs[1])
    BY <1>4, <1>5, <2>1, SameSeq
  <2> QED
    BY <1>3, <2>1, <2>2 DEF ArgsWith
<1>6. ASSUME Len(cs) = 2 PROVE ArgsOf(cs) = Len(cs[1].args) + Len(cs[2].args)
  <2>1. cs[1] \in Parsed /\ Len(cs[1].args) \in Nat /\ cs[2] \in Parsed /\ Len(cs[2].args) \in Nat
    BY <1>2, <1>6
  <2> PICK d : d = Append(e, cs[1])
    OBVIOUS
  <2>2. d \in Seq(Parsed) /\ Len(d) = 1 /\ d[1] = cs[1]
    BY <1>4, <2>1
  <2>3. ArgsOf(d) = Len(cs[1].args)
    BY <1>3, <2>1 DEF ArgsWith
  <2> PICK f : f = Append(d, cs[2])
    OBVIOUS
  <2>4. f \in Seq(Parsed) /\ Len(f) = 2 /\ f[1] = cs[1] /\ f[2] = cs[2]
    BY <2>1, <2>2
  <2>5. \A i \in 1..2 : i = 1 \/ i = 2
    OBVIOUS
  <2>6. cs = f
    BY <1>6, <2>4, <2>5, SameSeq
  <2>7. ArgsOf(f) = ArgsWith(ArgsOf(d), cs[2])
    BY <2>1, <2>2, ArgsOfFacts
  <2> QED
    BY <2>3, <2>6, <2>7 DEF ArgsWith
<1> QED
    BY <1>5, <1>6

LEMMA TwoLess ==
    ASSUME NEW a \in Nat, NEW b \in Nat, NEW x \in Nat, NEW y \in Nat, NEW f \in Nat, NEW g \in Nat,
           f = a - x, g = b - y
    PROVE  f + g + (x + y) = a + b
<1>1. (a - x) + (b - y) + (x + y) = a + b
    OBVIOUS
<1> QED
    BY <1>1

\* What the commands lose is what leaked.
LEMMA LeftBalance ==
    ASSUME NEW cs \in Seq(Parsed)
    PROVE  /\ Cardinality(MarksOf(cs)) \in Nat
           /\ ArgsOf(LeftOf(cs)) + Cardinality(MarksOf(cs)) = ArgsOf(cs)
<1> PICK d : d = LeftOf(cs)
    OBVIOUS
<1> PICK M : M = MarksOf(cs)
    OBVIOUS
<1>1. /\ d \in Seq(Parsed) /\ Len(d) = Len(cs) /\ M \subseteq 1..Len(cs) /\ (M # {} => Len(cs) \in {1, 2})
      /\ \A i \in 1..Len(cs) : /\ Len(d[i].args) \in Nat /\ Len(cs[i].args) \in Nat
                               /\ Len(d[i].args) = Len(cs[i].args) - Taken(cs, i)
    BY LeftFacts
<1>2. ArgsOf(cs) \in Nat
    BY ArgsOfFacts
<1>3. Cardinality({}) = 0 /\ Cardinality({1}) = 1 /\ Cardinality({2}) = 1 /\ Cardinality({1, 2}) = 2
  <2>1. Cardinality({}) = 0 /\ IsFiniteSet({})
    BY FS_EmptySet
  <2>2. Cardinality({1}) = 1 /\ IsFiniteSet({1}) /\ Cardinality({2}) = 1
    BY FS_Singleton
  <2>3. Cardinality({1} \cup {2}) = 2
    <3>1. 2 \notin {1}
      OBVIOUS
    <3>2. Cardinality({1} \cup {2}) = Cardinality({1}) + 1
      BY <2>2, <3>1, FS_AddElement
    <3> PICK n : n = Cardinality({1})
      OBVIOUS
    <3>3. n = 1
      BY <2>2
    <3> PICK m : m = Cardinality({1} \cup {2})
      OBVIOUS
    <3>4. m = n + 1
      BY <3>2
    <3>5. m = 2
      BY <3>3, <3>4
    <3> QED
      BY <3>5
  <2>4. {1} \cup {2} = {1, 2}
    OBVIOUS
  <2> QED
    BY <2>1, <2>2, <2>3, <2>4
<1>4. CASE M = {}
  <2>1. \A i \in DOMAIN cs : d[i] = cs[i]
    BY <1>4 DEF LeftOf
  <2>2. d = cs
    <3>1. \A i \in 1..Len(d) : d[i] = cs[i]
      BY <1>1, <2>1
    <3> QED
      BY <1>1, <3>1, SameSeq
  <2> QED
    BY <1>2, <1>3, <1>4, <2>2
<1>5. CASE M # {} /\ Len(cs) = 1
  <2>1. M = {1}
    BY <1>1, <1>5
  <2>2. Len(d[1].args) \in Nat /\ Len(cs[1].args) \in Nat /\ Len(d[1].args) = Len(cs[1].args) - 1
    BY <1>1, <1>5, <2>1 DEF Taken
  <2>3. ArgsOf(d) = Len(d[1].args) /\ ArgsOf(cs) = Len(cs[1].args)
    BY <1>1, <1>5, ArgsOfFew
  <2> QED
    BY <1>3, <2>1, <2>2, <2>3
<1>6. CASE M # {} /\ Len(cs) = 2
  <2>1. M = {1} \/ M = {2} \/ M = {1, 2}
    BY <1>1, <1>6
  <2>2. /\ Len(d[1].args) \in Nat /\ Len(cs[1].args) \in Nat /\ Len(d[1].args) = Len(cs[1].args) - Taken(cs, 1)
        /\ Len(d[2].args) \in Nat /\ Len(cs[2].args) \in Nat /\ Len(d[2].args) = Len(cs[2].args) - Taken(cs, 2)
    BY <1>1, <1>6
  <2>3. ArgsOf(d) = Len(d[1].args) + Len(d[2].args)
    BY <1>1, <1>6, ArgsOfFew
  <2>4. ArgsOf(cs) = Len(cs[1].args) + Len(cs[2].args)
    BY <1>1, <1>6, ArgsOfFew
  <2>5. Cardinality(M) = Taken(cs, 1) + Taken(cs, 2) /\ Taken(cs, 1) \in Nat /\ Taken(cs, 2) \in Nat
    <3>1. CASE M = {1}
      BY <1>3, <3>1 DEF Taken
    <3>2. CASE M = {2}
      BY <1>3, <3>2 DEF Taken
    <3>3. CASE M = {1, 2}
      BY <1>3, <3>3 DEF Taken
    <3> QED
      BY <2>1, <3>1, <3>2, <3>3
  <2>6. PICK a, b, f, g, x, y : /\ a = Len(cs[1].args) /\ b = Len(cs[2].args)
                                /\ f = Len(d[1].args) /\ g = Len(d[2].args)
                                /\ x = Taken(cs, 1) /\ y = Taken(cs, 2)
    OBVIOUS
  <2>7. a \in Nat /\ b \in Nat /\ f \in Nat /\ g \in Nat /\ x \in Nat /\ y \in Nat /\ f = a - x /\ g = b - y
    BY <2>2, <2>5, <2>6
  <2>8. f + g + (x + y) = a + b
    BY <2>7, TwoLess
  <2>9. ArgsOf(d) = f + g /\ ArgsOf(cs) = a + b /\ Cardinality(M) = x + y /\ x + y \in Nat
    BY <2>3, <2>4, <2>5, <2>6
  <2> QED
    BY <2>8, <2>9
<1> QED
    BY <1>1, <1>4, <1>5, <1>6

-----------------------------------------------------------------------------
(* The commands of a line and their strings.                                *)

Freed == ShellTypes /\ Stored

LEMMA ShellStart == ShellInit => Freed
<1> SUFFICES ASSUME ShellInit PROVE Freed
    OBVIOUS
<1>1. GROW \in Nat \ {0}
    BY ShellAssumption
<1>2. GROW \in Whole(GROW) /\ parsed_commands_dim = GROW
    BY <1>1, WholeSteps DEF ShellInit
<1>3. "" \in Token
    BY DEF Token
<1>4. \A x \in Token : <<x>> \in Seq(Token) /\ Len(<<x>>) # 0
    OBVIOUS
<1>5. buffer \in Seq(Token) /\ Len(buffer) # 0
    BY <1>3, <1>4 DEF ShellInit
<1>6. toks \in Seq(Token) /\ parsedCommands \in Seq(Parsed) /\ Len(parsedCommands) = 0
  <2>1. toks = <<>> /\ parsedCommands = <<>>
    BY DEF ShellInit
  <2>2. toks \in Seq(Token)
    BY <2>1
  <2>3. parsedCommands \in Seq(Parsed) /\ Len(parsedCommands) = 0
    BY <2>1
  <2> QED
    BY <2>2, <2>3
<1>7. at \in At1 /\ at # "parse" /\ exhausted \in BOOLEAN /\ blocks = 0 /\ leaked = 0
    BY DEF ShellInit, At1
<1>8. ShellTypes
    BY <1>1, <1>2, <1>5, <1>6, <1>7 DEF ShellTypes
<1>9. ArgsOf(parsedCommands) = 0
    BY <1>6, ArgsOfFacts
<1>10. \A i \in 1..0 : FALSE
    OBVIOUS
<1>11. Stored
    BY <1>1, <1>2, <1>6, <1>7, <1>9, <1>10 DEF Stored
<1> QED
    BY <1>8, <1>11 DEF Freed

\* A line is read.
LEMMA ReadFreed == Freed /\ readLine => Freed'
<1> SUFFICES ASSUME Freed, readLine PROVE Freed'
    OBVIOUS
<1>1. at = "prompt" /\ UNCHANGED <<parsedCommands, parsed_commands_dim, blocks, leaked, exhausted>>
    BY DEF readLine
<1>2. Len(parsedCommands) = 0 /\ parsed_commands_dim \in Nat \ {0}
  <2>1. Whole(GROW) \subseteq Nat
    BY WholeSteps, ShellAssumption
  <2> QED
    BY <1>1, <2>1 DEF Freed, Stored, ShellTypes
<1>3. /\ buffer' \in Seq(Token) /\ Len(buffer') # 0 /\ toks' \in Seq(Token)
      /\ at' \in {"prompt", "parse"}
  <2>1. CASE UNCHANGED <<at, buffer, toks>>
    BY <1>1, <2>1 DEF Freed, ShellTypes
  <2>2. CASE \E line \in Line : buffer' = line /\ toks' = strtok(line) /\ at' = "parse"
    <3>1. PICK q \in Line : buffer' = q /\ toks' = strtok(q) /\ at' = "parse"
      BY <2>2
    <3>2. PICK n \in 1..MaxWords : q \in [1..n -> Word]
      BY DEF Line
    <3>3. \A i \in 1..n : q[i] \in Token
      BY <3>2 DEF Token
    <3>4. q \in [1..n -> Token] /\ n \in Nat /\ n # 0
      BY <3>2, <3>3
    <3>5. q \in Seq(Token) /\ Len(q) = n
      BY <3>4
    <3>6. strtok(q) \in Seq(Token)
      <4>1. n > 1 => Front(q) \in Seq(Token)
        <5> PICK b : b = Len(q) - 1
          OBVIOUS
        <5>1. n > 1 => 1 \in Nat \ {0} /\ b \in Nat /\ b <= Len(q)
          BY <3>4, <3>5
        <5>2. n > 1 => SubSeq(q, 1, b) \in Seq(Token)
          BY <3>5, <5>1, PartFacts
        <5> QED
          BY <5>2 DEF Front
      <4> QED
        BY <3>5, <4>1 DEF strtok
    <3> QED
      BY <3>1, <3>4, <3>5, <3>6
  <2> QED
    BY <2>1, <2>2 DEF readLine
<1>4. ShellTypes'
    BY <1>1, <1>3 DEF Freed, ShellTypes, At1
<1>5. Stored'
    BY <1>1, <1>2, <1>3 DEF Freed, Stored
<1> QED
    BY <1>4, <1>5 DEF Freed

\* A command is found.
LEMMA ParseFreed == Freed /\ parse_command => Freed'
<1> SUFFICES ASSUME Freed, parse_command PROVE Freed'
    OBVIOUS
<1> PICK n : n = ArgCount(Tail(Found))
    OBVIOUS
<1> PICK c : c = [name |-> Found[1], args |-> SubSeq(Found, 2, n + 1)]
    OBVIOUS
<1>1. /\ at = "parse" /\ at' = "grow" /\ Named(Found) /\ parsedCommands' = Append(parsedCommands, c)
      /\ blocks' = blocks + n /\ toks' = SubSeq(Found, n + 3, Len(Found))
      /\ UNCHANGED <<buffer, parsed_commands_dim, leaked, exhausted>>
    BY DEF parse_command, Found
<1>2. n \in Nat /\ n <= MAX_ARGUMENT_COUNT - 2 /\ c \in Parsed /\ Len(c.args) = n
    BY <1>1, ParseFacts DEF Freed
<1>3. toks' \in Seq(Token)
    BY <1>1, ParseFacts DEF Freed
<1> PICK L : L = Len(parsedCommands)
    OBVIOUS
<1>4. /\ parsedCommands \in Seq(Parsed) /\ L \in Nat /\ blocks \in Nat /\ leaked \in Nat
      /\ L < parsed_commands_dim /\ parsed_commands_dim \in Nat
  <2>1. Whole(GROW) \subseteq Nat
    BY WholeSteps, ShellAssumption
  <2> QED
    BY <1>1, <2>1 DEF Freed, Stored, ShellTypes
<1>5. /\ parsedCommands' \in Seq(Parsed) /\ Len(parsedCommands') = L + 1 /\ parsedCommands'[L + 1] = c
      /\ \A i \in 1..L : parsedCommands'[i] = parsedCommands[i]
    BY <1>1, <1>2, <1>4
<1>6. ShellTypes'
  <2>1. blocks' \in Nat
    <3>1. blocks' = blocks + n
      BY <1>1
    <3>2. blocks \in Nat /\ n \in Nat
      BY <1>2, <1>4
    <3> QED
      BY <3>1, <3>2
  <2>2. at' \in At1
    BY <1>1 DEF At1
  <2>3. UNCHANGED <<buffer, parsed_commands_dim, leaked, exhausted>>
    BY <1>1
  <2>4. parsedCommands' \in Seq(Parsed)
    BY <1>5
  <2> QED
    BY <1>3, <2>1, <2>2, <2>3, <2>4 DEF Freed, ShellTypes
<1>7. ArgsOf(parsedCommands') = ArgsOf(parsedCommands) + n /\ ArgsOf(parsedCommands) \in Nat
    BY <1>1, <1>2, <1>4, ArgsOfFacts DEF ArgsWith
<1>8. blocks' = ArgsOf(parsedCommands') + leaked'
  <2>1. blocks = ArgsOf(parsedCommands) + leaked
    BY DEF Freed, Stored
  <2> QED
    BY <1>1, <1>2, <1>4, <1>7, <2>1, SMTT(40)
<1>9. \A i \in 1..(L + 1) : Len(parsedCommands'[i].args) <= MAX_ARGUMENT_COUNT - 2
  <2> SUFFICES ASSUME NEW i \in 1..(L + 1) PROVE Len(parsedCommands'[i].args) <= MAX_ARGUMENT_COUNT - 2
    OBVIOUS
  <2>1. i \in 1..L \/ i = L + 1
    BY <1>4
  <2> QED
    BY <1>2, <1>5, <2>1 DEF Freed, Stored
<1>10. Len(parsedCommands') <= parsed_commands_dim'
    BY <1>1, <1>4, <1>5
<1>11. Stored'
    BY <1>1, <1>5, <1>8, <1>9, <1>10 DEF Stored
<1> QED
    BY <1>6, <1>11 DEF Freed

LEMMA FailFreed == Freed /\ parse_command_fails => Freed'
<1> SUFFICES ASSUME Freed, parse_command_fails PROVE Freed'
    OBVIOUS
<1>1. /\ at' = "run" /\ toks' = <<>> /\ exhausted' \in BOOLEAN
      /\ UNCHANGED <<buffer, parsedCommands, parsed_commands_dim, blocks, leaked>>
    BY DEF parse_command_fails, Freed, ShellTypes
<1>2. toks' \in Seq(Token)
    BY <1>1
<1>3. ShellTypes'
    BY <1>1, <1>2 DEF Freed, ShellTypes, At1
<1>4. Stored'
    BY <1>1 DEF Freed, Stored
<1> QED
    BY <1>3, <1>4 DEF Freed

\* The strings of the line are freed.
LEMMA ClearFreed ==
    ASSUME Freed, blocks' = blocks - ArgsOf(parsedCommands), parsedCommands' = <<>>,
           UNCHANGED <<parsed_commands_dim, leaked>>,
           buffer' \in Seq(Token), Len(buffer') # 0, toks' \in Seq(Token), exhausted' \in BOOLEAN,
           at' \in {"prompt", "returned"}
    PROVE  Freed'
<1>1. parsedCommands \in Seq(Parsed) /\ leaked \in Nat /\ blocks = ArgsOf(parsedCommands) + leaked
    BY DEF Freed, ShellTypes, Stored
<1>2. ArgsOf(parsedCommands) \in Nat
    BY <1>1, ArgsOfFacts
<1>3. blocks' = leaked
    BY <1>1, <1>2
<1>4. parsedCommands' \in Seq(Parsed) /\ Len(parsedCommands') = 0
    OBVIOUS
<1>5. ArgsOf(parsedCommands') = 0
    BY <1>4, ArgsOfFacts
<1>6. ShellTypes'
    BY <1>1, <1>3, <1>4 DEF Freed, ShellTypes, At1
<1>7. parsed_commands_dim' \in Nat
  <2>1. Whole(GROW) \subseteq Nat
    BY WholeSteps, ShellAssumption
  <2> QED
    BY <2>1 DEF Freed, ShellTypes
<1>8. \A i \in 1..0 : FALSE
    OBVIOUS
<1>9. Stored'
    BY <1>1, <1>3, <1>4, <1>5, <1>7, <1>8 DEF Stored
<1> QED
    BY <1>6, <1>9 DEF Freed

LEMMA GrowFreed == Freed /\ growParsedCommands => Freed'
<1> SUFFICES ASSUME Freed, growParsedCommands PROVE Freed'
    OBVIOUS
<1>1. UNCHANGED <<buffer, toks, leaked, exhausted>>
    BY DEF growParsedCommands
<1> PICK L, D : L = Len(parsedCommands) /\ D = parsed_commands_dim
    OBVIOUS
<1>2. L \in Nat /\ D \in Whole(GROW) /\ D # 0 /\ L <= D /\ GROW \in Nat \ {0}
    BY ShellAssumption DEF Freed, ShellTypes, Stored
<1>3. D \in Nat /\ D + GROW \in Whole(GROW) /\ D % GROW = 0
    BY <1>2, WholeSteps, WholeRemainder
<1>4. CASE ~MustGrow /\ at' = "parse" /\ UNCHANGED <<parsed_commands_dim, blocks, parsedCommands>>
  <2>1. L # D
    BY <1>2, <1>3, <1>4 DEF MustGrow
  <2>2. L < D
    BY <1>2, <1>3, <2>1
  <2>3. ShellTypes'
    BY <1>1, <1>4 DEF Freed, ShellTypes, At1
  <2>4. Stored'
    BY <1>1, <1>4, <2>2 DEF Freed, Stored
  <2> QED
    BY <2>3, <2>4 DEF Freed
<1>5. CASE at' = "parse" /\ parsed_commands_dim' = D + GROW /\ UNCHANGED <<blocks, parsedCommands>>
  <2>1. L < D + GROW /\ L <= D + GROW /\ D + GROW # 0
    BY <1>2, <1>3
  <2>2. ShellTypes'
    BY <1>1, <1>3, <1>5, <2>1 DEF Freed, ShellTypes, At1
  <2>3. Stored'
    BY <1>1, <1>5, <2>1 DEF Freed, Stored
  <2> QED
    BY <2>2, <2>3 DEF Freed
<1>6. CASE /\ at' = "returned" /\ blocks' = blocks - ArgsOf(parsedCommands)
           /\ parsedCommands' = <<>> /\ UNCHANGED parsed_commands_dim
  <2>1. buffer' \in Seq(Token) /\ Len(buffer') # 0 /\ toks' \in Seq(Token) /\ exhausted' \in BOOLEAN
    BY <1>1 DEF Freed, ShellTypes
  <2> QED
    BY <1>1, <1>6, <2>1, ClearFreed
<1> QED
    BY <1>4, <1>5, <1>6 DEF growParsedCommands

LEMMA DispatchFreed == Freed /\ dispatch => Freed'
<1> SUFFICES ASSUME Freed, dispatch PROVE Freed'
    OBVIOUS
<1> PICK cs : cs = parsedCommands
    OBVIOUS
<1> PICK d : d = LeftOf(cs)
    OBVIOUS
<1> PICK k : k = Cardinality(MarksOf(cs))
    OBVIOUS
<1>1. /\ at' = "free" /\ parsedCommands' = d /\ leaked' = leaked + k
      /\ UNCHANGED <<buffer, toks, parsed_commands_dim, blocks, exhausted>>
    BY DispatchIs
<1>2. cs \in Seq(Parsed) /\ leaked \in Nat
    BY DEF Freed, ShellTypes
<1>3. /\ d \in Seq(Parsed) /\ Len(d) = Len(cs)
      /\ \A i \in 1..Len(cs) : /\ Len(d[i].args) \in Nat /\ Len(cs[i].args) \in Nat
                               /\ Len(d[i].args) = Len(cs[i].args) - Taken(cs, i)
    BY <1>2, LeftFacts
<1>4. k \in Nat /\ ArgsOf(d) + k = ArgsOf(cs)
    BY <1>2, LeftBalance
<1>5. ArgsOf(d) \in Nat
    BY <1>3, ArgsOfFacts
<1>6. ShellTypes'
    BY <1>1, <1>2, <1>3, <1>4 DEF Freed, ShellTypes, At1
<1>7. blocks' = ArgsOf(d) + leaked'
  <2>1. blocks = ArgsOf(cs) + leaked
    BY DEF Freed, Stored
  <2> QED
    BY <1>1, <1>2, <1>4, <1>5, <2>1
<1>8. \A i \in 1..Len(d) : Len(d[i].args) <= MAX_ARGUMENT_COUNT - 2
  <2> SUFFICES ASSUME NEW i \in 1..Len(d) PROVE Len(d[i].args) <= MAX_ARGUMENT_COUNT - 2
    OBVIOUS
  <2>1. Len(cs[i].args) <= MAX_ARGUMENT_COUNT - 2
    BY <1>3 DEF Freed, Stored
  <2>2. Taken(cs, i) \in {0, 1}
    BY DEF Taken
  <2> PICK a, b, x : a = Len(cs[i].args) /\ b = Len(d[i].args) /\ x = Taken(cs, i)
    OBVIOUS
  <2>3. a \in Nat /\ b \in Nat /\ x \in {0, 1} /\ b = a - x
    BY <1>3, <2>2
  <2>4. b <= a /\ MAX_ARGUMENT_COUNT \in Nat
    BY <2>3, ShellAssumption
  <2>5. b <= MAX_ARGUMENT_COUNT - 2
    BY <2>1, <2>3, <2>4
  <2> QED
    BY <2>5
<1>9. Stored'
    BY <1>1, <1>3, <1>7, <1>8 DEF Freed, Stored
<1> QED
    BY <1>6, <1>9 DEF Freed

LEMMA FreedStep == Freed /\ [ShellNext]_shellVars => Freed'
<1> SUFFICES ASSUME Freed, [ShellNext]_shellVars PROVE Freed'
    OBVIOUS
<1>1. CASE UNCHANGED shellVars
    BY <1>1 DEF shellVars, Freed, ShellTypes, Stored
<1>2. CASE dispatch_noPipe
  <2>1. ShellTypes'
    BY <1>2 DEF dispatch_noPipe, Freed, ShellTypes, At1
  <2>2. Stored'
    BY <1>2 DEF dispatch_noPipe, Freed, Stored
  <2> QED
    BY <2>1, <2>2 DEF Freed
<1>3. CASE freeArguments
  <2>1. \A x \in Token : <<x>> \in Seq(Token) /\ Len(<<x>>) # 0
    OBVIOUS
  <2>2. "" \in Token
    BY DEF Token
  <2>3. buffer' \in Seq(Token) /\ Len(buffer') # 0 /\ toks' \in Seq(Token) /\ exhausted' \in BOOLEAN
    <3>1. buffer' = <<"">> /\ toks' = <<>> /\ exhausted' = FALSE
      BY <1>3 DEF freeArguments
    <3>2. buffer' \in Seq(Token) /\ Len(buffer') # 0
      BY <2>1, <2>2, <3>1
    <3>3. toks' \in Seq(Token)
      <4>1. toks' = <<>>
        BY <3>1
      <4> QED
        BY <4>1
    <3> QED
      BY <3>1, <3>2, <3>3
  <2> QED
    BY <1>3, <2>3, ClearFreed DEF freeArguments
<1> QED
    BY <1>1, <1>2, <1>3, ReadFreed, ParseFreed, FailFreed, GrowFreed, DispatchFreed DEF ShellNext

\* For any table of commands, size of argv and lines: every argument string is
\* freed before the next prompt, but for the "&" of background commands, and no
\* command or argument is stored beyond its array (ArgumentsAreFreed; main and
\* parse_command of shell.c).
THEOREM ShellFreesArguments == ShellSpec => []ArgumentsAreFreed
<1>1. Freed => ArgumentsAreFreed
  <2> SUFFICES ASSUME Freed PROVE ArgumentsAreFreed
    OBVIOUS
  <2>1. parsedCommands \in Seq(Parsed) /\ leaked \in Nat /\ DOMAIN parsedCommands = 1..Len(parsedCommands)
    BY DEF Freed, ShellTypes
  <2>2. ASSUME at \in {"prompt", "returned"} PROVE blocks = leaked
    <3>1. ArgsOf(parsedCommands) = 0
      BY <2>1, <2>2, ArgsOfFacts DEF Freed, Stored
    <3> QED
      BY <2>1, <3>1 DEF Freed, Stored
  <2> QED
    BY <2>1, <2>2 DEF Freed, Stored, ArgumentsAreFreed
<1> QED
    BY <1>1, ShellStart, FreedStep, PTL DEF ShellSpec

-----------------------------------------------------------------------------
(* The words of a line.                                                     *)

LEMMA JoinedAt ==
    ASSUME NEW S, NEW a \in Seq(S), NEW b \in Seq(S)
    PROVE  /\ \A i \in 1..Len(a) : (a \o b)[i] = a[i]
           /\ \A i \in 1..Len(b) : (a \o b)[Len(a) + i] = b[i]
<1>1. Len(a) \in Nat /\ Len(b) \in Nat
    OBVIOUS
<1>2. ASSUME NEW i \in 1..Len(b) PROVE (a \o b)[Len(a) + i] = b[i]
  <2>1. Len(a) + i \in 1..(Len(a) + Len(b)) /\ ~(Len(a) + i <= Len(a)) /\ Len(a) + i - Len(a) = i
    BY <1>1
  <2> QED
    BY <1>1, <2>1
<1> QED
    BY <1>1, <1>2

\* The words before a command, with the "|" that follows them.
Before(q) == q \o (IF q = <<>> THEN <<>> ELSE <<"|">>)
LEMMA BeforeFacts ==
    ASSUME NEW q \in Seq(Token)
    PROVE  /\ Before(q) \in Seq(Token)
           /\ Len(q) = 0 => Len(Before(q)) = 0
           /\ Len(q) # 0 => Len(Before(q)) = Len(q) + 1 /\ Before(q)[Len(q) + 1] = "|"
           /\ \A i \in 1..Len(q) : Before(q)[i] = q[i]
<1> PICK a : a = IF q = <<>> THEN <<>> ELSE <<"|">>
    OBVIOUS
<1>1. Len(q) \in Nat /\ (q = <<>> <=> Len(q) = 0)
    OBVIOUS
<1>2. "|" \in Token
    BY DEF Token
<1>3. a \in Seq(Token)
    BY <1>2
<1>4. Before(q) = q \o a
    BY DEF Before
<1>5. q \o a \in Seq(Token) /\ Len(q \o a) = Len(q) + Len(a) /\ \A i \in 1..Len(q) : (q \o a)[i] = q[i]
    BY <1>3, JoinedSeq, JoinedAt
<1>6. ASSUME Len(q) = 0 PROVE Len(q \o a) = 0
  <2>1. Len(a) = 0
    BY <1>1, <1>6
  <2> QED
    BY <1>5, <1>6, <2>1
<1>7. ASSUME Len(q) # 0 PROVE Len(q \o a) = Len(q) + 1 /\ (q \o a)[Len(q) + 1] = "|"
  <2>1. Len(a) = 1 /\ a[1] = "|" /\ 1 \in 1..1
    BY <1>1, <1>7
  <2>2. (q \o a)[Len(q) + 1] = a[1]
    BY <1>3, <2>1, JoinedAt
  <2> QED
    BY <1>5, <2>1, <2>2
<1> QED
    BY <1>4, <1>5, <1>6, <1>7

LEMMA WordsOfFacts ==
    ASSUME NEW q \in Seq(Token), NEW c \in Parsed
    PROVE  LET m == Len(Before(q))
               n == Len(c.args) IN
           /\ m \in Nat /\ n \in Nat /\ WordsOf(q, c) \in Seq(Token) /\ Len(WordsOf(q, c)) = m + 1 + n
           /\ \A i \in 1..m : WordsOf(q, c)[i] = Before(q)[i]
           /\ WordsOf(q, c)[m + 1] = c.name
           /\ \A i \in 1..n : WordsOf(q, c)[m + 1 + i] = c.args[i]
<1> PICK m : m = Len(Before(q))
    OBVIOUS
<1> PICK n : n = Len(c.args)
    OBVIOUS
<1> PICK a : a = Before(q)
    OBVIOUS
<1> PICK e : e = <<c.name>>
    OBVIOUS
<1> PICK g : g = c.args
    OBVIOUS
<1>1. a \in Seq(Token) /\ m \in Nat /\ m = Len(a)
    BY BeforeFacts
<1>2. c.name \in Token /\ g \in Seq(Token) /\ n = Len(g) /\ n \in Nat
    BY DEF Parsed
<1>3. e \in Seq(Token) /\ Len(e) = 1 /\ e[1] = c.name /\ 1 \in 1..1
    BY <1>2
<1>4. WordsOf(q, c) = (a \o e) \o g
    BY DEF WordsOf, Before
<1> PICK r : r = a \o e
    OBVIOUS
<1>5. r \in Seq(Token) /\ Len(r) = m + 1 /\ (\A i \in 1..m : r[i] = a[i]) /\ r[m + 1] = c.name
  <2>1. r \in Seq(Token) /\ Len(r) = m + 1
    BY <1>1, <1>3, JoinedSeq
  <2>2. \A i \in 1..m : r[i] = a[i]
    BY <1>1, <1>3, JoinedAt
  <2>3. r[m + 1] = e[1]
    BY <1>1, <1>3, JoinedAt
  <2> QED
    BY <1>3, <2>1, <2>2, <2>3
<1> PICK w : w = r \o g
    OBVIOUS
<1>6. w \in Seq(Token) /\ Len(w) = m + 1 + n
    BY <1>2, <1>5, JoinedSeq
<1>7. \A i \in 1..(m + 1) : w[i] = r[i]
    BY <1>2, <1>5, JoinedAt
<1>8. \A i \in 1..n : w[m + 1 + i] = g[i]
    BY <1>2, <1>5, JoinedAt
<1>9. m + 1 \in 1..(m + 1) /\ \A i \in 1..m : i \in 1..(m + 1)
    BY <1>1
<1>10. w[m + 1] = c.name /\ \A i \in 1..m : w[i] = a[i]
    BY <1>5, <1>7, <1>9
<1> QED
    BY <1>1, <1>2, <1>4, <1>6, <1>8, <1>10

\* The "|" among words: each command but the first brings one.
Bars(q) == {i \in DOMAIN q : q[i] = "|"}
LEMMA BarsFinite ==
    ASSUME NEW q \in Seq(Token)
    PROVE  /\ Bars(q) \subseteq 1..Len(q) /\ IsFiniteSet(Bars(q)) /\ Cardinality(Bars(q)) \in Nat
           /\ Len(q) = 0 => Cardinality(Bars(q)) = 0
<1>1. Len(q) \in Nat /\ DOMAIN q = 1..Len(q)
    OBVIOUS
<1>2. Bars(q) \subseteq 1..Len(q)
    BY <1>1 DEF Bars
<1>3. IsFiniteSet(1..Len(q))
    BY <1>1, FS_Interval
<1>4. IsFiniteSet(Bars(q))
    BY <1>2, <1>3, FS_Subset
<1>5. Cardinality(Bars(q)) \in Nat
    BY <1>4, FS_CardinalityType
<1>6. ASSUME Len(q) = 0 PROVE Cardinality(Bars(q)) = 0
  <2>1. 1..0 = {}
    OBVIOUS
  <2>2. Bars(q) = {}
    BY <1>2, <1>6, <2>1
  <2> QED
    BY <2>2, FS_EmptySet
<1> QED
    BY <1>2, <1>4, <1>5, <1>6

LEMMA BarsGrow ==
    ASSUME NEW q \in Seq(Token), NEW c \in Parsed, c.name # "|", \A i \in 1..Len(c.args) : c.args[i] # "|"
    PROVE  Cardinality(Bars(WordsOf(q, c))) = IF Len(q) = 0 THEN 0 ELSE Cardinality(Bars(q)) + 1
<1> PICK m : m = Len(Before(q))
    OBVIOUS
<1> PICK n : n = Len(c.args)
    OBVIOUS
<1> PICK w : w = WordsOf(q, c)
    OBVIOUS
<1> PICK L : L = Len(q)
    OBVIOUS
<1>1. /\ m \in Nat /\ n \in Nat /\ w \in Seq(Token) /\ Len(w) = m + 1 + n
      /\ \A i \in 1..m : w[i] = Before(q)[i]
      /\ w[m + 1] = c.name /\ \A i \in 1..n : w[m + 1 + i] = c.args[i]
    BY WordsOfFacts, Zenon
<1>2. L \in Nat /\ DOMAIN q = 1..L /\ DOMAIN w = 1..(m + 1 + n)
  <2>1. L \in Nat /\ DOMAIN q = 1..L
    OBVIOUS
  <2> QED
    BY <1>1, <2>1
<1>3. ASSUME NEW i \in 1..(m + 1 + n), w[i] = "|" PROVE i \in 1..m
  <2>1. CASE i = m + 1
    BY <1>1, <1>3, <2>1
  <2>2. CASE i > m + 1
    <3> PICK j : j = i - (m + 1)
      OBVIOUS
    <3>1. j \in 1..n /\ i = m + 1 + j
      <4>1. \A x, y \in Nat : \A k \in 1..(x + 1 + y) :
                k > x + 1 => k - (x + 1) \in 1..y /\ k = x + 1 + (k - (x + 1))
        OBVIOUS
      <4> QED
        BY <1>1, <2>2, <4>1
    <3> QED
      BY <1>1, <1>3, <3>1, ZenonT(40)
  <2> QED
    BY <1>1, <2>1, <2>2
<1>4. CASE L = 0
  <2>1. m = 0
    BY <1>4, BeforeFacts
  <2>2. Bars(w) = {}
    BY <1>2, <1>3, <2>1 DEF Bars
  <2> QED
    BY <1>4, <2>2, FS_EmptySet
<1>5. CASE L # 0
  <2>1. m = L + 1 /\ Before(q)[L + 1] = "|" /\ \A i \in 1..L : Before(q)[i] = q[i]
    BY <1>5, BeforeFacts
  <2>2. L + 1 \in 1..m /\ \A i \in 1..L : i \in 1..m
    BY <1>2, <2>1
  <2>3. w[L + 1] = "|" /\ \A i \in 1..L : w[i] = q[i]
    BY <1>1, <2>1, <2>2
  <2>4. \A i \in 1..m : i \in 1..(m + 1 + n) /\ (i \in 1..L \/ i = L + 1)
    <3>1. \A x, y \in Nat : \A i \in 1..(x + 1) : i \in 1..(x + 1 + 1 + y) /\ (i \in 1..x \/ i = x + 1)
      OBVIOUS
    <3> QED
      BY <1>1, <1>2, <2>1, <3>1
  <2>5. Bars(w) = Bars(q) \cup {L + 1}
    <3>1. Bars(w) \subseteq Bars(q) \cup {L + 1}
      BY <1>2, <1>3, <2>3, <2>4 DEF Bars
    <3>2. Bars(q) \cup {L + 1} \subseteq Bars(w)
      BY <1>2, <2>2, <2>3, <2>4 DEF Bars
    <3> QED
      BY <3>1, <3>2
  <2>6. L + 1 \notin Bars(q)
    <3>1. L + 1 \notin 1..L
      BY <1>2
    <3> QED
      BY <3>1, BarsFinite
  <2>7. Cardinality(Bars(q) \cup {L + 1}) = Cardinality(Bars(q)) + 1
    BY <2>6, BarsFinite, FS_AddElement
  <2> QED
    BY <1>5, <2>5, <2>7
<1> QED
    BY <1>4, <1>5

-----------------------------------------------------------------------------
(* How far a line is read.                                                  *)

Clear == WellFormed(buffer) /\ ~exhausted
\* The words up to the m-th, a "|", are those of the commands, and the others
\* are still to come; or all of them are read.
Going(m) ==
    LET w == Words(parsedCommands) IN
    /\ m < Len(buffer) /\ (m = 0 \/ buffer[m] = "|")
    /\ Len(Before(w)) = m /\ \A i \in 1..m : Before(w)[i] = buffer[i]
    /\ Len(toks) = Len(buffer) - m /\ \A i \in 1..(Len(buffer) - m) : toks[i] = buffer[m + i]
Done == Words(parsedCommands) = buffer /\ Len(toks) = 0
Reading == at \in {"parse", "grow"} /\ Clear => Done \/ \E m \in Nat : Going(m)
\* Each command but the first has brought a "|".
Tallied ==
    LET w == Words(parsedCommands) IN
    IF Len(parsedCommands) = 0 THEN w = <<>>
    ELSE Len(w) # 0 /\ Cardinality(Bars(w)) = Len(parsedCommands) - 1
Tally == at \in {"parse", "grow", "run"} => Tallied
AllRead == at = "run" /\ Clear => Words(parsedCommands) = buffer
Suits(kind, n) ==
    CASE n = 0 -> kind \in {"builtin", "command"}
      [] n = 1 -> kind \in {"pipeline", "failed", "refused"}
      [] OTHER -> kind = "refused"
Fitting == at = "free" /\ Clear => Suits(ran.kind, Cardinality(Bars(buffer)))
\* A line that begins with no command.
Strange == buffer[1] \notin Command \cup {"|"}
Ignored ==
    Strange => /\ at # "grow"
               /\ at = "parse" => Len(parsedCommands) = 0 /\ Len(toks) # 0 /\ toks[1] = buffer[1]
               /\ at = "run" => Len(parsedCommands) = 0
               /\ at = "free" => ran = Nothing
Understood == Freed /\ Reading /\ Tally /\ AllRead /\ Fitting /\ Ignored

LEMMA WellFacts ==
    ASSUME NEW b \in Seq(Token), Len(b) # 0, WellFormed(b)
    PROVE  /\ \A i \in 1..Len(b) : b[i] # ""
           /\ \A i \in 1..Len(b) : i = 1 \/ b[i - 1] = "|" => b[i] \in Command
           /\ b[Len(b)] # "|"
           /\ \A i \in 1..Len(b) : \E j \in i..(i + MAX_ARGUMENT_COUNT - 1) : j > Len(b) \/ b[j] = "|"
<1> PICK L : L = Len(b)
    OBVIOUS
<1>1. /\ \A i \in 1..L : b[i] # "" /\ ((i = 1 \/ b[i - 1] = "|") => b[i] \in Command)
      /\ b[L] # "|"
      /\ \A i \in 1..L : \E j \in i..(i + MAX_ARGUMENT_COUNT - 1) : j > L \/ b[j] = "|"
    BY DEF WellFormed
<1> QED
    BY <1>1, Zenon

LEMMA NameFollows ==
    ASSUME NEW b \in Seq(Token), NEW N, N = Len(b), N # 0, WellFormed(b), NEW m \in Nat, m < N,
           m = 0 \/ b[m] = "|"
    PROVE  b[m + 1] \in Command /\ b[m + 1] # "|"
<1>1. N \in Nat /\ m + 1 \in 1..N
    OBVIOUS
<1> PICK k : k = m + 1
    OBVIOUS
<1>2. k \in 1..N /\ k - 1 = m /\ (m = 0 => k = 1)
    BY <1>1
<1>3. \A i \in 1..N : i = 1 \/ b[i - 1] = "|" => b[i] \in Command
    BY WellFacts
<1>4. k = 1 \/ b[k - 1] = "|"
    BY <1>2
<1>5. b[k] \in Command
    BY <1>2, <1>3, <1>4
<1> QED
    BY <1>5, ShellAssumption

\* A command's words end where the next "|" or the line does.
LEMMA EndOfCommand ==
    ASSUME NEW b \in Seq(Token), NEW N, N = Len(b), N # 0, WellFormed(b), NEW m \in Nat, m < N,
           m = 0 \/ b[m] = "|", NEW n \in Nat, m + n + 1 <= N, \A i \in 1..n : b[m + 1 + i] # "|",
           m + n + 1 = N \/ b[m + n + 2] = "|" \/ n = MAX_ARGUMENT_COUNT - 2
    PROVE  /\ b[m + 1] \in Command /\ b[m + 1] # "|"
           /\ m + n + 1 = N \/ (m + n + 2 < N /\ b[m + n + 2] = "|")
<1>1. N \in Nat
    OBVIOUS
<1>2. m + 1 \in 1..N /\ m + 1 - 1 = m
    BY <1>1
<1>3. b[m + 1] \in Command
    BY NameFollows
<1>4. b[m + 1] # "|"
    BY NameFollows
<1>5. ASSUME m + n + 1 # N PROVE m + n + 2 < N /\ b[m + n + 2] = "|"
  <2>1. m + n + 2 <= N
    BY <1>1, <1>5
  <2>2. b[m + n + 2] = "|"
    <3>1. CASE n = MAX_ARGUMENT_COUNT - 2
      <4>1. PICK j \in (m + 1)..(m + 1 + MAX_ARGUMENT_COUNT - 1) : j > N \/ b[j] = "|"
        BY <1>2, WellFacts
      <4>2. MAX_ARGUMENT_COUNT \in Nat /\ m + 1 + MAX_ARGUMENT_COUNT - 1 = m + n + 2
        BY <3>1, ShellAssumption
      <4>3. j \in (m + 1)..(m + n + 2)
        BY <4>1, <4>2
      <4>4. b[j] = "|"
        BY <1>1, <2>1, <4>1, <4>3
      <4>5. ASSUME j # m + n + 2, j # m + 1 PROVE FALSE
        <5> PICK k : k = j - (m + 1)
          OBVIOUS
        <5>1. \A x, y \in Nat : \A z \in (x + 1)..(x + y + 2) :
                  z # x + y + 2 /\ z # x + 1 => z - (x + 1) \in 1..y /\ x + 1 + (z - (x + 1)) = z
          OBVIOUS
        <5>2. k \in 1..n /\ m + 1 + k = j
          BY <4>3, <4>5, <5>1
        <5> QED
          BY <4>4, <5>2
      <4> QED
        BY <1>4, <4>4, <4>5
    <3>2. CASE n # MAX_ARGUMENT_COUNT - 2
      BY <1>5, <3>2
    <3> QED
      BY <3>1, <3>2
  <2>3. m + n + 2 # N
    BY <2>2, WellFacts
  <2> QED
    BY <1>1, <2>1, <2>2, <2>3
<1> QED
    BY <1>3, <1>4, <1>5

\* While words are to come, the next is a command's name.
LEMMA NextIsNamed ==
    ASSUME ShellTypes, Clear, NEW m \in Nat, Going(m)
    PROVE  Found = toks /\ Named(toks) /\ Len(toks) = Len(buffer) - m
<1> PICK N : N = Len(buffer)
    OBVIOUS
<1>1. buffer \in Seq(Token) /\ N \in Nat /\ N # 0 /\ toks \in Seq(Token) /\ WellFormed(buffer)
    BY DEF ShellTypes, Clear
<1>2. m < N /\ (m = 0 \/ buffer[m] = "|") /\ Len(toks) = N - m /\ \A i \in 1..(N - m) : toks[i] = buffer[m + i]
    BY DEF Going
<1>3. m + 1 \in 1..N /\ m + 1 - 1 = m /\ 1 \in 1..(N - m) /\ N - m # 0
    BY <1>1, <1>2
<1>4. buffer[m + 1] \in Command
    BY <1>1, <1>2, NameFollows
<1>5. toks[1] \in Command /\ toks[1] # "|" /\ Len(toks) # 0
    BY <1>2, <1>3, <1>4, ShellAssumption
<1>6. toks # <<>>
    BY <1>5
<1> QED
    BY <1>1, <1>2, <1>5, <1>6, SkipFacts DEF Found, Named

\* The command found takes its words.
LEMMA CommandTakes ==
    ASSUME Freed, Clear, NEW m \in Nat, Going(m), parse_command
    PROVE  Done' \/ \E k \in Nat : Going(k)'
<1>N. PICK N : N = Len(buffer)
    OBVIOUS
<1>n. PICK n : n = ArgCount(Tail(Found))
    OBVIOUS
<1>c. PICK c : c = [name |-> Found[1], args |-> SubSeq(Found, 2, n + 1)]
    OBVIOUS
<1>w. PICK w : w = Words(parsedCommands)
    OBVIOUS
<1>v. PICK v : v = Words(parsedCommands)'
    OBVIOUS
<1>1. buffer \in Seq(Token) /\ N \in Nat /\ N # 0 /\ toks \in Seq(Token) /\ WellFormed(buffer) /\ parsedCommands \in Seq(Parsed)
    BY <1>N DEF Freed, ShellTypes, Clear
<1>2. Found = toks /\ Named(toks) /\ Len(toks) = N - m
    BY <1>N, NextIsNamed DEF Freed
<1>3. /\ m < N /\ (m = 0 \/ buffer[m] = "|") /\ (\A i \in 1..(N - m) : toks[i] = buffer[m + i])
      /\ Len(Before(w)) = m /\ \A i \in 1..m : Before(w)[i] = buffer[i]
    BY <1>N, <1>w DEF Going
<1>4. /\ parsedCommands' = Append(parsedCommands, c) /\ toks' = SubSeq(toks, n + 3, Len(toks)) /\ buffer' = buffer
    BY <1>2, <1>n, <1>c DEF parse_command, Found
<1>5. /\ n \in Nat /\ n + 1 <= Len(toks) /\ c \in Parsed /\ Len(c.args) = n
      /\ \A i \in 1..n : c.args[i] = toks[i + 1] /\ toks[i + 1] # "|"
      /\ n + 1 = Len(toks) \/ toks[n + 2] = "|" \/ n = MAX_ARGUMENT_COUNT - 2
    BY <1>2, <1>n, <1>c, ParseFacts DEF Freed
<1>6. c.name = toks[1]
    BY <1>2, <1>c
<1>7. w \in Seq(Token) /\ v = WordsOf(w, c)
    BY <1>1, <1>4, <1>5, <1>w, <1>v, WordsFacts
<1>8. /\ v \in Seq(Token) /\ Len(v) = m + 1 + n /\ \A i \in 1..m : v[i] = Before(w)[i]
      /\ v[m + 1] = c.name /\ \A i \in 1..n : v[m + 1 + i] = c.args[i]
  <2>1. /\ WordsOf(w, c) \in Seq(Token) /\ Len(WordsOf(w, c)) = Len(Before(w)) + 1 + Len(c.args)
        /\ \A i \in 1..Len(Before(w)) : WordsOf(w, c)[i] = Before(w)[i]
        /\ WordsOf(w, c)[Len(Before(w)) + 1] = c.name
        /\ \A i \in 1..Len(c.args) : WordsOf(w, c)[Len(Before(w)) + 1 + i] = c.args[i]
    BY <1>5, <1>7, WordsOfFacts, Zenon
  <2>2. Len(Before(w)) = m /\ Len(c.args) = n /\ v = WordsOf(w, c)
    BY <1>3, <1>5, <1>7
  <2> QED
    BY <2>1, <2>2
<1>9. \A i \in 1..n : i + 1 \in 1..(N - m) /\ m + (i + 1) = m + 1 + i
  <2>1. \A x, y \in Nat : x + 1 <= y => \A i \in 1..x : i + 1 \in 1..y
    OBVIOUS
  <2>2. N - m \in Nat
    BY <1>1, <1>3
  <2>3. \A i \in 1..n : i + 1 \in 1..(N - m)
    BY <1>2, <1>5, <2>1, <2>2
  <2>4. \A i \in 1..n : m + (i + 1) = m + 1 + i
    BY <1>5
  <2> QED
    BY <2>3, <2>4
<1>10. \A i \in 1..n : toks[i + 1] = buffer[m + 1 + i]
    BY <1>3, <1>9
<1>11. m + n + 1 <= N /\ 1 \in 1..(N - m)
    BY <1>1, <1>2, <1>3, <1>5
<1>T. PICK T : T = Len(toks)
    OBVIOUS
<1>A. N \in Nat /\ m \in Nat /\ n \in Nat /\ T \in Nat /\ T = N - m /\ m < N /\ n + 1 <= T
    BY <1>1, <1>2, <1>3, <1>5, <1>T
<1>12. m + n + 1 = N \/ buffer[m + n + 2] = "|" \/ n = MAX_ARGUMENT_COUNT - 2
  <2>1. CASE n + 1 = T
    BY <1>A, <2>1
  <2>2. CASE n + 1 # T /\ toks[n + 2] = "|"
    <3>1. n + 2 \in 1..(N - m) /\ m + (n + 2) = m + n + 2
      BY <1>A, <2>2
    <3> QED
      BY <1>3, <2>2, <3>1
  <2> QED
    BY <1>5, <1>T, <2>1, <2>2
<1>13. m + n + 1 = N \/ (m + n + 2 < N /\ buffer[m + n + 2] = "|")
  <2>1. \A i \in 1..n : buffer[m + 1 + i] # "|"
    BY SMTT(40), <1>5, <1>10
  <2>2. buffer \in Seq(Token) /\ N = Len(buffer) /\ N # 0 /\ WellFormed(buffer)
    BY <1>1, <1>N
  <2>3. m < N /\ (m = 0 \/ buffer[m] = "|") /\ n \in Nat /\ m + n + 1 <= N
    BY <1>3, <1>A, <1>11
  <2> QED
    BY ZenonT(40), <1>12, <2>1, <2>2, <2>3, EndOfCommand
<1>14. \A i \in 1..(m + 1 + n) : v[i] = buffer[i]
  <2> SUFFICES ASSUME NEW i \in 1..(m + 1 + n) PROVE v[i] = buffer[i]
    OBVIOUS
  <2>1. CASE i \in 1..m
    BY <1>3, <1>8, <2>1
  <2>2. CASE i = m + 1
    <3>1. toks[1] = buffer[m + 1]
      BY <1>3, <1>11
    <3> QED
      BY <1>6, <1>8, <2>2, <3>1
  <2>3. CASE i > m + 1
    <3> PICK j : j = i - (m + 1)
      OBVIOUS
    <3>1. \A x, y \in Nat : \A k \in 1..(x + 1 + y) :
              k > x + 1 => k - (x + 1) \in 1..y /\ k = x + 1 + (k - (x + 1))
      OBVIOUS
    <3>2. j \in 1..n /\ i = m + 1 + j
      BY <1>5, <2>3, <3>1
    <3>3. v[m + 1 + j] = c.args[j] /\ c.args[j] = toks[j + 1]
      BY <1>5, <1>8, <3>2
    <3>4. toks[j + 1] = buffer[m + 1 + j]
      BY <1>10, <3>2
    <3> QED
      BY <3>2, <3>3, <3>4
  <2>4. \A x, y \in Nat : \A k \in 1..(x + 1 + y) : k \in 1..x \/ k = x + 1 \/ k > x + 1
    OBVIOUS
  <2> QED
    BY <1>5, <2>1, <2>2, <2>3, <2>4
<1>15. /\ T \in Nat /\ T = N - m /\ Len(toks') = IF n + 3 <= T THEN T - (n + 3) + 1 ELSE 0
       /\ \A i \in Nat : 1 <= i /\ i <= T - (n + 3) + 1 => toks'[i] = toks[n + 3 + i - 1]
  <2>0. PICK a : a = n + 3
    OBVIOUS
  <2>1. a \in Nat \ {0} /\ T \in Nat /\ T <= Len(toks)
    BY <1>A, <1>T, <2>0
  <2>2. toks' = SubSeq(toks, a, T)
    BY <1>4, <1>T, <2>0
  <2>3. /\ Len(SubSeq(toks, a, T)) = IF a <= T THEN T - a + 1 ELSE 0
        /\ \A i \in Nat : 1 <= i /\ i <= T - a + 1 => SubSeq(toks, a, T)[i] = toks[a + i - 1]
    BY <1>1, <2>1, PartFacts
  <2> QED
    BY <1>A, <2>0, <2>1, <2>2, <2>3
<1>16. CASE m + n + 1 = N
  <2>1. m + 1 + n = N /\ ~(n + 3 <= T)
    BY <1>A, <1>16
  <2>2. Len(v) = Len(buffer) /\ \A i \in 1..Len(v) : v[i] = buffer[i]
    BY <1>8, <1>14, <1>N, <2>1
  <2>3. v = buffer
    BY <1>1, <1>8, <2>2, SameSeq
  <2>4. Len(toks') = 0
    BY <1>15, <2>1
  <2> QED
    BY <1>4, <1>v, <2>3, <2>4 DEF Done
<1>17. CASE m + n + 2 < N /\ buffer[m + n + 2] = "|"
  <2>0. PICK k : k = m + n + 2
    OBVIOUS
  <2>1. k \in Nat /\ k < N /\ buffer[k] = "|" /\ k = m + 1 + n + 1 /\ k # 0
    BY <1>A, <1>17, <2>0
  <2>2. Len(Before(v)) = k /\ \A i \in 1..k : Before(v)[i] = buffer[i]
    <3>1. m + 1 + n \in Nat /\ m + 1 + n # 0
      BY <1>A
    <3>2. /\ Len(Before(v)) = Len(v) + 1 /\ Before(v)[Len(v) + 1] = "|"
          /\ \A i \in 1..Len(v) : Before(v)[i] = v[i]
      BY <1>8, <3>1, BeforeFacts
    <3>3. Len(v) + 1 = k
      BY <1>8, <2>1
    <3>4. \A x \in Nat : \A i \in 1..(x + 1) : i \in 1..x \/ i = x + 1
      OBVIOUS
    <3>5. \A i \in 1..k : i \in 1..(m + 1 + n) \/ i = k
      BY <2>1, <3>1, <3>4
    <3> QED
      BY <1>8, <1>14, <2>1, <3>2, <3>3, <3>5
  <2>3. Len(toks') = N - k
    <3>1. n + 3 <= T /\ T - (n + 3) + 1 = N - k
      BY <1>A, <2>1
    <3> QED
      BY <1>15, <3>1
  <2>4. ASSUME NEW i \in 1..(N - k) PROVE toks'[i] = buffer[k + i]
    <3>1. i \in Nat /\ 1 <= i /\ i <= N - k
      BY <1>A, <2>1
    <3>2. i <= T - (n + 3) + 1 /\ n + 3 + i - 1 = n + 2 + i
      BY <1>A, <2>1, <3>1
    <3>3. n + 2 + i \in 1..(N - m) /\ m + (n + 2 + i) = k + i
      BY <1>A, <2>1, <3>1
    <3> QED
      BY <1>3, <1>15, <3>1, <3>2, <3>3
  <2>5. Going(k)'
    BY <1>4, <1>N, <1>v, <2>1, <2>2, <2>3, <2>4 DEF Going
  <2> QED
    BY <2>1, <2>5
<1> QED
    BY <1>13, <1>16, <1>17

\* A line is read.
LEMMA LineStarts ==
    ASSUME ShellTypes, Len(parsedCommands) = 0, NEW q \in Line, buffer' = q, toks' = strtok(q), at' = "parse",
           UNCHANGED <<parsedCommands, exhausted>>
    PROVE  Reading' /\ Tallied' /\ Len(toks') # 0 /\ toks'[1] = buffer'[1]
<1>1. PICK n \in 1..MaxWords : q \in [1..n -> Word]
    BY DEF Line
<1>2. \A i \in 1..n : q[i] \in Token
    BY <1>1 DEF Token
<1>3. q \in [1..n -> Token] /\ n \in Nat /\ n # 0
    BY <1>1, <1>2
<1>4. q \in Seq(Token) /\ Len(q) = n
    BY <1>3
<1>5. Words(parsedCommands) = <<>> /\ Words(parsedCommands)' = <<>>
    BY WordsFacts DEF ShellTypes
<1>6. Len(toks') # 0 /\ toks'[1] = q[1]
  <2>1. CASE n > 1 /\ Last(q) = ""
    <3> PICK b : b = n - 1
      OBVIOUS
    <3>0. \A k \in Nat : k > 1 => k - 1 \in Nat /\ k - 1 <= k /\ 1 <= k - 1 /\ 1 <= (k - 1) - 1 + 1
      OBVIOUS
    <3>a. n - 1 \in Nat /\ n - 1 <= n /\ 1 <= n - 1 /\ 1 <= (n - 1) - 1 + 1
      BY <1>3, <2>1, <3>0, Zenon
    <3>b. 1 \in Nat \ {0}
      OBVIOUS
    <3>1. 1 \in Nat \ {0} /\ b \in Nat /\ b <= Len(q) /\ 1 <= b /\ 1 <= b - 1 + 1
      BY <1>4, <3>a, <3>b, Zenon
    <3> PICK t : t = SubSeq(q, 1, b)
      OBVIOUS
    <3>2. /\ Len(t) = IF 1 <= b THEN b - 1 + 1 ELSE 0
          /\ \A i \in Nat : 1 <= i /\ i <= b - 1 + 1 => t[i] = q[1 + i - 1]
      BY <1>4, <3>1, PartFacts
    <3>3. Len(t) # 0 /\ t[1] = q[1]
      <4>1. 1 <= 1 /\ 1 + 1 - 1 = 1
        OBVIOUS
      <4>2. t[1] = q[1]
        BY <3>1, <3>2, <4>1
      <4> QED
        BY <3>1, <3>2, <4>2
    <3>4. toks' = t
      BY <1>4, <2>1 DEF strtok, Front
    <3> QED
      BY <3>3, <3>4
  <2>2. CASE ~(n > 1 /\ Last(q) = "")
    BY <1>3, <1>4, <2>2 DEF strtok
  <2> QED
    BY <2>1, <2>2
<1>7. Reading'
  <2> SUFFICES ASSUME Clear' PROVE Going(0)'
    <3>1. 0 \in Nat
      OBVIOUS
    <3> QED
      BY <3>1 DEF Reading
  <2>1. WellFormed(q)
    BY DEF Clear
  <2>2. q[n] # "" /\ Last(q) = q[n]
    <3>1. n \in 1..n
      BY <1>3
    <3> QED
      BY <1>3, <1>4, <2>1, <3>1, WellFacts DEF Last
  <2>3. toks' = q
    BY <2>2 DEF strtok
  <2> PICK e : e = <<>>
    OBVIOUS
  <2>4. e \in Seq(Token) /\ Len(e) = 0
    OBVIOUS
  <2>5. Len(Before(e)) = 0
    BY <2>4, BeforeFacts
  <2>6. Len(Before(Words(parsedCommands)')) = 0
    BY <1>5, <2>5
  <2>7. 0 < n /\ n - 0 = n /\ (\A i \in 1..0 : FALSE) /\ \A i \in 1..n : 0 + i = i
    BY <1>3
  <2>8. buffer' = q /\ Len(toks') = n /\ \A i \in 1..n : toks'[i] = q[0 + i]
    BY <1>4, <2>3, <2>7
  <2> QED
    BY <1>4, <2>6, <2>7, <2>8 DEF Going
<1>8. Tallied'
    BY <1>5 DEF Tallied
<1> QED
    BY <1>6, <1>7, <1>8

\* One more command is one more "|", but for the first.
LEMMA CommandTallies == ASSUME Freed, Tallied, parse_command PROVE Tallied'
<1>n. PICK n : n = ArgCount(Tail(Found))
    OBVIOUS
<1>c. PICK c : c = [name |-> Found[1], args |-> SubSeq(Found, 2, n + 1)]
    OBVIOUS
<1>w. PICK w : w = Words(parsedCommands)
    OBVIOUS
<1>v. PICK v : v = Words(parsedCommands)'
    OBVIOUS
<1>L. PICK L : L = Len(parsedCommands)
    OBVIOUS
<1>1. parsedCommands \in Seq(Parsed) /\ L \in Nat
    BY <1>L DEF Freed, ShellTypes
<1>2. Named(Found) /\ parsedCommands' = Append(parsedCommands, c)
    BY <1>n, <1>c DEF parse_command, Found
<1>3. /\ n \in Nat /\ c \in Parsed /\ Len(c.args) = n /\ \A i \in 1..n : c.args[i] # "|"
    BY <1>2, <1>n, <1>c, ParseFacts DEF Freed
<1>4. c.name # "|"
  <2>1. c.name \in Command
    BY <1>2, <1>c DEF Named
  <2> QED
    BY <2>1, ShellAssumption
<1>5. w \in Seq(Token) /\ v = WordsOf(w, c)
    BY <1>1, <1>2, <1>3, <1>w, <1>v, WordsFacts
<1>6. Len(parsedCommands') = L + 1
    BY <1>1, <1>2, <1>3, <1>L
<1>7. Cardinality(Bars(v)) = IF Len(w) = 0 THEN 0 ELSE Cardinality(Bars(w)) + 1
    BY <1>3, <1>4, <1>5, BarsGrow
<1>8. Len(v) # 0
  <2>1. /\ Len(Before(w)) \in Nat /\ Len(c.args) \in Nat
        /\ Len(WordsOf(w, c)) = Len(Before(w)) + 1 + Len(c.args)
    BY <1>3, <1>5, WordsOfFacts, Zenon
  <2>2. \A a, b \in Nat : a + 1 + b # 0
    OBVIOUS
  <2> QED
    BY <1>5, <2>1, <2>2
<1>9. Cardinality(Bars(v)) = L
  <2>1. CASE L = 0
    <3>1. w = <<>>
      BY <1>w, <1>L, <2>1 DEF Tallied
    <3>2. Len(w) = 0
      BY <3>1
    <3> QED
      BY <1>7, <2>1, <3>2
  <2>2. CASE L # 0
    <3>1. Len(w) # 0 /\ Cardinality(Bars(w)) = L - 1
      BY <1>w, <1>L, <2>2 DEF Tallied
    <3>2. Cardinality(Bars(v)) = (L - 1) + 1
      BY <1>7, <3>1
    <3> QED
      BY <1>1, <3>2
  <2> QED
    BY <2>1, <2>2
<1>10. L + 1 # 0 /\ L + 1 - 1 = L
    BY <1>1
<1>11. Len(parsedCommands') # 0 /\ Cardinality(Bars(v)) = Len(parsedCommands') - 1
  <2>1. PICK K : K = Len(parsedCommands')
    OBVIOUS
  <2>2. K = L + 1
    BY <1>6, <2>1
  <2>3. K # 0 /\ K - 1 = L
    BY <1>1, <2>2
  <2> QED
    BY <1>9, <2>1, <2>3
<1> QED
    BY <1>v, <1>8, <1>11 DEF Tallied

Parts == Reading /\ Tally /\ AllRead /\ Fitting /\ Ignored

LEMMA ReadUnderstood == Understood /\ readLine => Parts'
<1> SUFFICES ASSUME Understood, readLine PROVE Parts'
    OBVIOUS
<1>1. at = "prompt" /\ UNCHANGED <<parsedCommands, exhausted>>
    BY DEF readLine
<1>2. Len(parsedCommands) = 0 /\ ShellTypes
    BY <1>1 DEF Understood, Freed, Stored
<1>3. CASE UNCHANGED <<at, buffer, toks>>
    BY <1>1, <1>3 DEF Parts, Reading, Tally, AllRead, Fitting, Ignored
<1>4. CASE \E line \in Line : buffer' = line /\ toks' = strtok(line) /\ at' = "parse"
  <2>1. PICK q \in Line : buffer' = q /\ toks' = strtok(q) /\ at' = "parse"
    BY <1>4
  <2>2. Reading' /\ Tallied' /\ Len(toks') # 0 /\ toks'[1] = buffer'[1]
    BY <1>1, <1>2, <2>1, LineStarts
  <2>3. Tally' /\ AllRead' /\ Fitting'
    BY <2>1, <2>2 DEF Tally, AllRead, Fitting
  <2>4. Len(parsedCommands') = 0
    BY <1>1, <1>2
  <2>5. Ignored'
    BY <2>1, <2>2, <2>4 DEF Ignored
  <2> QED
    BY <2>2, <2>3, <2>5 DEF Parts
<1> QED
    BY <1>3, <1>4 DEF readLine

LEMMA ParseUnderstood == Understood /\ parse_command => Parts'
<1> SUFFICES ASSUME Understood, parse_command PROVE Parts'
    OBVIOUS
<1>1. at = "parse" /\ at' = "grow" /\ Named(Found) /\ UNCHANGED <<buffer, exhausted>>
    BY DEF parse_command, Found
<1>2. Freed /\ Reading /\ Tallied /\ Ignored /\ toks \in Seq(Token)
    BY <1>1 DEF Understood, Tally, Freed, ShellTypes
<1>3. Reading'
  <2> SUFFICES ASSUME Clear' PROVE Done' \/ \E k \in Nat : Going(k)'
    BY DEF Reading
  <2>1. Clear
    BY <1>1 DEF Clear
  <2>2. Done \/ \E m \in Nat : Going(m)
    BY <1>1, <1>2, <2>1 DEF Reading
  <2>3. ~Done
    <3> SUFFICES ASSUME Done PROVE FALSE
      OBVIOUS
    <3>1. Len(toks) = 0
      BY DEF Done
    <3>2. Found = toks /\ toks = <<>>
      <4>1. toks \in Seq(Token)
        BY <1>2
      <4>2. toks = <<>>
        BY <3>1, <4>1
      <4>3. SkipPipes(toks) = toks
        BY <3>1, <4>1, SkipFacts
      <4> QED
        BY <4>2, <4>3 DEF Found
    <3> QED
      BY <1>1, <3>2 DEF Named
  <2> QED
    BY <1>2, <2>1, <2>2, <2>3, CommandTakes
<1>4. Tally'
    BY <1>2, CommandTallies DEF Tally
<1>5. AllRead' /\ Fitting'
    BY <1>1 DEF AllRead, Fitting
<1>6. ~Strange
  <2> SUFFICES ASSUME Strange PROVE FALSE
    OBVIOUS
  <2>1. toks[1] = buffer[1] /\ Len(toks) # 0
    BY <1>1, <1>2 DEF Ignored
  <2>2. toks[1] \notin Command /\ toks[1] # "|"
    BY <2>1 DEF Strange
  <2>3. Found = toks
    BY <1>2, <2>2, SkipFacts DEF Found
  <2> QED
    BY <1>1, <2>2, <2>3 DEF Named
<1>7. Ignored'
    BY <1>1, <1>6 DEF Ignored, Strange
<1> QED
    BY <1>3, <1>4, <1>5, <1>7 DEF Parts

LEMMA FailUnderstood == Understood /\ parse_command_fails => Parts'
<1> SUFFICES ASSUME Understood, parse_command_fails PROVE Parts'
    OBVIOUS
<1>1. at = "parse" /\ at' = "run" /\ UNCHANGED <<buffer, parsedCommands>>
    BY DEF parse_command_fails
<1>2. Freed /\ Reading /\ Tallied /\ Ignored /\ ShellTypes
    BY <1>1 DEF Understood, Tally, Freed
<1>3. AllRead'
  <2> SUFFICES ASSUME Clear' PROVE Words(parsedCommands) = buffer
    BY <1>1 DEF AllRead
  <2>1. ~Named(Found) /\ exhausted' = exhausted
    BY DEF parse_command_fails, Found, Clear
  <2>2. Clear
    BY <1>1, <2>1 DEF Clear
  <2>3. ASSUME NEW m \in Nat, Going(m) PROVE FALSE
    BY <1>2, <2>1, <2>2, <2>3, NextIsNamed
  <2> QED
    BY <1>1, <1>2, <2>2, <2>3 DEF Reading, Done
<1>4. Tally'
    BY <1>1, <1>2 DEF Tally, Tallied
<1>5. Reading' /\ Fitting'
    BY <1>1 DEF Reading, Fitting
<1>6. Ignored'
    BY <1>1, <1>2 DEF Ignored, Strange
<1> QED
    BY <1>3, <1>4, <1>5, <1>6 DEF Parts

LEMMA GrowUnderstood == Understood /\ growParsedCommands => Parts'
<1> SUFFICES ASSUME Understood, growParsedCommands PROVE Parts'
    OBVIOUS
<1>1. /\ at = "grow" /\ UNCHANGED <<buffer, toks, exhausted>>
      /\ (at' = "parse" /\ UNCHANGED parsedCommands) \/ at' = "returned"
    BY DEF growParsedCommands
<1>2. Reading /\ Tallied /\ ~Strange
    BY <1>1 DEF Understood, Tally, Ignored
<1>3. Ignored'
    BY <1>1, <1>2 DEF Ignored, Strange
<1>4. Tally'
    BY <1>1, <1>2 DEF Tally, Tallied
<1>5. Reading'
  <2>1. CASE at' = "returned"
    BY <2>1 DEF Reading
  <2>2. CASE at' = "parse" /\ UNCHANGED parsedCommands
    <3> SUFFICES ASSUME Clear' PROVE Done' \/ \E k \in Nat : Going(k)'
      BY DEF Reading
    <3>1. Clear
      BY <1>1 DEF Clear
    <3>2. Done \/ \E m \in Nat : Going(m)
      BY <1>1, <1>2, <3>1 DEF Reading
    <3>3. Done => Done'
      BY <1>1, <2>2 DEF Done
    <3>4. ASSUME NEW m \in Nat, Going(m) PROVE Going(m)'
      BY <1>1, <2>2, <3>4 DEF Going
    <3> QED
      BY <3>2, <3>3, <3>4
  <2> QED
    BY <1>1, <2>1, <2>2
<1>6. AllRead' /\ Fitting'
    BY <1>1 DEF AllRead, Fitting
<1> QED
    BY <1>3, <1>4, <1>5, <1>6 DEF Parts

\* What a line that was read is run as.
LEMMA CountFits ==
    ASSUME Understood, at = "run", Clear
    PROVE  Len(parsedCommands) \in Nat \ {0} /\ Cardinality(Bars(buffer)) = Len(parsedCommands) - 1
<1>1. Words(parsedCommands) = buffer /\ Tallied /\ Len(buffer) # 0 /\ parsedCommands \in Seq(Parsed)
    BY DEF Understood, AllRead, Tally, Freed, ShellTypes
<1>2. Len(parsedCommands) # 0
  <2> SUFFICES ASSUME Len(parsedCommands) = 0 PROVE FALSE
    OBVIOUS
  <2>1. buffer = <<>>
    BY <1>1 DEF Tallied
  <2> QED
    BY <1>1, <2>1
<1>3. Len(parsedCommands) \in Nat
    BY <1>1
<1> QED
    BY <1>1, <1>2, <1>3 DEF Tallied

LEMMA KindFits ==
    ASSUME NEW cs \in Seq(Parsed), Len(cs) \in Nat \ {0}
    PROVE  Suits(KindOf(cs), Len(cs) - 1)
<1>L. PICK L : L = Len(cs)
    OBVIOUS
<1>k. PICK k : k = KindOf(cs)
    OBVIOUS
<1>1. /\ L \in Nat \ {0} /\ (L = 1 => k \in {"builtin", "command"})
      /\ (L = 2 => k \in {"refused", "pipeline"}) /\ (L > 2 => k = "refused")
    BY <1>L, <1>k, KindFacts
<1>2. \A n \in Nat \ {0} : /\ n - 1 = 0 <=> n = 1
                           /\ n - 1 = 1 <=> n = 2
                           /\ n # 1 /\ n # 2 => n > 2
    OBVIOUS
<1>3. Suits(k, L - 1)
  <2>1. CASE L = 1
    BY <1>1, <2>1 DEF Suits
  <2>2. CASE L = 2
    BY <1>1, <2>2 DEF Suits
  <2>3. CASE L # 1 /\ L # 2
    <3>1. L - 1 # 0 /\ L - 1 # 1 /\ k = "refused"
      BY <1>1, <1>2, <2>3
    <3> PICK p : p = L - 1
      OBVIOUS
    <3>2. p # 0 /\ p # 1
      BY <3>1
    <3>3. Suits(k, p)
      BY <3>1, <3>2 DEF Suits
    <3> QED
      BY <3>3
  <2> QED
    BY <2>1, <2>2, <2>3
<1> QED
    BY <1>3, <1>L, <1>k

LEMMA DispatchUnderstood == Understood /\ dispatch => Parts'
<1> SUFFICES ASSUME Understood, dispatch PROVE Parts'
    OBVIOUS
<1>1. /\ at = "run" /\ at' = "free" /\ UNCHANGED <<buffer, exhausted>>
      /\ ran' = [kind |-> KindOf(parsedCommands), commands |-> LeftOf(parsedCommands),
                 background |-> MarksOf(parsedCommands) # {}]
    BY DispatchIs
<1>2. parsedCommands \in Seq(Parsed)
    BY DEF Understood, Freed, ShellTypes
<1>3. Fitting'
  <2> SUFFICES ASSUME Clear PROVE Suits(ran'.kind, Cardinality(Bars(buffer)))
    BY <1>1 DEF Fitting, Clear
  <2>1. Len(parsedCommands) \in Nat \ {0} /\ Cardinality(Bars(buffer)) = Len(parsedCommands) - 1
    BY <1>1, CountFits
  <2>2. ran'.kind = KindOf(parsedCommands)
    BY <1>1
  <2> QED
    BY <1>2, <2>1, <2>2, KindFits
<1>4. Ignored'
  <2> SUFFICES ASSUME Strange PROVE ran' = Nothing
    BY <1>1 DEF Ignored, Strange
  <2>1. Len(parsedCommands) = 0
    BY <1>1 DEF Understood, Ignored
  <2>2. KindOf(parsedCommands) = "nothing"
    BY <1>2, <2>1, KindFacts
  <2>3. MarksOf(parsedCommands) = {}
    BY <2>2 DEF MarksOf
  <2>4. LeftOf(parsedCommands) = <<>>
    <3>1. LeftOf(parsedCommands) \in Seq(Parsed) /\ Len(LeftOf(parsedCommands)) = 0
      BY <1>2, <2>1, LeftFacts
    <3> QED
      BY <3>1
  <2>5. (MarksOf(parsedCommands) # {}) = FALSE
    BY <2>3
  <2> QED
    BY <1>1, <2>2, <2>4, <2>5 DEF Nothing
<1>5. Reading' /\ Tally' /\ AllRead'
    BY <1>1 DEF Reading, Tally, AllRead
<1> QED
    BY <1>3, <1>4, <1>5 DEF Parts

LEMMA NoPipeUnderstood == Understood /\ dispatch_noPipe => Parts'
<1> SUFFICES ASSUME Understood, dispatch_noPipe PROVE Parts'
    OBVIOUS
<1>1. /\ at = "run" /\ at' = "free" /\ UNCHANGED <<buffer, exhausted>> /\ Len(parsedCommands) = 2
      /\ ran' = [kind |-> "failed", commands |-> parsedCommands, background |-> FALSE]
    BY DEF dispatch_noPipe
<1>2. Fitting'
  <2> SUFFICES ASSUME Clear PROVE Suits(ran'.kind, Cardinality(Bars(buffer)))
    BY <1>1 DEF Fitting, Clear
  <2>1. Cardinality(Bars(buffer)) = 1
    <3>1. Cardinality(Bars(buffer)) = 2 - 1
      BY <1>1, CountFits
    <3> QED
      BY <3>1
  <2>2. ran'.kind = "failed"
    BY <1>1
  <2>3. Suits("failed", 1)
    BY DEF Suits
  <2> QED
    BY <2>1, <2>2, <2>3
<1>3. Ignored'
  <2>1. ~Strange
    <3>1. Strange => Len(parsedCommands) = 0
      BY <1>1 DEF Understood, Ignored
    <3>2. 0 # 2
      OBVIOUS
    <3> QED
      BY <1>1, <3>1, <3>2
  <2> QED
    BY <1>1, <2>1 DEF Ignored, Strange
<1>4. Reading' /\ Tally' /\ AllRead'
    BY <1>1 DEF Reading, Tally, AllRead
<1> QED
    BY <1>2, <1>3, <1>4 DEF Parts

LEMMA UnderstoodStep == Understood /\ [ShellNext]_shellVars => Understood'
<1> SUFFICES ASSUME Understood, [ShellNext]_shellVars PROVE Understood'
    OBVIOUS
<1>1. Freed'
    BY FreedStep DEF Understood
<1>2. CASE UNCHANGED shellVars
  <2>1. /\ UNCHANGED <<at, buffer, toks, parsedCommands, exhausted, ran>>
    BY <1>2 DEF shellVars
  <2>2. Reading'
    <3> SUFFICES ASSUME Reading PROVE Reading'
      BY DEF Understood
    <3>1. Done => Done'
      BY <2>1 DEF Done
    <3>2. ASSUME NEW m \in Nat, Going(m) PROVE Going(m)'
      BY <2>1, <3>2 DEF Going
    <3>3. Clear' => Clear
      BY <2>1 DEF Clear
    <3> QED
      BY <2>1, <3>1, <3>2, <3>3 DEF Reading
  <2>3. Tally' /\ AllRead'
    BY <2>1 DEF Understood, Tally, Tallied, AllRead, Clear
  <2>4. Fitting'
    BY <2>1 DEF Understood, Fitting, Clear
  <2>5. Ignored'
    BY <2>1 DEF Understood, Ignored, Strange
  <2> QED
    BY <1>1, <2>2, <2>3, <2>4, <2>5 DEF Understood
<1>3. CASE freeArguments
  <2>1. at' = "prompt"
    BY <1>3 DEF freeArguments
  <2>2. Parts'
    BY <2>1 DEF Parts, Reading, Tally, AllRead, Fitting, Ignored
  <2> QED
    BY <1>1, <2>2 DEF Understood, Parts
<1>4. CASE ShellNext /\ ~freeArguments
  <2>1. Parts'
    BY <1>4, ReadUnderstood, ParseUnderstood, FailUnderstood, GrowUnderstood, DispatchUnderstood,
       NoPipeUnderstood DEF ShellNext
  <2> QED
    BY <1>1, <2>1 DEF Understood, Parts
<1> QED
    BY <1>2, <1>3, <1>4

\* For any table of commands and any lines: a well-formed line is split into
\* exactly the words typed and run as what it is, unless memory runs out, and a
\* line that begins with no command runs nothing (LinesAreUnderstood; strtok,
\* parse_command and the loop of main in shell.c).
THEOREM ShellUnderstandsLines == ShellSpec => []LinesAreUnderstood
<1>1. ShellInit => Understood
  <2> SUFFICES ASSUME ShellInit PROVE Understood
    OBVIOUS
  <2>1. Freed
    BY ShellStart
  <2>2. at \in {"prompt", "returned"}
    BY DEF ShellInit
  <2>3. Parts
    BY <2>2 DEF Parts, Reading, Tally, AllRead, Fitting, Ignored
  <2> QED
    BY <2>1, <2>3 DEF Understood, Parts
<1>2. Understood => LinesAreUnderstood
  <2> SUFFICES ASSUME Understood PROVE LinesAreUnderstood
    OBVIOUS
  <2>1. at = "run" /\ Clear => Words(parsedCommands) = buffer
    BY DEF Understood, AllRead
  <2>2. at = "free" /\ Clear => Suits(ran.kind, Cardinality(Bars(buffer)))
    BY DEF Understood, Fitting
  <2>3. at = "free" /\ Strange => ran = Nothing
    BY DEF Understood, Ignored
  <2> QED
    BY <2>1, <2>2, <2>3 DEF LinesAreUnderstood, Clear, Suits, Bars, Strange
<1> QED
    BY <1>1, <1>2, UnderstoodStep, PTL DEF ShellSpec

-----------------------------------------------------------------------------
(* Interrupts and system calls.                                             *)

\* Each call's number leads to the handler of its name, with its arguments.
LEMMA Dispatched ==
    \A s \in Stub : s[2] \in Nat /\ syscallDispatcher(s[2]) = <<s[1], Arity(s[1])>> /\ Arity(s[1]) \in 0..6
BY SMTT(120) DEF Stub, syscallDispatcher, Arity, Handlers

\* popState takes the registers in the reverse order of pushState.
LEMMA OrderFacts ==
    /\ \A i \in 1..15 : PopOrder[i] = PushOrder[16 - i]
    /\ \A i, j \in 1..15 : PopOrder[i] = PopOrder[j] => i = j
    /\ Reg = {PushOrder[i] : i \in 1..15}
<1>1. \A i \in 1..15 : PopOrder[i] = PushOrder[16 - i]
    BY DEF PopOrder, PushOrder
<1>2. \A i, j \in 1..15 : PopOrder[i] = PopOrder[j] => i = j
    BY SMTT(60) DEF PopOrder
<1>3. Reg = {PushOrder[i] : i \in 1..15}
    BY DEF Reg, PushOrder, Range
<1> QED
    BY <1>1, <1>2, <1>3

LEMMA SomeRegs ==
    {"rax", "rcx", "rdx", "rbp", "rdi", "rsi", "r8", "r12", "r13"} \subseteq Reg
BY DEF Reg, PushOrder, Range

Regs == [Reg -> Nat]
Ctx == [regs : Regs, rip : Nat, enabled : BOOLEAN]

\* The words of a stack that hold registers, from the place d on.
RegWords(S, d, r) == \A j \in 1..15 : S[d + j] = r[PushOrder[j]]

LEMMA PopAt ==
    ASSUME NEW S \in Seq(Nat), NEW j \in 1..15
    PROVE  popState(S)[PushOrder[j]] = S[Len(S) - 15 + j]
<1> PICK k : k = 16 - j
    OBVIOUS
<1>1. k \in 1..15 /\ 16 - k = j
    OBVIOUS
<1>2. PopOrder[k] = PushOrder[j] /\ PushOrder[j] \in Reg
    BY <1>1, OrderFacts
<1>3. (CHOOSE i \in 1..15 : PopOrder[i] = PushOrder[j]) = k
    BY <1>1, <1>2, OrderFacts
<1>4. popState(S)[PushOrder[j]] = S[Len(S) + 1 - k]
    BY <1>2, <1>3 DEF popState
<1>5. Len(S) + 1 - k = Len(S) - 15 + j
    OBVIOUS
<1> QED
    BY <1>4, <1>5

LEMMA PopIs ==
    ASSUME NEW S \in Seq(Nat), NEW r \in Regs, RegWords(S, Len(S) - 15, r)
    PROVE  popState(S) = r
<1>1. ASSUME NEW x \in Reg PROVE popState(S)[x] = r[x]
  <2>1. PICK j \in 1..15 : x = PushOrder[j]
    BY OrderFacts
  <2>2. popState(S)[PushOrder[j]] = S[Len(S) - 15 + j]
    BY PopAt
  <2> QED
    BY <2>1, <2>2 DEF RegWords
<1>2. popState(S) = [x \in Reg |-> popState(S)[x]] /\ r = [x \in Reg |-> r[x]]
  <2>1. popState(S) = [x \in Reg |-> popState(S)[x]]
    BY DEF popState
  <2>2. r = [x \in Reg |-> r[x]]
    BY Zenon DEF Regs
  <2> QED
    BY <2>1, <2>2
<1>3. [x \in Reg |-> popState(S)[x]] = [x \in Reg |-> r[x]]
    BY <1>1
<1> QED
    BY <1>2, <1>3

\* The words that an interrupt and pushState leave.
LEMMA FlagsFacts ==
    ASSUME NEW b \in BOOLEAN
    PROVE  Flags(b) \in Nat /\ (Flags(b) = Flags(TRUE)) = b
<1>1. Flags(b) \in Nat
    BY DEF Flags
<1>2. Flags(b) = Flags(TRUE) <=> b
    BY DEF Flags
<1> QED
    BY <1>1, <1>2

TrapWords(S, d, c) == S[d + 2] = d /\ S[d + 3] = Flags(c.enabled) /\ S[d + 5] = c.rip
LEMMA InterruptFacts ==
    ASSUME NEW S \in Seq(Nat), NEW c \in Ctx
    PROVE  LET L == Len(S)
               T == Interrupt(S, c.rip, c.enabled) IN
           /\ L \in Nat /\ T \in Seq(Nat) /\ Len(T) = L + 5
           /\ (\A i \in 1..L : T[i] = S[i]) /\ TrapWords(T, L, c)
<1> PICK L : L = Len(S)
    OBVIOUS
<1> PICK T : T = Interrupt(S, c.rip, c.enabled)
    OBVIOUS
<1>1. c.rip \in Nat /\ Flags(c.enabled) \in Nat /\ L \in Nat
  <2>1. c.rip \in Nat /\ c.enabled \in BOOLEAN
    BY DEF Ctx
  <2>2. L \in Nat
    OBVIOUS
  <2>3. Flags(c.enabled) \in Nat
    BY <2>1, FlagsFacts, Zenon
  <2> QED
    BY <2>1, <2>2, <2>3
<1> PICK e : e = <<0, L, Flags(c.enabled), 8, c.rip>>
    OBVIOUS
<1>2. e \in Seq(Nat) /\ Len(e) = 5 /\ e[2] = L /\ e[3] = Flags(c.enabled) /\ e[5] = c.rip
    BY <1>1
<1>3. T = S \o e
    BY DEF Interrupt
<1>4. T \in Seq(Nat) /\ Len(T) = L + 5
    BY <1>2, <1>3, JoinedSeq
<1>5. (\A i \in 1..L : T[i] = S[i]) /\ \A i \in 1..5 : T[L + i] = e[i]
    BY <1>2, <1>3, JoinedAt, SMTT(40)
<1>6. 2 \in 1..5 /\ 3 \in 1..5 /\ 5 \in 1..5
    OBVIOUS
<1>7. TrapWords(T, L, c)
    BY <1>2, <1>5, <1>6 DEF TrapWords
<1> QED
    BY <1>1, <1>4, <1>5, <1>7

LEMMA FcnSeq == ASSUME NEW S, NEW m \in Nat, NEW q \in [1..m -> S] PROVE q \in Seq(S) /\ Len(q) = m
OBVIOUS

LEMMA PushFacts ==
    ASSUME NEW S \in Seq(Nat), NEW r \in Regs
    PROVE  LET L == Len(S)
               T == pushState(S, r) IN
           /\ L \in Nat /\ T \in Seq(Nat) /\ Len(T) = L + 15
           /\ (\A i \in 1..L : T[i] = S[i]) /\ RegWords(T, L, r)
<1> PICK L : L = Len(S)
    OBVIOUS
<1> PICK T : T = pushState(S, r)
    OBVIOUS
<1>e. PICK e : e = [i \in 1..15 |-> r[PushOrder[i]]]
    OBVIOUS
<1>1. \A i \in 1..15 : r[PushOrder[i]] \in Nat
    BY OrderFacts DEF Regs
<1>2. e \in [1..15 -> Nat] /\ 15 \in Nat
    BY <1>e, <1>1
<1>3. e \in Seq(Nat) /\ Len(e) = 15
    BY <1>2, FcnSeq, ZenonT(40)
<1>4. T = S \o e
    BY <1>e DEF pushState
<1>5. L \in Nat /\ T \in Seq(Nat) /\ Len(T) = L + 15
  <2>1. L \in Nat
    OBVIOUS
  <2>2. S \o e \in Seq(Nat) /\ Len(S \o e) = Len(S) + Len(e)
    BY <1>3, JoinedSeq, Zenon
  <2> QED
    BY <1>3, <1>4, <2>1, <2>2, Zenon
<1>6. (\A i \in 1..L : T[i] = S[i]) /\ \A i \in 1..15 : T[L + i] = e[i]
  <2>1. \A q, x \in Seq(Nat) : /\ \A i \in 1..Len(q) : (q \o x)[i] = q[i]
                               /\ \A i \in 1..Len(x) : (q \o x)[Len(q) + i] = x[i]
    BY JoinedAt
  <2>2. /\ \A i \in 1..Len(S) : (S \o e)[i] = S[i]
        /\ \A i \in 1..Len(e) : (S \o e)[Len(S) + i] = e[i]
    BY <1>3, <2>1
  <2> QED
    BY <1>3, <1>4, <2>2
<1> QED
    BY <1>e, <1>5, <1>6 DEF RegWords

\* The levels of a process: what it has been interrupted in, the outermost first
\* and what it does now last.  The first is its program: where it is, and the d
\* words of its stack.
Program(p, S, c, d) ==
    \/ p = 0 /\ c.rip = MAIN /\ d = 0
    \/ /\ p # 0 /\ c.rip = _process_wrapper /\ d = 0
       /\ c.regs["rcx"] = argc(p) /\ c.regs["r8"] = argv(p)
       /\ c.regs["rdx"] = entry_point(p) /\ c.regs["rbp"] = process_terminator
    \/ /\ p # 0 /\ c.rip = entry_point(p) /\ d = 1 /\ S[1] = WRAPPER_RET
       /\ c.regs["rcx"] = argc(p) /\ c.regs["r8"] = argv(p) /\ c.regs["r13"] = process_terminator
    \/ /\ p # 0 /\ c.rip = COMMAND /\ d = 2 /\ S[1] = WRAPPER_RET /\ S[2] = ENTRY_RET
       /\ c.regs["r13"] = process_terminator
    \/ p # 0 /\ c.rip = ENTRY_RET /\ d = 1 /\ S[1] = WRAPPER_RET /\ c.regs["r13"] = process_terminator
    \/ p # 0 /\ c.rip = WRAPPER_RET /\ d = 0 /\ c.regs["r13"] = process_terminator
    \/ p \notin {0, 1} /\ c.rip = process_terminator /\ d = 1
    \/ /\ p # 0 /\ c.rip = STUB_RET /\ d = 4 /\ S[1] = WRAPPER_RET /\ S[2] = ENTRY_RET /\ S[3] = COMMAND
       /\ c.regs["rbp"] = 4 /\ c.regs["r13"] = process_terminator

\* The frames below: of the timer, of the keyboard, of the system call a.
TimerFrame(S, d, c) == TrapWords(S, d, c) /\ RegWords(S, d + 5, c.regs)
KeyFrame(S, d, c) == TrapWords(S, d, c) /\ RegWords(S, d + 6, c.regs)
CallFrame(p, a, S, d, c) ==
    /\ TrapWords(S, d, c)
    /\ \E s \in Stub : a.name = s[1] /\ S[d + 6] = s[2]
    /\ \A j \in 2..15 : S[d + 5 + j] = c.regs[PushOrder[j]]
    /\ c.regs["rax"] = Result(p)
    /\ a.args = [i \in 1..Arity(a.name) |-> c.regs[ArgRegs[i]]]

\* The k-th level, and its place on the stack.
Deep(d, k) == d + 21 * (k - 1)
Level(p, a, S, cs, d, k) ==
    \/ cs[k].rip = KERNEL01 /\ KeyFrame(S, Deep(d, k - 1), cs[k - 1])
    \/ k = 2 /\ cs[2].rip = KERNEL80 /\ cs[1].rip = STUB_RET /\ CallFrame(p, a, S, d, cs[1])
Laid(p, a, S, cs, d) ==
    /\ cs \in Seq(Ctx) /\ Len(cs) # 0 /\ Program(p, S, cs[1], d)
    /\ \A k \in 2..Len(cs) : Level(p, a, S, cs, d, k)

OnCpu(p, a, S, cs, c) == \E d \in 0..4 : Laid(p, a, S, Append(cs, c), d) /\ Len(S) = Deep(d, Len(cs) + 1)
Parked(p, a, S, cs) ==
    \E d \in 0..4 : /\ Laid(p, a, S, cs, d) /\ Len(S) = Deep(d, Len(cs)) + 20
                    /\ TimerFrame(S, Deep(d, Len(cs)), cs[Len(cs)])

LEMMA DeepFacts ==
    \A d \in 0..4 : /\ Deep(d, 1) = d
                    /\ \A n \in Nat : Deep(d, n + 1) = d + 21 * n /\ Deep(d, n + 1) \in Nat
                    /\ \A n \in Nat \ {0} : Deep(d, n) \in Nat /\ Deep(d, n + 1) = Deep(d, n) + 21 /\ d <= Deep(d, n)
                    /\ \A n \in Nat : \A k \in 2..n : Deep(d, k - 1) + 21 <= Deep(d, n) /\ Deep(d, k - 1) \in Nat
<1> SUFFICES ASSUME NEW d \in 0..4
             PROVE  /\ Deep(d, 1) = d
                    /\ \A n \in Nat : Deep(d, n + 1) = d + 21 * n /\ Deep(d, n + 1) \in Nat
                    /\ \A n \in Nat \ {0} : Deep(d, n) \in Nat /\ Deep(d, n + 1) = Deep(d, n) + 21 /\ d <= Deep(d, n)
                    /\ \A n \in Nat : \A k \in 2..n : Deep(d, k - 1) + 21 <= Deep(d, n) /\ Deep(d, k - 1) \in Nat
    OBVIOUS
<1>1. Deep(d, 1) = d
    BY DEF Deep
<1>2. \A n \in Nat : Deep(d, n + 1) = d + 21 * n /\ Deep(d, n + 1) \in Nat
    BY DEF Deep
<1>3. \A n \in Nat \ {0} : Deep(d, n) \in Nat /\ Deep(d, n + 1) = Deep(d, n) + 21 /\ d <= Deep(d, n)
    BY DEF Deep
<1>4. \A n \in Nat : \A k \in 2..n : Deep(d, k - 1) + 21 <= Deep(d, n) /\ Deep(d, k - 1) \in Nat
    BY DEF Deep
<1> QED
    BY <1>1, <1>2, <1>3, <1>4

\* The levels are where they are, whatever is above them.
LEMMA FrameAgrees ==
    ASSUME NEW S, NEW T, NEW e \in Nat, NEW n \in Nat, e + 21 <= n, \A i \in 1..n : T[i] = S[i], NEW c, NEW p, NEW a
    PROVE  /\ KeyFrame(S, e, c) => KeyFrame(T, e, c)
           /\ CallFrame(p, a, S, e, c) => CallFrame(p, a, T, e, c)
<1>1. \A i \in 1..21 : e + i \in 1..n
    OBVIOUS
<1>2. \A i \in 1..21 : T[e + i] = S[e + i]
    BY <1>1
<1>3. T[e + 2] = S[e + 2] /\ T[e + 3] = S[e + 3] /\ T[e + 5] = S[e + 5] /\ T[e + 6] = S[e + 6]
    BY <1>2
<1>4. TrapWords(S, e, c) => TrapWords(T, e, c)
    BY <1>3 DEF TrapWords
<1>5. \A j \in 1..15 : 5 + j \in 1..21 /\ 6 + j \in 1..21 /\ e + 5 + j = e + (5 + j) /\ e + 6 + j = e + (6 + j)
    OBVIOUS
<1>6. \A j \in 1..15 : T[e + 5 + j] = S[e + 5 + j] /\ T[e + 6 + j] = S[e + 6 + j]
    BY <1>2, <1>5
<1>7. RegWords(S, e + 6, c.regs) => RegWords(T, e + 6, c.regs)
    BY <1>6 DEF RegWords
<1>8. \A j \in 2..15 : j \in 1..15
    OBVIOUS
<1>9. ASSUME CallFrame(p, a, S, e, c) PROVE CallFrame(p, a, T, e, c)
  <2>1. \A j \in 2..15 : T[e + 5 + j] = c.regs[PushOrder[j]]
    BY <1>6, <1>8, <1>9 DEF CallFrame
  <2>2. TrapWords(T, e, c) /\ \E s \in Stub : a.name = s[1] /\ T[e + 6] = s[2]
    BY <1>3, <1>4, <1>9 DEF CallFrame
  <2> QED
    BY <1>9, <2>1, <2>2 DEF CallFrame
<1> QED
    BY <1>4, <1>7, <1>9 DEF KeyFrame

LEMMA LaidAgrees ==
    ASSUME NEW p, NEW a, NEW S, NEW T, NEW cs, NEW d \in 0..4, Laid(p, a, S, cs, d),
           \A i \in 1..Deep(d, Len(cs)) : T[i] = S[i]
    PROVE  Laid(p, a, T, cs, d)
<1>n. PICK n : n = Len(cs)
    OBVIOUS
<1>D. PICK D : D = Deep(d, n)
    OBVIOUS
<1>1. cs \in Seq(Ctx) /\ n \in Nat \ {0} /\ Program(p, S, cs[1], d) /\ \A k \in 2..n : Level(p, a, S, cs, d, k)
    BY <1>n DEF Laid
<1>2. D \in Nat /\ d <= D /\ \A i \in 1..D : T[i] = S[i]
    BY <1>n, <1>D, <1>1, DeepFacts
<1>3. \A i \in 1..d : T[i] = S[i]
  <2>1. \A i \in 1..d : i \in 1..D
    BY <1>2
  <2> QED
    BY <1>2, <2>1
<1>4. Program(p, T, cs[1], d)
  <2>1. (d = 1 => T[1] = S[1]) /\ (d = 2 => T[1] = S[1] /\ T[2] = S[2])
        /\ (d = 4 => T[1] = S[1] /\ T[2] = S[2] /\ T[3] = S[3])
    BY <1>3
  <2> QED
    BY <1>1, <2>1 DEF Program
<1>5. ASSUME NEW k \in 2..n PROVE Level(p, a, T, cs, d, k)
  <2>1. Deep(d, k - 1) \in Nat /\ Deep(d, k - 1) + 21 <= D
    BY <1>D, <1>1, DeepFacts
  <2>2. CASE cs[k].rip = KERNEL01 /\ KeyFrame(S, Deep(d, k - 1), cs[k - 1])
    <3>1. KeyFrame(T, Deep(d, k - 1), cs[k - 1])
      BY <1>2, <2>1, <2>2, FrameAgrees
    <3> QED
      BY <2>2, <3>1 DEF Level
  <2>3. CASE k = 2 /\ cs[2].rip = KERNEL80 /\ cs[1].rip = STUB_RET /\ CallFrame(p, a, S, d, cs[1])
    <3>1. d \in Nat /\ d + 21 <= D
      <4>1. Deep(d, 2 - 1) = d
        BY DEF Deep
      <4> QED
        BY <2>1, <2>3, <4>1
    <3>2. CallFrame(p, a, T, d, cs[1])
      BY <1>2, <2>3, <3>1, FrameAgrees
    <3> QED
      BY <2>3, <3>2 DEF Level
  <2> QED
    BY <1>1, <2>2, <2>3 DEF Level
<1> QED
    BY <1>n, <1>1, <1>4, <1>5 DEF Laid

LEMMA PrefixFacts ==
    ASSUME NEW S, NEW q \in Seq(S), NEW b \in Nat, b <= Len(q)
    PROVE  /\ SubSeq(q, 1, b) \in Seq(S) /\ Len(SubSeq(q, 1, b)) = b
           /\ \A i \in 1..b : SubSeq(q, 1, b)[i] = q[i]
<1>r. PICK r : r = SubSeq(q, 1, b)
    OBVIOUS
<1>0. 1 \in Nat \ {0}
    OBVIOUS
<1>1. /\ r \in Seq(S) /\ Len(r) = IF 1 <= b THEN b - 1 + 1 ELSE 0
      /\ \A i \in Nat : 1 <= i /\ i <= b - 1 + 1 => r[i] = q[1 + i - 1]
    BY <1>r, <1>0, PartFacts
<1>2. Len(r) = b
  <2>1. \A x \in Nat : x = IF 1 <= x THEN x - 1 + 1 ELSE 0
    OBVIOUS
  <2> QED
    BY <1>1, <2>1
<1>3. \A i \in 1..b : i \in Nat /\ 1 <= i /\ i <= b - 1 + 1 /\ 1 + i - 1 = i
    OBVIOUS
<1>4. \A i \in 1..b : r[i] = q[i]
    BY <1>1, <1>3
<1> QED
    BY <1>r, <1>1, <1>2, <1>4

LEMMA FrontFacts ==
    ASSUME NEW S, NEW q \in Seq(S), Len(q) # 0
    PROVE  /\ Front(q) \in Seq(S) /\ Len(Front(q)) = Len(q) - 1 /\ Len(q) - 1 \in Nat
           /\ \A i \in 1..(Len(q) - 1) : Front(q)[i] = q[i]
           /\ Last(q) = q[Len(q)] /\ q[Len(q)] \in S
           /\ Append(Front(q), q[Len(q)]) = q
<1>L. PICK L : L = Len(q)
    OBVIOUS
<1>b. PICK b : b = L - 1
    OBVIOUS
<1>0. L \in Nat
    BY <1>L
<1>1. b \in Nat /\ b <= L /\ L = b + 1 /\ L \in 1..L
    BY <1>0, <1>L, <1>b
<1>f. PICK f : f = Front(q)
    OBVIOUS
<1>2. f = SubSeq(q, 1, b)
    BY <1>f, <1>b, <1>L DEF Front
<1>3. f \in Seq(S) /\ Len(f) = b /\ \A i \in 1..b : f[i] = q[i]
    BY <1>1, <1>2, <1>L, PrefixFacts
<1>4. q[L] \in S /\ Last(q) = q[L]
    BY <1>1, <1>L DEF Last
<1>g. PICK g : g = Append(f, q[L])
    OBVIOUS
<1>5. g \in Seq(S) /\ Len(g) = b + 1 /\ g[b + 1] = q[L] /\ \A i \in 1..b : g[i] = f[i]
    BY <1>g, <1>3, <1>4
<1>6. \A i \in 1..(b + 1) : i \in 1..b \/ i = b + 1
    BY <1>1
<1>7. g = q
  <2>1. Len(g) = Len(q) /\ \A i \in 1..Len(g) : g[i] = q[i]
    BY <1>1, <1>3, <1>5, <1>6, <1>L
  <2> QED
    BY <1>5, <2>1, SameSeq
<1> QED
    BY <1>b, <1>f, <1>g, <1>L, <1>1, <1>3, <1>4, <1>7

LEMMA AppendFacts ==
    ASSUME NEW S, NEW q \in Seq(S), NEW c \in S, NEW n, n = Len(q)
    PROVE  /\ n \in Nat /\ Append(q, c) \in Seq(S) /\ Len(Append(q, c)) = n + 1 /\ Append(q, c)[n + 1] = c
           /\ \A i \in 1..n : Append(q, c)[i] = q[i]
<1>1. n \in Nat
    OBVIOUS
<1> QED
    BY <1>1

\* iretq at the end of a frame: the level below goes on.
LEMMA ReturnFacts ==
    ASSUME NEW p, NEW a, NEW stk \in Seq(Nat), NEW cs, NEW d \in 0..4, Laid(p, a, stk, cs, d),
           Len(stk) = Deep(d, Len(cs)) + 5, TrapWords(stk, Deep(d, Len(cs)), cs[Len(cs)])
    PROVE  LET n == Len(cs)
               c == cs[n]
               U == SubSeq(stk, 1, stk[Len(stk) - 3]) IN
           /\ cs \in Seq(Ctx) /\ n # 0 /\ Last(cs) = c /\ c \in Ctx /\ Front(cs) \in Seq(Ctx)
           /\ Last(stk) = c.rip /\ (stk[Len(stk) - 2] = Flags(TRUE)) = c.enabled
           /\ U \in Seq(Nat) /\ OnCpu(p, a, U, Front(cs), c)
<1> PICK n : n = Len(cs)
    OBVIOUS
<1> PICK c : c = cs[n]
    OBVIOUS
<1> PICK U : U = SubSeq(stk, 1, stk[Len(stk) - 3])
    OBVIOUS
<1>0. Len(stk) = Deep(d, n) + 5 /\ TrapWords(stk, Deep(d, n), c)
    BY Zenon
<1>1. cs \in Seq(Ctx) /\ n \in Nat \ {0}
  <2>1. cs \in Seq(Ctx) /\ n # 0
    BY DEF Laid
  <2>2. n \in Nat
    BY <2>1
  <2> QED
    BY <2>1, <2>2
<1>2. /\ Last(cs) = c /\ c \in Ctx /\ Front(cs) \in Seq(Ctx) /\ Len(Front(cs)) = n - 1 /\ n - 1 \in Nat
      /\ Append(Front(cs), c) = cs
    BY <1>1, FrontFacts
<1>E. PICK E : E = Deep(d, n)
    OBVIOUS
<1>3. E \in Nat /\ Len(stk) = E + 5
    BY <1>0, <1>E, <1>1, DeepFacts
<1>4. E + 5 - 3 = E + 2 /\ E + 5 - 2 = E + 3 /\ E + 5 # 0 /\ E <= E + 5 /\ \A i \in 1..E : i \in 1..(E + 5)
    BY <1>3, SMTT(40)
<1>5. stk[Len(stk) - 3] = E /\ stk[Len(stk) - 2] = Flags(c.enabled) /\ stk[Len(stk)] = c.rip
  <2>1. stk[E + 2] = E /\ stk[E + 3] = Flags(c.enabled) /\ stk[E + 5] = c.rip
    BY <1>0, <1>E, Zenon DEF TrapWords
  <2>2. Len(stk) - 3 = E + 2 /\ Len(stk) - 2 = E + 3 /\ Len(stk) = E + 5
    BY <1>3, SMTT(40)
  <2> QED
    BY <2>1, <2>2, Zenon
<1>6. Last(stk) = c.rip
    BY <1>5 DEF Last
<1>7. (stk[Len(stk) - 2] = Flags(TRUE)) = c.enabled
  <2>1. c.enabled \in BOOLEAN
    BY <1>2 DEF Ctx
  <2>2. (Flags(c.enabled) = Flags(TRUE)) = c.enabled
    BY <2>1, FlagsFacts, Zenon
  <2> QED
    BY <1>5, <2>2, Zenon
<1>8. U \in Seq(Nat) /\ Len(U) = E /\ \A i \in 1..E : U[i] = stk[i]
  <2>1. U = SubSeq(stk, 1, E)
    BY <1>5
  <2>2. E \in Nat /\ E <= Len(stk)
    BY <1>3
  <2> QED
    BY <2>1, <2>2, PrefixFacts, ZenonT(40)
<1>9. Laid(p, a, U, cs, d)
  <2>1. \A i \in 1..Deep(d, Len(cs)) : U[i] = stk[i]
    BY <1>E, <1>8
  <2> QED
    BY <2>1, LaidAgrees
<1>10. OnCpu(p, a, U, Front(cs), c)
  <2>1. n - 1 + 1 = n
    BY <1>1
  <2>2. Laid(p, a, U, Append(Front(cs), c), d) /\ Len(U) = Deep(d, Len(Front(cs)) + 1)
    BY <1>E, <1>2, <1>8, <1>9, <2>1, Zenon
  <2> QED
    BY <2>2 DEF OnCpu
<1> QED
    BY <1>1, <1>2, <1>6, <1>7, <1>8, <1>10, Zenon

\* A level looks at its place in the code, at the level below and at the call.
LEMMA LevelAgrees ==
    ASSUME NEW p, NEW a, NEW b, a.name = b.name, a.args = b.args, NEW S, NEW cs, NEW q, NEW d, NEW k \in Nat, k >= 2,
           cs[k].rip = q[k].rip, cs[k - 1] = q[k - 1], Level(p, a, S, cs, d, k)
    PROVE  Level(p, b, S, q, d, k)
<1>1. CASE cs[k].rip = KERNEL01 /\ KeyFrame(S, Deep(d, k - 1), cs[k - 1])
    BY <1>1 DEF Level
<1>2. CASE k = 2 /\ cs[2].rip = KERNEL80 /\ cs[1].rip = STUB_RET /\ CallFrame(p, a, S, d, cs[1])
  <2>1. k - 1 = 1
    BY <1>2
  <2>2. cs[1] = q[1] /\ q[2].rip = KERNEL80
    BY <1>2, <2>1
  <2>3. CallFrame(p, b, S, d, q[1])
    BY <1>2, <2>2 DEF CallFrame
  <2> QED
    BY <1>2, <2>2, <2>3 DEF Level
<1> QED
    BY <1>1, <1>2 DEF Level

LEMMA LaidDrop ==
    ASSUME NEW p, NEW a, NEW S, NEW cs \in Seq(Ctx), NEW c \in Ctx, Len(cs) # 0, NEW d,
           Laid(p, a, S, Append(cs, c), d)
    PROVE  Laid(p, a, S, cs, d)
<1>n. PICK n : n = Len(cs)
    OBVIOUS
<1>q. PICK q : q = Append(cs, c)
    OBVIOUS
<1>1. n \in Nat \ {0} /\ Len(q) = n + 1 /\ \A i \in 1..n : q[i] = cs[i]
    BY <1>n, <1>q, AppendFacts
<1>2. Program(p, S, cs[1], d)
  <2>1. 1 \in 1..n
    BY <1>1
  <2> QED
    BY <1>q, <1>1, <2>1 DEF Laid
<1>3. ASSUME NEW k \in 2..n PROVE Level(p, a, S, cs, d, k)
  <2>1. k \in 1..n /\ k - 1 \in 1..n /\ k \in 2..(n + 1) /\ k \in Nat /\ k >= 2
    BY <1>1
  <2>2. Level(p, a, S, q, d, k)
    BY <1>q, <1>1, <2>1 DEF Laid
  <2>3. q[k].rip = cs[k].rip /\ q[k - 1] = cs[k - 1]
    BY <1>1, <2>1
  <2> QED
    BY <2>1, <2>2, <2>3, LevelAgrees
<1> QED
    BY <1>n, <1>2, <1>3 DEF Laid

LEMMA LaidAdd ==
    ASSUME NEW p, NEW a, NEW S, NEW cs, NEW c \in Ctx, NEW d, NEW n, n = Len(cs), Laid(p, a, S, cs, d),
           Level(p, a, S, Append(cs, c), d, n + 1)
    PROVE  Laid(p, a, S, Append(cs, c), d)
<1>q. PICK q : q = Append(cs, c)
    OBVIOUS
<1>0. cs \in Seq(Ctx) /\ n # 0 /\ Program(p, S, cs[1], d) /\ \A k \in 2..n : Level(p, a, S, cs, d, k)
    BY DEF Laid
<1>1. n \in Nat \ {0} /\ q \in Seq(Ctx) /\ Len(q) = n + 1 /\ \A i \in 1..n : q[i] = cs[i]
    BY <1>0, <1>q, AppendFacts
<1>2. Program(p, S, q[1], d)
  <2>1. 1 \in 1..n
    BY <1>1
  <2> QED
    BY <1>0, <1>1, <2>1
<1>3. ASSUME NEW k \in 2..(n + 1) PROVE Level(p, a, S, q, d, k)
  <2>1. CASE k = n + 1
    BY <1>q, <2>1
  <2>2. CASE k # n + 1
    <3>1. k \in 1..n /\ k - 1 \in 1..n /\ k \in 2..n /\ k \in Nat /\ k >= 2
      BY <1>1, <2>2
    <3>2. q[k].rip = cs[k].rip /\ q[k - 1] = cs[k - 1] /\ Level(p, a, S, cs, d, k)
      BY <1>0, <1>1, <3>1
    <3> QED
      BY <3>1, <3>2, LevelAgrees
  <2> QED
    BY <2>1, <2>2
<1>4. n + 1 # 0
    BY <1>1
<1> QED
    BY <1>q, <1>1, <1>2, <1>3, <1>4 DEF Laid

\* In the kernel, only the place in the code matters of the level that runs.
LEMMA LaidTop ==
    ASSUME NEW p, NEW a, NEW b, a.name = b.name, a.args = b.args, NEW S, NEW cs \in Seq(Ctx), Len(cs) # 0,
           NEW c \in Ctx, NEW e \in Ctx, c.rip = e.rip, NEW d, Laid(p, a, S, Append(cs, c), d)
    PROVE  Laid(p, b, S, Append(cs, e), d)
<1>n. PICK n : n = Len(cs)
    OBVIOUS
<1>q. PICK q : q = Append(cs, c)
    OBVIOUS
<1>r. PICK r : r = Append(cs, e)
    OBVIOUS
<1>1. n \in Nat \ {0} /\ Len(q) = n + 1 /\ (\A i \in 1..n : q[i] = cs[i]) /\ q[n + 1] = c
    BY <1>n, <1>q, AppendFacts
<1>2. r \in Seq(Ctx) /\ Len(r) = n + 1 /\ (\A i \in 1..n : r[i] = cs[i]) /\ r[n + 1] = e
    BY <1>n, <1>r, AppendFacts
<1>3. 1 \in 1..n /\ n + 1 # 0
    BY <1>1
<1>4. Program(p, S, r[1], d)
    BY <1>q, <1>1, <1>2, <1>3 DEF Laid
<1>5. ASSUME NEW k \in 2..(n + 1) PROVE Level(p, b, S, r, d, k)
  <2>1. (k \in 1..n \/ k = n + 1) /\ k - 1 \in 1..n /\ k \in Nat /\ k >= 2
    BY <1>1
  <2>2. q[k].rip = r[k].rip /\ q[k - 1] = r[k - 1]
    BY <1>1, <1>2, <2>1
  <2>3. Level(p, a, S, q, d, k)
    BY <1>q, <1>1 DEF Laid
  <2> QED
    BY <2>1, <2>2, <2>3, LevelAgrees
<1> QED
    BY <1>r, <1>2, <1>3, <1>4, <1>5 DEF Laid

LEMMA TopFacts ==
    ASSUME NEW p, NEW a, NEW b, a.name = b.name, a.args = b.args, NEW S, NEW cs \in Seq(Ctx), Len(cs) # 0,
           NEW c \in Ctx, NEW e \in Ctx, c.rip = e.rip, OnCpu(p, a, S, cs, c)
    PROVE  OnCpu(p, b, S, cs, e)
<1>1. PICK d \in 0..4 : Laid(p, a, S, Append(cs, c), d) /\ Len(S) = Deep(d, Len(cs) + 1)
    BY DEF OnCpu
<1>2. Laid(p, b, S, Append(cs, e), d)
    BY <1>1, LaidTop
<1> QED
    BY <1>1, <1>2 DEF OnCpu

\* An interrupt's frame on top of what runs.
LEMMA ParkFacts ==
    ASSUME NEW p, NEW a, NEW S \in Seq(Nat), NEW cs \in Seq(Ctx), NEW c \in Ctx, OnCpu(p, a, S, cs, c),
           NEW T, T = pushState(Interrupt(S, c.rip, c.enabled), c.regs)
    PROVE  T \in Seq(Nat) /\ Append(cs, c) \in Seq(Ctx) /\ Parked(p, a, T, Append(cs, c))
<1>1. PICK d \in 0..4 : Laid(p, a, S, Append(cs, c), d) /\ Len(S) = Deep(d, Len(cs) + 1)
    BY DEF OnCpu
<1>n. PICK n : n = Len(cs) + 1
    OBVIOUS
<1>q. PICK q : q = Append(cs, c)
    OBVIOUS
<1>L. PICK L : L = Len(S)
    OBVIOUS
<1>2. q \in Seq(Ctx) /\ Len(q) = n /\ q[n] = c
    BY <1>n, <1>q, AppendFacts
<1>I. PICK I : I = Interrupt(S, c.rip, c.enabled)
    OBVIOUS
<1>3. L \in Nat /\ I \in Seq(Nat) /\ Len(I) = L + 5 /\ (\A i \in 1..L : I[i] = S[i]) /\ TrapWords(I, L, c)
    BY <1>I, <1>L, InterruptFacts, Zenon
<1>4. c.regs \in Regs
    BY DEF Ctx
<1>5. T \in Seq(Nat) /\ Len(T) = L + 5 + 15 /\ (\A i \in 1..(L + 5) : T[i] = I[i]) /\ RegWords(T, L + 5, c.regs)
  <2>1. L + 5 = Len(I) /\ T = pushState(I, c.regs)
    BY <1>I, <1>3
  <2>r. PICK r : r = c.regs
    OBVIOUS
  <2>2. I \in Seq(Nat) /\ r \in Regs
    BY <1>3, <1>4, <2>r
  <2>3. LET m == Len(I)
            V == pushState(I, r) IN
        /\ m \in Nat /\ V \in Seq(Nat) /\ Len(V) = m + 15
        /\ (\A i \in 1..m : V[i] = I[i]) /\ RegWords(V, m, r)
    BY <2>2, PushFacts, Zenon
  <2> QED
    BY <2>r, <2>1, <2>3, Zenon
<1>6. /\ \A i \in 1..L : i \in 1..(L + 5)
      /\ L + 2 \in 1..(L + 5) /\ L + 3 \in 1..(L + 5) /\ L + 5 \in 1..(L + 5) /\ L + 5 + 15 = L + 20
    BY <1>3
<1>7. TimerFrame(T, L, c)
  <2>1. T[L + 2] = I[L + 2] /\ T[L + 3] = I[L + 3] /\ T[L + 5] = I[L + 5]
    BY <1>5, <1>6
  <2>2. TrapWords(T, L, c)
    BY <1>3, <2>1, Zenon DEF TrapWords
  <2> QED
    BY <1>5, <2>2 DEF TimerFrame
<1>8. L = Deep(d, n)
    BY <1>1, <1>n, <1>L
<1>9. Laid(p, a, T, q, d)
  <2>1. \A i \in 1..Deep(d, Len(q)) : T[i] = S[i]
    BY <1>2, <1>3, <1>5, <1>6, <1>8
  <2> QED
    BY <1>1, <1>q, <2>1, LaidAgrees
<1>10. Len(T) = Deep(d, Len(q)) + 20 /\ TimerFrame(T, Deep(d, Len(q)), q[Len(q)])
    BY <1>2, <1>5, <1>6, <1>7, <1>8, Zenon
<1>11. Parked(p, a, T, q)
    BY <1>9, <1>10 DEF Parked
<1> QED
    BY <1>q, <1>2, <1>5, <1>11

\* The end of a timer interrupt: the process that was parked goes on.
LEMMA UnparkFacts ==
    ASSUME NEW p, NEW a, NEW S \in Seq(Nat), NEW cs, Parked(p, a, S, cs)
    PROVE  LET stk == Popped(S)
               U == SubSeq(stk, 1, stk[Len(stk) - 3]) IN
           /\ cs \in Seq(Ctx) /\ Len(cs) # 0 /\ Last(cs) \in Ctx /\ Front(cs) \in Seq(Ctx)
           /\ popState(S) = Last(cs).regs /\ Last(stk) = Last(cs).rip
           /\ (stk[Len(stk) - 2] = Flags(TRUE)) = Last(cs).enabled
           /\ U \in Seq(Nat) /\ OnCpu(p, a, U, Front(cs), Last(cs))
<1>s. PICK stk : stk = Popped(S)
    OBVIOUS
<1>1. PICK d \in 0..4 : /\ Laid(p, a, S, cs, d) /\ Len(S) = Deep(d, Len(cs)) + 20
                        /\ TimerFrame(S, Deep(d, Len(cs)), cs[Len(cs)])
    BY DEF Parked
<1>n. PICK n : n = Len(cs)
    OBVIOUS
<1>c. PICK c : c = cs[n]
    OBVIOUS
<1>E. PICK E : E = Deep(d, n)
    OBVIOUS
<1>2. cs \in Seq(Ctx) /\ n \in Nat \ {0} /\ c \in Ctx
  <2>1. cs \in Seq(Ctx) /\ n # 0
    BY <1>1, <1>n DEF Laid
  <2>2. n \in Nat
    BY <1>n, <2>1
  <2>3. n \in 1..n
    BY <2>1, <2>2
  <2> QED
    BY <1>n, <1>c, <2>1, <2>2, <2>3
<1>3. E \in Nat /\ Len(S) = E + 20 /\ TrapWords(S, E, c) /\ RegWords(S, E + 5, c.regs)
  <2>1. E \in Nat
    BY <1>E, <1>2, DeepFacts
  <2> QED
    BY <1>1, <1>n, <1>c, <1>E, <2>1, Zenon DEF TimerFrame
<1>4. E + 20 - 15 = E + 5 /\ E + 5 <= E + 20 /\ E + 5 \in Nat /\ \A i \in 1..E : i \in 1..(E + 5)
    BY <1>3
<1>5. stk \in Seq(Nat) /\ Len(stk) = E + 5 /\ \A i \in 1..(E + 5) : stk[i] = S[i]
  <2>1. stk = SubSeq(S, 1, E + 5)
    BY <1>s, <1>3, <1>4 DEF Popped
  <2> QED
    BY <1>3, <1>4, <2>1, PrefixFacts
<1>6. TrapWords(stk, E, c)
  <2>1. E + 2 \in 1..(E + 5) /\ E + 3 \in 1..(E + 5) /\ E + 5 \in 1..(E + 5)
    BY <1>3
  <2>2. stk[E + 2] = S[E + 2] /\ stk[E + 3] = S[E + 3] /\ stk[E + 5] = S[E + 5]
    BY <1>5, <2>1
  <2> QED
    BY <1>3, <2>2, Zenon DEF TrapWords
<1>7. popState(S) = c.regs
  <2>1. c.regs \in Regs
    BY <1>2 DEF Ctx
  <2>2. RegWords(S, Len(S) - 15, c.regs)
    BY <1>3, <1>4
  <2> QED
    BY <2>1, <2>2, PopIs
<1>8. Laid(p, a, stk, cs, d)
  <2>1. \A i \in 1..Deep(d, Len(cs)) : stk[i] = S[i]
    BY <1>n, <1>E, <1>4, <1>5
  <2> QED
    BY <1>1, <2>1, LaidAgrees
<1>9. Len(stk) = Deep(d, n) + 5 /\ TrapWords(stk, Deep(d, n), c)
    BY <1>E, <1>5, <1>6
<1>10. LET m == Len(cs)
           e == cs[m]
           V == SubSeq(stk, 1, stk[Len(stk) - 3]) IN
       /\ cs \in Seq(Ctx) /\ m # 0 /\ Last(cs) = e /\ e \in Ctx /\ Front(cs) \in Seq(Ctx)
       /\ Last(stk) = e.rip /\ (stk[Len(stk) - 2] = Flags(TRUE)) = e.enabled
       /\ V \in Seq(Nat) /\ OnCpu(p, a, V, Front(cs), e)
  <2>1. stk \in Seq(Nat) /\ Len(stk) = Deep(d, Len(cs)) + 5 /\ TrapWords(stk, Deep(d, Len(cs)), cs[Len(cs)])
    BY <1>n, <1>c, <1>5, <1>9, Zenon
  <2> QED
    BY <1>8, <2>1, ReturnFacts, Zenon
<1> QED
    BY <1>s, <1>n, <1>c, <1>7, <1>10, Zenon

\* A keyboard interrupt's frame, and its handler on top.
LEMMA KeyFacts ==
    ASSUME NEW p, NEW a, NEW S \in Seq(Nat), NEW cs \in Seq(Ctx), NEW c \in Ctx, OnCpu(p, a, S, cs, c),
           NEW e \in Ctx, e.rip = KERNEL01
    PROVE  LET T == pushState(Append(Interrupt(S, c.rip, c.enabled), Flags(FALSE)), c.regs) IN
           T \in Seq(Nat) /\ Append(cs, c) \in Seq(Ctx) /\ OnCpu(p, a, T, Append(cs, c), e)
<1>T. PICK T : T = pushState(Append(Interrupt(S, c.rip, c.enabled), Flags(FALSE)), c.regs)
    OBVIOUS
<1>1. PICK d \in 0..4 : Laid(p, a, S, Append(cs, c), d) /\ Len(S) = Deep(d, Len(cs) + 1)
    BY DEF OnCpu
<1>n. PICK n : n = Len(cs) + 1
    OBVIOUS
<1>q. PICK q : q = Append(cs, c)
    OBVIOUS
<1>L. PICK L : L = Len(S)
    OBVIOUS
<1>2. n \in Nat \ {0} /\ q \in Seq(Ctx) /\ Len(q) = n /\ q[n] = c
  <2>1. Len(cs) \in Nat
    OBVIOUS
  <2>2. n \in Nat \ {0}
    BY <1>n, <2>1
  <2>3. q \in Seq(Ctx) /\ Len(q) = n /\ q[n] = c
    BY <1>n, <1>q, AppendFacts
  <2> QED
    BY <2>2, <2>3
<1>I. PICK I : I = Interrupt(S, c.rip, c.enabled)
    OBVIOUS
<1>3. L \in Nat /\ I \in Seq(Nat) /\ Len(I) = L + 5 /\ (\A i \in 1..L : I[i] = S[i]) /\ TrapWords(I, L, c)
    BY <1>I, <1>L, InterruptFacts, Zenon
<1>J. PICK J : J = Append(I, Flags(FALSE))
    OBVIOUS
<1>4. J \in Seq(Nat) /\ Len(J) = L + 6 /\ \A i \in 1..(L + 5) : J[i] = I[i]
  <2>1. Flags(FALSE) \in Nat
    BY DEF Flags
  <2>m. PICK m : m = L + 5
    OBVIOUS
  <2>g. PICK g : g = Flags(FALSE)
    OBVIOUS
  <2>2. J \in Seq(Nat) /\ Len(J) = m + 1 /\ \A i \in 1..m : J[i] = I[i]
    <3>1. g \in Nat /\ J = Append(I, g) /\ m = Len(I) /\ I \in Seq(Nat)
      BY <1>J, <1>3, <2>1, <2>m, <2>g, Zenon
    <3> QED
      BY <3>1, AppendFacts
  <2>3. m + 1 = L + 6
    BY <1>3, <2>m
  <2> QED
    BY <2>m, <2>2, <2>3, Zenon
<1>r. PICK r : r = c.regs
    OBVIOUS
<1>5. r \in Regs
    BY <1>r DEF Ctx
<1>6. T \in Seq(Nat) /\ Len(T) = L + 6 + 15 /\ (\A i \in 1..(L + 6) : T[i] = J[i]) /\ RegWords(T, L + 6, r)
  <2>1. LET m == Len(J)
            V == pushState(J, r) IN
        /\ m \in Nat /\ V \in Seq(Nat) /\ Len(V) = m + 15
        /\ (\A i \in 1..m : V[i] = J[i]) /\ RegWords(V, m, r)
    BY <1>4, <1>5, PushFacts, Zenon
  <2>2. T = pushState(J, r)
    BY <1>T, <1>I, <1>J, <1>r
  <2> QED
    BY <1>4, <2>1, <2>2, Zenon
<1>7. /\ \A i \in 1..L : i \in 1..(L + 5)
      /\ \A i \in 1..(L + 5) : i \in 1..(L + 6)
      /\ L + 2 \in 1..(L + 5) /\ L + 3 \in 1..(L + 5) /\ L + 5 \in 1..(L + 5) /\ L + 6 + 15 = L + 21
    BY <1>3
<1>8. KeyFrame(T, L, c)
  <2>1. T[L + 2] = I[L + 2] /\ T[L + 3] = I[L + 3] /\ T[L + 5] = I[L + 5]
    BY <1>4, <1>6, <1>7
  <2>2. TrapWords(T, L, c)
    BY <1>3, <2>1, Zenon DEF TrapWords
  <2> QED
    BY <1>r, <1>6, <2>2 DEF KeyFrame
<1>9. L = Deep(d, n)
    BY <1>1, <1>n, <1>L
<1>10. Laid(p, a, T, q, d)
  <2>1. \A i \in 1..L : T[i] = S[i]
    BY <1>3, <1>4, <1>6, <1>7
  <2>2. \A i \in 1..Deep(d, Len(q)) : T[i] = S[i]
    BY <1>2, <1>9, <2>1
  <2> QED
    BY <1>1, <1>q, <2>2, LaidAgrees
<1>f. PICK f : f = Append(q, e)
    OBVIOUS
<1>11. Len(f) = n + 1 /\ f[n + 1] = e /\ f[n] = c
  <2>1. n \in 1..n
    BY <1>2
  <2>2. Len(f) = n + 1 /\ f[n + 1] = e /\ f[n] = q[n]
    BY <1>f, <1>2, <2>1, AppendFacts
  <2> QED
    BY <1>2, <2>2
<1>12. Laid(p, a, T, f, d)
  <2>1. (n + 1) - 1 = n
    BY <1>2
  <2>2. f[n + 1].rip = KERNEL01 /\ KeyFrame(T, Deep(d, (n + 1) - 1), f[(n + 1) - 1])
    BY <1>8, <1>9, <1>11, <2>1
  <2>3. Level(p, a, T, f, d, n + 1)
    BY <2>2, Zenon DEF Level
  <2> QED
    BY <1>f, <1>2, <1>10, <2>3, LaidAdd
<1>13. Len(T) = Deep(d, n + 1)
    BY <1>2, <1>6, <1>7, <1>9, DeepFacts
<1>14. OnCpu(p, a, T, q, e)
    BY <1>f, <1>2, <1>12, <1>13 DEF OnCpu
<1> QED
    BY <1>T, <1>q, <1>2, <1>6, <1>14

\* What runs is the program, the keyboard's handler or a system call.
AtProgram(p, S, cs, c, d) == Len(cs) = 0 /\ Len(S) = d /\ Program(p, S, c, d)
AtKey(p, a, S, cs, c, d) ==
    /\ c.rip = KERNEL01 /\ Laid(p, a, S, cs, d) /\ Len(S) = Deep(d, Len(cs)) + 21
    /\ KeyFrame(S, Deep(d, Len(cs)), cs[Len(cs)])
AtCall(p, a, S, cs, c, d) ==
    /\ c.rip = KERNEL80 /\ Laid(p, a, S, cs, d) /\ Len(cs) = 1 /\ cs[1].rip = STUB_RET
    /\ Len(S) = d + 21 /\ CallFrame(p, a, S, d, cs[1])

LEMMA PlacesDiffer ==
    ASSUME NEW p \in Nat, NEW S, NEW c, NEW d, Program(p, S, c, d)
    PROVE  c.rip # KERNEL01 /\ c.rip # KERNEL80
<1>1. entry_point(p) >= 101
    BY DEF entry_point, Own
<1>2. CASE c.rip = entry_point(p)
    BY <1>1, <1>2 DEF KERNEL01, KERNEL80
<1>3. CASE c.rip # entry_point(p)
    BY <1>3 DEF Program, MAIN, _process_wrapper, WRAPPER_RET, ENTRY_RET, COMMAND, STUB_RET, process_terminator,
               KERNEL01, KERNEL80
<1> QED
    BY <1>2, <1>3

LEMMA WhereFacts ==
    ASSUME NEW p \in Nat, NEW a, NEW S \in Seq(Nat), NEW cs \in Seq(Ctx), NEW c \in Ctx, OnCpu(p, a, S, cs, c)
    PROVE  \E d \in 0..4 : AtProgram(p, S, cs, c, d) \/ AtKey(p, a, S, cs, c, d) \/ AtCall(p, a, S, cs, c, d)
<1>1. PICK d \in 0..4 : Laid(p, a, S, Append(cs, c), d) /\ Len(S) = Deep(d, Len(cs) + 1)
    BY DEF OnCpu
<1>m. PICK m : m = Len(cs)
    OBVIOUS
<1>q. PICK q : q = Append(cs, c)
    OBVIOUS
<1>2. m \in Nat /\ Len(q) = m + 1 /\ q[m + 1] = c /\ \A i \in 1..m : q[i] = cs[i]
    BY <1>m, <1>q, AppendFacts
<1>3. Laid(p, a, S, q, d) /\ Len(S) = Deep(d, m + 1)
    BY <1>1, <1>m, <1>q
<1>4. CASE m = 0
  <2>1. m + 1 = 1 /\ Deep(d, 1) = d
    <3>1. m + 1 = 1
      BY <1>4
    <3>2. Deep(d, 1) = d
      BY DeepFacts
    <3> QED
      BY <3>1, <3>2
  <2>2. q[1] = c /\ Len(S) = d
    BY <1>2, <1>3, <2>1
  <2>3. Program(p, S, c, d)
    BY <1>3, <2>2 DEF Laid
  <2>4. AtProgram(p, S, cs, c, d)
    BY <1>4, <1>m, <2>2, <2>3 DEF AtProgram
  <2> QED
    BY <2>4
<1>5. CASE m # 0
  <2>1. m + 1 \in 2..(m + 1) /\ (m + 1) - 1 = m /\ m \in 1..m /\ m \in Nat \ {0}
    BY <1>2, <1>5
  <2>2. q[m] = cs[m] /\ Len(S) = Deep(d, m) + 21
    BY <1>2, <1>3, <2>1, DeepFacts
  <2>3. Level(p, a, S, q, d, m + 1)
    BY <1>2, <1>3, <2>1 DEF Laid
  <2>4. Laid(p, a, S, cs, d)
    BY <1>3, <1>5, <1>m, <1>q, LaidDrop
  <2>5. CASE q[m + 1].rip = KERNEL01 /\ KeyFrame(S, Deep(d, (m + 1) - 1), q[(m + 1) - 1])
    <3>1. AtKey(p, a, S, cs, c, d)
      BY <1>2, <1>m, <2>1, <2>2, <2>4, <2>5 DEF AtKey
    <3> QED
      BY <3>1
  <2>6. CASE m + 1 = 2 /\ q[2].rip = KERNEL80 /\ q[1].rip = STUB_RET /\ CallFrame(p, a, S, d, q[1])
    <3>1. m = 1 /\ Deep(d, 1) = d
      <4>1. m = 1
        BY <1>2, <2>6
      <4>2. Deep(d, 1) = d
        BY DeepFacts
      <4> QED
        BY <4>1, <4>2
    <3>2. q[1] = cs[1] /\ q[2] = c /\ Len(S) = d + 21
      BY <1>2, <2>2, <2>6, <3>1
    <3>3. AtCall(p, a, S, cs, c, d)
      BY <1>m, <2>4, <2>6, <3>1, <3>2 DEF AtCall
    <3> QED
      BY <3>3
  <2> QED
    BY <2>3, <2>5, <2>6 DEF Level
<1> QED
    BY <1>4, <1>5

LEMMA ProgramFacts ==
    ASSUME NEW p \in Nat, NEW a, NEW S \in Seq(Nat), NEW cs \in Seq(Ctx), NEW c \in Ctx, OnCpu(p, a, S, cs, c),
           c.rip # KERNEL01, c.rip # KERNEL80
    PROVE  cs = <<>> /\ \E d \in 0..4 : Len(S) = d /\ Program(p, S, c, d)
<1>1. PICK d \in 0..4 : AtProgram(p, S, cs, c, d) \/ AtKey(p, a, S, cs, c, d) \/ AtCall(p, a, S, cs, c, d)
    BY WhereFacts
<1>2. AtProgram(p, S, cs, c, d)
    BY <1>1 DEF AtKey, AtCall
<1>3. Len(cs) = 0 /\ Len(S) = d /\ Program(p, S, c, d)
    BY <1>2 DEF AtProgram
<1>4. cs = <<>>
    BY <1>3
<1> QED
    BY <1>3, <1>4

LEMMA ProgramRuns ==
    ASSUME NEW p, NEW a, NEW S, NEW c \in Ctx, NEW d \in 0..4, Len(S) = d, Program(p, S, c, d)
    PROVE  OnCpu(p, a, S, <<>>, c)
<1>q. PICK q : q = Append(<<>>, c)
    OBVIOUS
<1>1. q \in Seq(Ctx) /\ Len(q) = 1 /\ q[1] = c
    BY <1>q
<1>2. \A k \in 2..1 : FALSE
    OBVIOUS
<1>3. Laid(p, a, S, q, d)
    BY <1>1, <1>2 DEF Laid
<1>4. Len(S) = Deep(d, Len(<<>>) + 1)
  <2>1. Len(<<>>) + 1 = 1
    OBVIOUS
  <2> QED
    BY <2>1, DeepFacts
<1> QED
    BY <1>q, <1>3, <1>4 DEF OnCpu

\* The end of the keyboard's handler.
LEMMA KeyEndFacts ==
    ASSUME NEW p \in Nat, NEW a, NEW S \in Seq(Nat), NEW cs \in Seq(Ctx), NEW c \in Ctx, OnCpu(p, a, S, cs, c),
           c.rip = KERNEL01
    PROVE  LET stk == Front(Popped(S))
               U == SubSeq(stk, 1, stk[Len(stk) - 3]) IN
           /\ Len(cs) # 0 /\ Last(cs) \in Ctx /\ Front(cs) \in Seq(Ctx)
           /\ popState(S) = Last(cs).regs /\ Last(stk) = Last(cs).rip
           /\ (stk[Len(stk) - 2] = Flags(TRUE)) = Last(cs).enabled
           /\ U \in Seq(Nat) /\ OnCpu(p, a, U, Front(cs), Last(cs))
           /\ Shows(Snapshot(S), Last(cs))
<1>1. PICK d \in 0..4 : AtProgram(p, S, cs, c, d) \/ AtKey(p, a, S, cs, c, d) \/ AtCall(p, a, S, cs, c, d)
    BY WhereFacts
<1>2. AtKey(p, a, S, cs, c, d)
  <2>1. KERNEL01 # KERNEL80
    BY DEF KERNEL01, KERNEL80
  <2>2. ~ AtProgram(p, S, cs, c, d)
    BY PlacesDiffer DEF AtProgram
  <2> QED
    BY <1>1, <2>1, <2>2 DEF AtCall
<1>n. PICK n : n = Len(cs)
    OBVIOUS
<1>e. PICK e : e = cs[n]
    OBVIOUS
<1>E. PICK E : E = Deep(d, n)
    OBVIOUS
<1>3. n \in Nat \ {0} /\ e \in Ctx
  <2>1. n # 0
    BY <1>2, <1>n DEF AtKey, Laid
  <2>2. n \in Nat
    BY <1>n
  <2>3. n \in 1..n
    BY <2>1, <2>2
  <2> QED
    BY <1>n, <1>e, <2>1, <2>2, <2>3
<1>4. E \in Nat /\ Len(S) = E + 21 /\ TrapWords(S, E, e) /\ RegWords(S, E + 6, e.regs)
  <2>1. E \in Nat
    BY <1>E, <1>3, DeepFacts
  <2> QED
    BY <1>2, <1>n, <1>e, <1>E, <2>1, Zenon DEF AtKey, KeyFrame
<1>5. /\ E + 21 - 15 = E + 6 /\ E + 6 <= E + 21 /\ E + 6 \in Nat /\ \A i \in 1..E : i \in 1..(E + 5)
      /\ E + 6 # 0 /\ E + 6 - 1 = E + 5 /\ \A i \in 1..(E + 5) : i \in 1..(E + 6)
      /\ E + 21 - 16 = E + 5
    BY <1>4
<1>P. PICK P : P = Popped(S)
    OBVIOUS
<1>6. P \in Seq(Nat) /\ Len(P) = E + 6 /\ \A i \in 1..(E + 6) : P[i] = S[i]
  <2>1. P = SubSeq(S, 1, E + 6)
    BY <1>P, <1>4, <1>5 DEF Popped
  <2> QED
    BY <1>4, <1>5, <2>1, PrefixFacts
<1>s. PICK stk : stk = Front(P)
    OBVIOUS
<1>7. stk \in Seq(Nat) /\ Len(stk) = E + 5 /\ \A i \in 1..(E + 5) : stk[i] = S[i]
  <2>1. /\ Front(P) \in Seq(Nat) /\ Len(Front(P)) = Len(P) - 1
        /\ \A i \in 1..(Len(P) - 1) : Front(P)[i] = P[i]
    BY <1>5, <1>6, FrontFacts
  <2>2. Len(P) - 1 = E + 5
    BY <1>4, <1>6
  <2>3. stk \in Seq(Nat) /\ Len(stk) = E + 5 /\ \A i \in 1..(E + 5) : stk[i] = P[i]
    BY <1>s, <2>1, <2>2
  <2> QED
    BY <1>5, <1>6, <2>3
<1>8. TrapWords(stk, E, e)
  <2>1. E + 2 \in 1..(E + 5) /\ E + 3 \in 1..(E + 5) /\ E + 5 \in 1..(E + 5)
    BY <1>4
  <2>2. stk[E + 2] = S[E + 2] /\ stk[E + 3] = S[E + 3] /\ stk[E + 5] = S[E + 5]
    BY <1>7, <2>1
  <2> QED
    BY <1>4, <2>2, Zenon DEF TrapWords
<1>9. popState(S) = e.regs
  <2>1. e.regs \in Regs
    BY <1>3 DEF Ctx
  <2>2. RegWords(S, Len(S) - 15, e.regs)
    BY <1>4, <1>5
  <2> QED
    BY <2>1, <2>2, PopIs
<1>10. Laid(p, a, stk, cs, d)
  <2>1. \A i \in 1..Deep(d, Len(cs)) : stk[i] = S[i]
    BY <1>n, <1>E, <1>5, <1>7
  <2>2. Laid(p, a, S, cs, d)
    BY <1>2 DEF AtKey
  <2> QED
    BY <2>1, <2>2, LaidAgrees
<1>11. LET m == Len(cs)
           f == cs[m]
           V == SubSeq(stk, 1, stk[Len(stk) - 3]) IN
       /\ cs \in Seq(Ctx) /\ m # 0 /\ Last(cs) = f /\ f \in Ctx /\ Front(cs) \in Seq(Ctx)
       /\ Last(stk) = f.rip /\ (stk[Len(stk) - 2] = Flags(TRUE)) = f.enabled
       /\ V \in Seq(Nat) /\ OnCpu(p, a, V, Front(cs), f)
  <2>1. stk \in Seq(Nat) /\ Len(stk) = Deep(d, Len(cs)) + 5 /\ TrapWords(stk, Deep(d, Len(cs)), cs[Len(cs)])
    BY <1>n, <1>e, <1>E, <1>7, <1>8, Zenon
  <2> QED
    BY <1>10, <2>1, ReturnFacts, Zenon
<1>12. Shows(Snapshot(S), e)
  <2>1. ASSUME NEW i \in 1..15 PROVE Snapshot(S)[i] = e.regs[PushOrder[i]]
    <3>1. i \in 1..18 /\ i <= 15 /\ i # 16 /\ i # 17 /\ i # 18
      OBVIOUS
    <3>2. Snapshot(S)[i] = popState(S)[PushOrder[i]]
      BY <3>1 DEF Snapshot
    <3> QED
      BY <1>9, <3>2
  <2>2. Snapshot(S)[17] = S[Len(S) - 16]
    BY DEF Snapshot
  <2>3. S[E + 5] = e.rip
    BY <1>4 DEF TrapWords
  <2>4. Snapshot(S)[17] = e.rip
    BY <1>4, <1>5, <2>2, <2>3
  <2> QED
    BY <2>1, <2>4 DEF Shows
<1> QED
    BY <1>P, <1>s, <1>n, <1>e, <1>9, <1>11, <1>12, Zenon

LEMMA ArgFacts ==
    /\ PushOrder[1] = "rax" /\ \A j \in 2..15 : PushOrder[j] \in Reg /\ PushOrder[j] # "rax"
    /\ \A i \in 1..6 : \E j \in 2..15 : PushOrder[j] = ArgRegs[i]
    /\ \A i \in 1..6 : ArgRegs[i] \in Reg /\ ArgRegs[i] \notin {"rax", "rbp", "r13"}
    /\ \A i, j \in 1..6 : ArgRegs[i] = ArgRegs[j] => i = j
<1>1. PushOrder[1] = "rax" /\ \A j \in 2..15 : PushOrder[j] # "rax"
    BY DEF PushOrder
<1>2. \A j \in 2..15 : PushOrder[j] \in Reg
    BY OrderFacts
<1>3. \A i \in 1..6 : \E j \in 2..15 : PushOrder[j] = ArgRegs[i]
  <2>1. /\ PushOrder[6] = ArgRegs[1] /\ PushOrder[7] = ArgRegs[2] /\ PushOrder[4] = ArgRegs[3]
        /\ PushOrder[3] = ArgRegs[4] /\ PushOrder[8] = ArgRegs[5] /\ PushOrder[9] = ArgRegs[6]
    BY DEF PushOrder, ArgRegs
  <2>2. \A i \in 1..6 : i = 1 \/ i = 2 \/ i = 3 \/ i = 4 \/ i = 5 \/ i = 6
    OBVIOUS
  <2>3. 6 \in 2..15 /\ 7 \in 2..15 /\ 4 \in 2..15 /\ 3 \in 2..15 /\ 8 \in 2..15 /\ 9 \in 2..15
    OBVIOUS
  <2> QED
    BY <2>1, <2>2, <2>3
<1>4. \A i \in 1..6 : ArgRegs[i] \notin {"rax", "rbp", "r13"}
    BY DEF ArgRegs
<1>5. \A i, j \in 1..6 : ArgRegs[i] = ArgRegs[j] => i = j
    BY DEF ArgRegs
<1>6. \A i \in 1..6 : ArgRegs[i] \in Reg
    BY <1>2, <1>3
<1> QED
    BY <1>1, <1>2, <1>3, <1>4, <1>5, <1>6

\* The registers at the trap of a system call.
CallArgs(p, s) == [i \in 1..Arity(s[1]) |-> Argument(p, i)]
CallRegs(p, s, rs) ==
    [x \in Reg |-> IF x = "rax" THEN s[2]
                   ELSE IF x = "rbp" THEN 4
                   ELSE IF \E i \in DOMAIN CallArgs(p, s) : ArgRegs[i] = x
                        THEN CallArgs(p, s)[CHOOSE i \in DOMAIN CallArgs(p, s) : ArgRegs[i] = x]
                   ELSE rs[x]]
LEMMA CallRegsFacts ==
    ASSUME NEW p \in Nat, NEW s \in Stub, NEW rs \in Regs, NEW r, r = CallRegs(p, s, rs)
    PROVE  /\ r \in Regs /\ r["rax"] = s[2] /\ r["rbp"] = 4 /\ r["r13"] = rs["r13"]
           /\ \A i \in 1..Arity(s[1]) : i \in 1..6 /\ r[ArgRegs[i]] = CallArgs(p, s)[i]
<1>n. PICK n : n = Arity(s[1])
    OBVIOUS
<1>A. PICK A : A = CallArgs(p, s)
    OBVIOUS
<1>1. n \in 0..6 /\ s[2] \in Nat
    BY <1>n, Dispatched
<1>2. \A i \in 1..n : i \in 1..6 /\ i \in Nat
    BY <1>1
<1>3. DOMAIN A = 1..n /\ \A i \in 1..n : A[i] = Argument(p, i)
    BY <1>n, <1>A DEF CallArgs
<1>4. \A i \in 1..n : Argument(p, i) \in Nat
  <2>1. ASSUME NEW i \in Nat PROVE 100 * (p + 1) + (10 + i) \in Nat
    OBVIOUS
  <2> QED
    BY <1>2, <2>1 DEF Argument, Own
<1>5. r = [x \in Reg |-> IF x = "rax" THEN s[2]
                         ELSE IF x = "rbp" THEN 4
                         ELSE IF \E i \in 1..n : ArgRegs[i] = x
                              THEN A[CHOOSE i \in 1..n : ArgRegs[i] = x]
                         ELSE rs[x]]
    BY <1>A, <1>3 DEF CallRegs
<1>6. ASSUME NEW i \in 1..n PROVE (CHOOSE j \in 1..n : ArgRegs[j] = ArgRegs[i]) = i
    BY <1>2, ArgFacts
<1>7. ASSUME NEW i \in 1..n PROVE r[ArgRegs[i]] = A[i]
  <2>1. ArgRegs[i] \in Reg /\ ArgRegs[i] # "rax" /\ ArgRegs[i] # "rbp"
    BY <1>2, ArgFacts
  <2> QED
    BY <1>5, <1>6, <2>1
<1>8. r["rax"] = s[2] /\ r["rbp"] = 4
    BY <1>5, SomeRegs
<1>9. r["r13"] = rs["r13"]
  <2>1. ~ \E i \in 1..n : ArgRegs[i] = "r13"
    BY <1>2, ArgFacts
  <2> QED
    BY <1>5, <2>1, SomeRegs
<1>10. ASSUME NEW x \in Reg PROVE r[x] \in Nat
  <2>1. rs[x] \in Nat
    BY DEF Regs
  <2>2. CASE x = "rax" \/ x = "rbp"
    BY <1>1, <1>8, <2>2
  <2>3. CASE x # "rax" /\ x # "rbp" /\ \E i \in 1..n : ArgRegs[i] = x
    <3>1. PICK i \in 1..n : ArgRegs[i] = x
      BY <2>3
    <3> QED
      BY <1>3, <1>4, <1>7, <3>1
  <2>4. CASE x # "rax" /\ x # "rbp" /\ ~ \E i \in 1..n : ArgRegs[i] = x
    BY <1>5, <2>1, <2>4
  <2> QED
    BY <2>2, <2>3, <2>4
<1>11. r \in Regs
  <2>1. r = [x \in Reg |-> r[x]]
    BY <1>5
  <2> QED
    BY <1>10, <2>1 DEF Regs
<1> QED
    BY <1>n, <1>A, <1>2, <1>7, <1>8, <1>9, <1>11

\* A system call's frame, and the kernel on top.
LEMMA CallFacts ==
    ASSUME NEW p \in Nat, p # 0, NEW S \in Seq(Nat), NEW c \in Ctx, Len(S) = 2, S[1] = WRAPPER_RET, S[2] = ENTRY_RET,
           c.regs["r13"] = process_terminator, NEW s \in Stub,
           NEW a, a.name = s[1], a.args = CallArgs(p, s), NEW e \in Ctx, e.rip = KERNEL80
    PROVE  LET r == CallRegs(p, s, c.regs)
               stk == S \o <<COMMAND, c.regs["rbp"]>>
               T == Append(pushState(Interrupt(stk, STUB_RET, c.enabled), r), s[2])
               f == Context([r EXCEPT !["rax"] = Result(p)], STUB_RET, c.enabled) IN
           T \in Seq(Nat) /\ f \in Ctx /\ OnCpu(p, a, T, Append(<<>>, f), e)
<1>r. PICK r : r = CallRegs(p, s, c.regs)
    OBVIOUS
<1>k. PICK stk : stk = S \o <<COMMAND, c.regs["rbp"]>>
    OBVIOUS
<1>f. PICK f : f = Context([r EXCEPT !["rax"] = Result(p)], STUB_RET, c.enabled)
    OBVIOUS
<1>1. c.regs \in Regs /\ c.enabled \in BOOLEAN
    BY DEF Ctx
<1>2. /\ r \in Regs /\ r["rax"] = s[2] /\ r["rbp"] = 4 /\ r["r13"] = process_terminator
      /\ \A i \in 1..Arity(s[1]) : i \in 1..6 /\ r[ArgRegs[i]] = CallArgs(p, s)[i]
    BY <1>r, <1>1, CallRegsFacts
<1>g. PICK g : g = [r EXCEPT !["rax"] = Result(p)]
    OBVIOUS
<1>3. g \in Regs /\ g["rax"] = Result(p) /\ \A x \in Reg : x # "rax" => g[x] = r[x]
  <2>1. Result(p) \in Nat
    BY DEF Result, Own
  <2> QED
    BY <1>2, <1>g, <2>1, SomeRegs DEF Regs
<1>4. f \in Ctx /\ f.regs = g /\ f.rip = STUB_RET /\ f.enabled = c.enabled
  <2>1. STUB_RET \in Nat
    BY DEF STUB_RET
  <2>2. f = [regs |-> g, rip |-> STUB_RET, enabled |-> c.enabled]
    BY <1>f, <1>g, Zenon DEF Context
  <2> QED
    BY <1>1, <1>3, <2>1, <2>2, Zenon DEF Ctx
<1>5. stk \in Seq(Nat) /\ Len(stk) = 4 /\ stk[1] = WRAPPER_RET /\ stk[2] = ENTRY_RET /\ stk[3] = COMMAND
  <2>1. c.regs["rbp"] \in Nat /\ COMMAND \in Nat
    BY <1>1, SomeRegs DEF Regs, COMMAND
  <2>e. PICK z : z = <<COMMAND, c.regs["rbp"]>>
    OBVIOUS
  <2>2. z \in Seq(Nat) /\ Len(z) = 2 /\ z[1] = COMMAND
    BY <2>e, <2>1
  <2>3. stk \in Seq(Nat) /\ Len(stk) = 2 + 2
    <3>1. \A y, x \in Seq(Nat) : y \o x \in Seq(Nat) /\ Len(y \o x) = Len(y) + Len(x)
      BY JoinedSeq
    <3>2. stk = S \o z
      BY <1>k, <2>e
    <3> QED
      BY <2>2, <3>1, <3>2
  <2>4. (\A i \in 1..2 : stk[i] = S[i]) /\ \A i \in 1..2 : stk[2 + i] = z[i]
    <3>1. \A y, x \in Seq(Nat) : /\ \A i \in 1..Len(y) : (y \o x)[i] = y[i]
                                 /\ \A i \in 1..Len(x) : (y \o x)[Len(y) + i] = x[i]
      BY JoinedAt
    <3>2. stk = S \o z
      BY <1>k, <2>e
    <3>3. /\ \A i \in 1..Len(S) : (S \o z)[i] = S[i]
          /\ \A i \in 1..Len(z) : (S \o z)[Len(S) + i] = z[i]
      BY <2>2, <3>1
    <3> QED
      BY <2>2, <3>2, <3>3
  <2>5. 1 \in 1..2 /\ 2 \in 1..2 /\ 2 + 1 = 3 /\ 2 + 2 = 4
    OBVIOUS
  <2> QED
    BY <2>2, <2>3, <2>4, <2>5
<1>I. PICK I : I = Interrupt(stk, STUB_RET, c.enabled)
    OBVIOUS
<1>6. I \in Seq(Nat) /\ Len(I) = 9 /\ (\A i \in 1..4 : I[i] = stk[i]) /\ TrapWords(I, 4, f)
  <2>1. LET L == Len(stk)
            V == Interrupt(stk, f.rip, f.enabled) IN
        /\ L \in Nat /\ V \in Seq(Nat) /\ Len(V) = L + 5
        /\ (\A i \in 1..L : V[i] = stk[i]) /\ TrapWords(V, L, f)
    BY <1>4, <1>5, InterruptFacts, Zenon
  <2>2. I = Interrupt(stk, f.rip, f.enabled)
    BY <1>I, <1>4, Zenon
  <2>3. 4 + 5 = 9
    OBVIOUS
  <2> QED
    BY <1>5, <2>1, <2>2, <2>3, Zenon
<1>P. PICK P : P = pushState(I, r)
    OBVIOUS
<1>7. P \in Seq(Nat) /\ Len(P) = 24 /\ (\A i \in 1..9 : P[i] = I[i]) /\ RegWords(P, 9, r)
  <2>1. LET L == Len(I)
            V == pushState(I, r) IN
        /\ L \in Nat /\ V \in Seq(Nat) /\ Len(V) = L + 15
        /\ (\A i \in 1..L : V[i] = I[i]) /\ RegWords(V, L, r)
    BY <1>2, <1>6, PushFacts, Zenon
  <2>2. 9 + 15 = 24
    OBVIOUS
  <2> QED
    BY <1>P, <1>6, <2>1, <2>2, Zenon
<1>T. PICK T : T = Append(P, s[2])
    OBVIOUS
<1>8. T \in Seq(Nat) /\ Len(T) = 25 /\ \A i \in 1..24 : T[i] = P[i]
  <2>1. s[2] \in Nat
    BY Dispatched
  <2>w. PICK w : w = s[2]
    OBVIOUS
  <2>2. T \in Seq(Nat) /\ Len(T) = 24 + 1 /\ \A i \in 1..24 : T[i] = P[i]
    <3>1. T = Append(P, w) /\ w \in Nat /\ P \in Seq(Nat) /\ Len(P) = 24
      BY <1>T, <1>7, <2>1, <2>w
    <3>2. \A y \in Seq(Nat) : \A x \in Nat : /\ Append(y, x) \in Seq(Nat) /\ Len(Append(y, x)) = Len(y) + 1
                                            /\ \A i \in 1..Len(y) : Append(y, x)[i] = y[i]
      BY AppendFacts
    <3>3. /\ Append(P, w) \in Seq(Nat) /\ Len(Append(P, w)) = Len(P) + 1
          /\ \A i \in 1..Len(P) : Append(P, w)[i] = P[i]
      BY <3>1, <3>2, Zenon
    <3> QED
      BY <3>1, <3>3, Zenon
  <2> QED
    BY <2>2
<1>9. Program(p, T, f, 4)
  <2>1. T[1] = stk[1] /\ T[2] = stk[2] /\ T[3] = stk[3]
    <3>1. \A i \in 1..3 : i \in 1..4 /\ i \in 1..9 /\ i \in 1..24
      OBVIOUS
    <3>2. \A i \in 1..3 : T[i] = stk[i]
      BY <1>6, <1>7, <1>8, <3>1
    <3> QED
      BY <3>2
  <2>2. f.regs["rbp"] = 4 /\ f.regs["r13"] = process_terminator
    BY <1>2, <1>3, <1>4, SomeRegs
  <2> QED
    BY <1>4, <1>5, <2>1, <2>2 DEF Program
<1>10. CallFrame(p, a, T, 4, f)
  <2>1. TrapWords(T, 4, f)
    <3>1. 6 \in 1..9 /\ 7 \in 1..9 /\ 9 \in 1..9 /\ 6 \in 1..24 /\ 7 \in 1..24 /\ 9 \in 1..24
          /\ 4 + 2 = 6 /\ 4 + 3 = 7 /\ 4 + 5 = 9
      OBVIOUS
    <3>2. T[6] = I[6] /\ T[7] = I[7] /\ T[9] = I[9]
      <4>1. P[6] = I[6] /\ P[7] = I[7] /\ P[9] = I[9]
        BY <1>7, <3>1
      <4>2. T[6] = P[6] /\ T[7] = P[7] /\ T[9] = P[9]
        BY <1>8, <3>1
      <4> QED
        BY <4>1, <4>2
    <3>3. I[6] = 4 /\ I[7] = Flags(f.enabled) /\ I[9] = f.rip
      BY <1>6, <3>1, Zenon DEF TrapWords
    <3> QED
      BY <3>1, <3>2, <3>3, Zenon DEF TrapWords
  <2>2. \A j \in 1..15 : T[4 + 5 + j] = r[PushOrder[j]]
    <3>1. \A j \in 1..15 : 9 + j \in 1..24 /\ 4 + 5 + j = 9 + j
      OBVIOUS
    <3> QED
      BY <1>7, <1>8, <3>1 DEF RegWords
  <2>3. T[4 + 6] = s[2]
    <3>1. 4 + 5 + 1 = 4 + 6 /\ 1 \in 1..15
      OBVIOUS
    <3> QED
      BY <1>2, <2>2, <3>1, ArgFacts
  <2>4. \A j \in 2..15 : T[4 + 5 + j] = f.regs[PushOrder[j]]
    <3>1. \A j \in 2..15 : j \in 1..15
      OBVIOUS
    <3> QED
      BY <1>3, <1>4, <2>2, <3>1, ArgFacts
  <2>5. a.args = [i \in 1..Arity(a.name) |-> f.regs[ArgRegs[i]]]
    <3>1. ASSUME NEW i \in 1..Arity(s[1]) PROVE CallArgs(p, s)[i] = f.regs[ArgRegs[i]]
      BY <1>2, <1>3, <1>4, ArgFacts
    <3>2. CallArgs(p, s) = [i \in 1..Arity(s[1]) |-> CallArgs(p, s)[i]]
      BY DEF CallArgs
    <3> QED
      BY <3>1, <3>2
  <2> QED
    BY <1>3, <1>4, <2>1, <2>3, <2>4, <2>5 DEF CallFrame
<1>q. PICK q : q = Append(<<>>, f)
    OBVIOUS
<1>11. q \in Seq(Ctx) /\ Len(q) = 1 /\ q[1] = f
    BY <1>q, <1>4
<1>12. Laid(p, a, T, q, 4)
  <2>1. \A k \in 2..1 : FALSE
    OBVIOUS
  <2> QED
    BY <1>9, <1>11, <2>1 DEF Laid
<1>h. PICK h : h = Append(q, e)
    OBVIOUS
<1>13. Len(h) = 2 /\ h[1] = f /\ h[2] = e
  <2>1. Len(h) = 1 + 1 /\ h[1 + 1] = e /\ \A i \in 1..1 : h[i] = q[i]
    BY <1>h, <1>11, AppendFacts
  <2> QED
    BY <1>11, <2>1
<1>14. Level(p, a, T, h, 4, 1 + 1)
  <2>1. 1 + 1 = 2
    OBVIOUS
  <2>2. Level(p, a, T, h, 4, 2)
    BY <1>4, <1>10, <1>13 DEF Level
  <2> QED
    BY <2>1, <2>2
<1>15. Laid(p, a, T, h, 4)
    BY <1>h, <1>11, <1>12, <1>14, LaidAdd
<1>16. Len(T) = Deep(4, Len(q) + 1) /\ 4 \in 0..4
    BY <1>8, <1>11 DEF Deep
<1>17. OnCpu(p, a, T, q, e)
    BY <1>h, <1>15, <1>16 DEF OnCpu
<1> QED
    BY <1>r, <1>k, <1>f, <1>I, <1>P, <1>T, <1>q, <1>4, <1>8, <1>17, Zenon

\* In the kernel of a system call: where the frame is.
CallAt(p, a, S, cs, d) ==
    /\ Laid(p, a, S, cs, d) /\ Len(cs) = 1 /\ cs[1] \in Ctx
    /\ Len(S) = d + 21 /\ CallFrame(p, a, S, d, cs[1])
    /\ Front(S) \in Seq(Nat) /\ Len(Front(S)) = d + 20 /\ \A i \in 1..(d + 20) : Front(S)[i] = S[i]
    /\ \A j \in 1..15 : popState(Front(S))[PushOrder[j]] = S[d + 5 + j]
LEMMA CallPlace ==
    ASSUME NEW p \in Nat, NEW a, NEW S \in Seq(Nat), NEW cs \in Seq(Ctx), NEW c \in Ctx, OnCpu(p, a, S, cs, c),
           c.rip = KERNEL80
    PROVE  \E d \in 0..4 : CallAt(p, a, S, cs, d)
<1>1. PICK d \in 0..4 : AtProgram(p, S, cs, c, d) \/ AtKey(p, a, S, cs, c, d) \/ AtCall(p, a, S, cs, c, d)
    BY WhereFacts
<1>2. AtCall(p, a, S, cs, c, d)
  <2>1. KERNEL01 # KERNEL80
    BY DEF KERNEL01, KERNEL80
  <2>2. ~ AtProgram(p, S, cs, c, d)
    BY PlacesDiffer DEF AtProgram
  <2> QED
    BY <1>1, <2>1, <2>2 DEF AtKey
<1>3. Laid(p, a, S, cs, d) /\ Len(cs) = 1 /\ Len(S) = d + 21 /\ CallFrame(p, a, S, d, cs[1])
    BY <1>2 DEF AtCall
<1>4. cs[1] \in Ctx
  <2>1. 1 \in 1..1
    OBVIOUS
  <2>2. \A i \in 1..Len(cs) : cs[i] \in Ctx
    OBVIOUS
  <2> QED
    BY <1>3, <2>1, <2>2
<1>F. PICK F : F = Front(S)
    OBVIOUS
<1>5. F \in Seq(Nat) /\ Len(F) = d + 20 /\ \A i \in 1..(d + 20) : F[i] = S[i]
  <2>1. Len(S) # 0 /\ Len(S) - 1 = d + 20
    BY <1>3
  <2>2. /\ F \in Seq(Nat) /\ Len(F) = Len(S) - 1
        /\ \A i \in 1..(Len(S) - 1) : F[i] = S[i]
    BY <1>F, <2>1, FrontFacts
  <2> QED
    BY <2>1, <2>2
<1>6. ASSUME NEW j \in 1..15 PROVE popState(F)[PushOrder[j]] = S[d + 5 + j]
  <2>1. d + 20 - 15 + j = d + 5 + j /\ d + 5 + j \in 1..(d + 20)
    OBVIOUS
  <2>2. popState(F)[PushOrder[j]] = F[Len(F) - 15 + j]
    BY <1>5, PopAt
  <2> QED
    BY <1>5, <2>1, <2>2
<1> QED
    BY <1>F, <1>3, <1>4, <1>5, <1>6 DEF CallAt

\* The dispatcher finds the handler of the call's name, and its arguments.
LEMMA DispatchFacts ==
    ASSUME NEW p \in Nat, NEW a, NEW S \in Seq(Nat), NEW cs \in Seq(Ctx), NEW c \in Ctx, OnCpu(p, a, S, cs, c),
           c.rip = KERNEL80
    PROVE  LET frame == popState(Front(S))
               h == syscallDispatcher(frame["rax"]) IN
           h[1] = a.name /\ [i \in 1..h[2] |-> frame[ArgRegs[i]]] = a.args
<1>0. PICK d \in 0..4 : CallAt(p, a, S, cs, d)
    BY CallPlace
<1>1. /\ CallFrame(p, a, S, d, cs[1])
      /\ \A j \in 1..15 : popState(Front(S))[PushOrder[j]] = S[d + 5 + j]
    BY <1>0 DEF CallAt
<1>f. PICK frame : frame = popState(Front(S))
    OBVIOUS
<1>g. PICK g : g = cs[1].regs
    OBVIOUS
<1>2. \A j \in 1..15 : frame[PushOrder[j]] = S[d + 5 + j]
    BY <1>1, <1>f
<1>3. PICK s \in Stub : a.name = s[1] /\ S[d + 6] = s[2]
    BY <1>1 DEF CallFrame
<1>4. frame["rax"] = s[2]
  <2>1. 1 \in 1..15 /\ d + 5 + 1 = d + 6
    OBVIOUS
  <2> QED
    BY <1>2, <1>3, <2>1, ArgFacts
<1>5. \A j \in 2..15 : S[d + 5 + j] = g[PushOrder[j]]
    BY <1>1, <1>g DEF CallFrame
<1>6. ASSUME NEW i \in 1..6 PROVE frame[ArgRegs[i]] = g[ArgRegs[i]]
  <2>1. PICK j \in 2..15 : PushOrder[j] = ArgRegs[i]
    BY ArgFacts
  <2>2. j \in 1..15
    OBVIOUS
  <2>3. frame[PushOrder[j]] = S[d + 5 + j] /\ S[d + 5 + j] = g[PushOrder[j]]
    BY <1>2, <1>5, <2>2, Zenon
  <2> QED
    BY <2>1, <2>3, Zenon
<1>n. PICK n : n = Arity(a.name)
    OBVIOUS
<1>h. PICK h : h = syscallDispatcher(frame["rax"])
    OBVIOUS
<1>7. h[1] = a.name /\ h[2] = n /\ n \in 0..6
  <2>1. syscallDispatcher(s[2]) = <<s[1], Arity(s[1])>> /\ Arity(s[1]) \in 0..6
    BY Dispatched
  <2> QED
    BY <1>3, <1>4, <1>n, <1>h, <2>1
<1>8. a.args = [i \in 1..n |-> g[ArgRegs[i]]]
    BY <1>1, <1>g, <1>n DEF CallFrame
<1>9. [i \in 1..n |-> frame[ArgRegs[i]]] = [i \in 1..n |-> g[ArgRegs[i]]]
  <2>1. \A i \in 1..n : i \in 1..6
    BY <1>7
  <2> QED
    BY <1>6, <2>1
<1> QED
    BY <1>f, <1>h, <1>7, <1>8, <1>9, Zenon

\* The end of a system call: only rax has changed.
LEMMA CallEndFacts ==
    ASSUME NEW p \in Nat, NEW a, NEW S \in Seq(Nat), NEW cs \in Seq(Ctx), NEW c \in Ctx, OnCpu(p, a, S, cs, c),
           c.rip = KERNEL80
    PROVE  LET F == Front(S)
               stk == Popped(F)
               U == SubSeq(stk, 1, stk[Len(stk) - 3]) IN
           /\ Len(cs) # 0 /\ Last(cs) \in Ctx /\ Front(cs) \in Seq(Ctx)
           /\ [popState(F) EXCEPT !["rax"] = Result(p)] = Last(cs).regs /\ Last(stk) = Last(cs).rip
           /\ (stk[Len(stk) - 2] = Flags(TRUE)) = Last(cs).enabled
           /\ U \in Seq(Nat) /\ OnCpu(p, a, U, Front(cs), Last(cs))
<1>0. PICK d \in 0..4 : CallAt(p, a, S, cs, d)
    BY CallPlace
<1>1. /\ Laid(p, a, S, cs, d) /\ Len(cs) = 1 /\ cs[1] \in Ctx
      /\ Len(S) = d + 21 /\ CallFrame(p, a, S, d, cs[1])
      /\ Front(S) \in Seq(Nat) /\ Len(Front(S)) = d + 20 /\ \A i \in 1..(d + 20) : Front(S)[i] = S[i]
      /\ \A j \in 1..15 : popState(Front(S))[PushOrder[j]] = S[d + 5 + j]
    BY <1>0 DEF CallAt
<1>e. PICK e : e = cs[1]
    OBVIOUS
<1>F. PICK F : F = Front(S)
    OBVIOUS
<1>2. F \in Seq(Nat) /\ Len(F) = d + 20 /\ (\A i \in 1..(d + 20) : F[i] = S[i])
      /\ \A j \in 1..15 : popState(F)[PushOrder[j]] = S[d + 5 + j]
    BY <1>1, <1>F
<1>3. /\ e \in Ctx /\ TrapWords(S, d, e) /\ e.regs["rax"] = Result(p)
      /\ \A j \in 2..15 : S[d + 5 + j] = e.regs[PushOrder[j]]
    BY <1>1, <1>e DEF CallFrame
<1>s. PICK stk : stk = Popped(F)
    OBVIOUS
<1>4. stk \in Seq(Nat) /\ Len(stk) = d + 5 /\ \A i \in 1..(d + 5) : stk[i] = S[i]
  <2>1. d + 20 - 15 = d + 5 /\ d + 5 \in Nat /\ d + 5 <= d + 20 /\ \A i \in 1..(d + 5) : i \in 1..(d + 20)
    OBVIOUS
  <2>a. Len(F) - 15 = d + 5
    <3>1. Len(F) = d + 20
      BY <1>2
    <3> QED
      BY <2>1, <3>1
  <2>2. stk = SubSeq(F, 1, d + 5)
    BY <1>s, <2>a, Zenon DEF Popped
  <2>3. stk \in Seq(Nat) /\ Len(stk) = d + 5 /\ \A i \in 1..(d + 5) : stk[i] = F[i]
    BY <1>2, <2>1, <2>2, PrefixFacts, ZenonT(40)
  <2> QED
    BY <1>2, <2>1, <2>3
<1>5. TrapWords(stk, d, e)
  <2>1. d + 2 \in 1..(d + 5) /\ d + 3 \in 1..(d + 5) /\ d + 5 \in 1..(d + 5)
    OBVIOUS
  <2>2. stk[d + 2] = S[d + 2] /\ stk[d + 3] = S[d + 3] /\ stk[d + 5] = S[d + 5]
    BY <1>4, <2>1
  <2> QED
    BY <1>3, <2>2, Zenon DEF TrapWords
<1>P. PICK P : P = popState(F)
    OBVIOUS
<1>6. [P EXCEPT !["rax"] = Result(p)] = e.regs
  <2>g. PICK g : g = e.regs
    OBVIOUS
  <2>1. g \in Regs /\ g["rax"] = Result(p) /\ \A j \in 2..15 : S[d + 5 + j] = g[PushOrder[j]]
    BY <1>3, <2>g DEF Ctx
  <2>2. P = [x \in Reg |-> P[x]]
    BY <1>P DEF popState
  <2>3. g = [x \in Reg |-> g[x]]
    BY <2>1, Zenon DEF Regs
  <2>4. ASSUME NEW x \in Reg, x # "rax" PROVE P[x] = g[x]
    <3>1. PICK j \in 1..15 : x = PushOrder[j]
      BY OrderFacts
    <3>2. j \in 2..15
      BY <2>4, <3>1, ArgFacts
    <3> QED
      BY <1>2, <1>P, <2>1, <3>1, <3>2
  <2>Q. PICK Q : Q = [P EXCEPT !["rax"] = Result(p)]
    OBVIOUS
  <2>5. Q = [x \in Reg |-> Q[x]] /\ \A x \in Reg : Q[x] = IF x = "rax" THEN Result(p) ELSE P[x]
    BY <2>Q, <2>2
  <2>6. \A x \in Reg : Q[x] = g[x]
    BY <2>1, <2>4, <2>5
  <2>7. [x \in Reg |-> Q[x]] = [x \in Reg |-> g[x]]
    BY <2>6
  <2>8. Q = g
    BY <2>3, <2>5, <2>7
  <2> QED
    BY <2>g, <2>Q, <2>8
<1>7. Laid(p, a, stk, cs, d)
  <2>1. Deep(d, Len(cs)) = d
    BY <1>1, DeepFacts
  <2>2. \A i \in 1..d : i \in 1..(d + 5)
    OBVIOUS
  <2>3. \A i \in 1..Deep(d, Len(cs)) : stk[i] = S[i]
    BY <1>4, <2>1, <2>2
  <2> QED
    BY <1>1, <2>3, LaidAgrees
<1>8. LET m == Len(cs)
          f == cs[m]
          V == SubSeq(stk, 1, stk[Len(stk) - 3]) IN
       /\ cs \in Seq(Ctx) /\ m # 0 /\ Last(cs) = f /\ f \in Ctx /\ Front(cs) \in Seq(Ctx)
       /\ Last(stk) = f.rip /\ (stk[Len(stk) - 2] = Flags(TRUE)) = f.enabled
       /\ V \in Seq(Nat) /\ OnCpu(p, a, V, Front(cs), f)
  <2>1. Deep(d, Len(cs)) = d /\ cs[Len(cs)] = e
    BY <1>1, <1>e, DeepFacts
  <2>2. stk \in Seq(Nat) /\ Len(stk) = Deep(d, Len(cs)) + 5 /\ TrapWords(stk, Deep(d, Len(cs)), cs[Len(cs)])
    BY <1>4, <1>5, <2>1, Zenon
  <2> QED
    BY <1>7, <2>2, ReturnFacts, Zenon
<1>9. cs[Len(cs)] = e
    BY <1>1, <1>e
<1> QED
    BY <1>F, <1>s, <1>P, <1>6, <1>8, <1>9, Zenon

\* Each place in the program, on its own.
LEMMA ProgramKinds ==
    ASSUME NEW p \in Nat, NEW S, NEW c, NEW d, Program(p, S, c, d)
    PROVE  /\ c.rip = _process_wrapper =>
                /\ p # 0 /\ d = 0 /\ c.regs["rcx"] = argc(p) /\ c.regs["r8"] = argv(p)
                /\ c.regs["rdx"] = entry_point(p) /\ c.regs["rbp"] = process_terminator
           /\ c.rip >= 101 =>
                /\ p # 0 /\ d = 1 /\ S[1] = WRAPPER_RET
                /\ c.regs["rcx"] = argc(p) /\ c.regs["r8"] = argv(p) /\ c.regs["r13"] = process_terminator
           /\ c.rip = COMMAND =>
                /\ p # 0 /\ d = 2 /\ S[1] = WRAPPER_RET /\ S[2] = ENTRY_RET
                /\ c.regs["r13"] = process_terminator
           /\ c.rip = ENTRY_RET => p # 0 /\ d = 1 /\ S[1] = WRAPPER_RET /\ c.regs["r13"] = process_terminator
           /\ c.rip = WRAPPER_RET => p # 0 /\ d = 0 /\ c.regs["r13"] = process_terminator
           /\ c.rip = process_terminator => p \notin {0, 1}
           /\ c.rip = STUB_RET =>
                /\ p # 0 /\ d = 4 /\ S[1] = WRAPPER_RET /\ S[2] = ENTRY_RET /\ S[3] = COMMAND
                /\ c.regs["rbp"] = 4 /\ c.regs["r13"] = process_terminator
<1>1. entry_point(p) \in Nat /\ entry_point(p) >= 101
    BY DEF entry_point, Own
<1>n. PICK n : n = entry_point(p)
    OBVIOUS
<1>2. CASE c.rip = n
    BY <1>1, <1>2, <1>n DEF Program, MAIN, _process_wrapper, WRAPPER_RET, ENTRY_RET, COMMAND, STUB_RET, process_terminator
<1>3. CASE c.rip # n
    BY <1>1, <1>3, <1>n DEF Program, MAIN, _process_wrapper, WRAPPER_RET, ENTRY_RET, COMMAND, STUB_RET, process_terminator
<1> QED
    BY <1>2, <1>3

LEMMA CtxIs ==
    ASSUME NEW e \in Ctx
    PROVE  e = Context(e.regs, e.rip, e.enabled) /\ e.regs \in Regs /\ e.rip \in Nat /\ e.enabled \in BOOLEAN
BY Zenon DEF Ctx, Context

LEMMA IsCtx ==
    ASSUME NEW r \in Regs, NEW i \in Nat, NEW b \in BOOLEAN
    PROVE  /\ Context(r, i, b) \in Ctx /\ Context(r, i, b).regs = r /\ Context(r, i, b).rip = i
           /\ Context(r, i, b).enabled = b
<1>1. Context(r, i, b) = [regs |-> r, rip |-> i, enabled |-> b]
    BY Zenon DEF Context
<1>2. [regs |-> r, rip |-> i, enabled |-> b] \in Ctx
    BY Zenon DEF Ctx
<1>3. [regs |-> r, rip |-> i, enabled |-> b].regs = r
    BY Zenon
<1>4. [regs |-> r, rip |-> i, enabled |-> b].rip = i
    BY Zenon
<1>5. [regs |-> r, rip |-> i, enabled |-> b].enabled = b
    BY Zenon
<1> QED
    BY <1>1, <1>2, <1>3, <1>4, <1>5, Zenon

\* The inductive invariant: what runs is laid out on its stack, and every other
\* process is parked with the frame of a timer interrupt on top.
IsCall(a) == a = [name |-> a.name, handler |-> a.handler, args |-> a.args, got |-> a.got]
TrapTypes ==
    /\ regs \in Regs /\ rip \in Nat /\ enabled \in BOOLEAN /\ running \in TrapProc
    /\ stacks \in [TrapProc -> Seq(Nat)] /\ due \in [TrapProc -> Seq(Ctx)]
    /\ call = [p \in TrapProc |-> call[p]] /\ \A p \in TrapProc : IsCall(call[p])
Levels ==
    /\ OnCpu(running, call[running], stacks[running], due[running], Context(regs, rip, enabled))
    /\ \A p \in TrapProc \ {running} : Parked(p, call[p], stacks[p], due[p])
Story ==
    /\ intact /\ pictured /\ SyscallsArrive /\ CommandsStart
    /\ started = [p \in TrapProc |-> started[p]]
TrapInv == TrapTypes /\ Levels /\ Story

LEMMA ProcFacts == \A p \in TrapProc : p \in Nat
BY TrapsAssumption DEF TrapProc

LEMMA CpuFacts ==
    ASSUME TrapTypes, Levels
    PROVE  /\ running \in Nat /\ running \in TrapProc /\ stacks[running] \in Seq(Nat) /\ due[running] \in Seq(Ctx)
           /\ LET c == Context(regs, rip, enabled) IN
              /\ c \in Ctx /\ c.regs = regs /\ c.rip = rip /\ c.enabled = enabled
              /\ OnCpu(running, call[running], stacks[running], due[running], c)
<1>1. running \in Nat /\ running \in TrapProc /\ stacks[running] \in Seq(Nat) /\ due[running] \in Seq(Ctx)
    BY ProcFacts DEF TrapTypes
<1>2. LET c == Context(regs, rip, enabled) IN
      c \in Ctx /\ c.regs = regs /\ c.rip = rip /\ c.enabled = enabled
    BY IsCtx, ZenonT(40) DEF TrapTypes
<1>3. OnCpu(running, call[running], stacks[running], due[running], Context(regs, rip, enabled))
    BY DEF Levels
<1> QED
    BY <1>1, <1>2, <1>3, Zenon

\* A step of the process that runs, and goes on running.
LEMMA CpuStep ==
    ASSUME TrapTypes, Levels, running' = running, regs' \in Regs, rip' \in Nat, enabled' \in BOOLEAN,
           NEW U \in Seq(Nat), stacks' = [stacks EXCEPT ![running] = U],
           NEW cs \in Seq(Ctx), due' = [due EXCEPT ![running] = cs],
           NEW a, IsCall(a), call' = [call EXCEPT ![running] = a],
           OnCpu(running, a, U, cs, Context(regs', rip', enabled'))
    PROVE  TrapTypes' /\ Levels'
<1>p. PICK r : r = running
    OBVIOUS
<1>0. r \in TrapProc /\ stacks \in [TrapProc -> Seq(Nat)] /\ due \in [TrapProc -> Seq(Ctx)]
    BY <1>p DEF TrapTypes
<1>1. stacks' \in [TrapProc -> Seq(Nat)] /\ stacks'[r] = U /\ \A p \in TrapProc \ {r} : stacks'[p] = stacks[p]
    BY <1>p, <1>0
<1>2. due' \in [TrapProc -> Seq(Ctx)] /\ due'[r] = cs /\ \A p \in TrapProc \ {r} : due'[p] = due[p]
    BY <1>p, <1>0
<1>3. /\ call' = [p \in TrapProc |-> call'[p]] /\ call'[r] = a
      /\ \A p \in TrapProc \ {r} : call'[p] = call[p]
    BY <1>p, <1>0 DEF TrapTypes
<1>4. \A p \in TrapProc : IsCall(call'[p])
  <2>1. \A p \in TrapProc : IsCall(call[p])
    BY DEF TrapTypes
  <2> QED
    BY <1>3, <2>1, Zenon
<1>5. TrapTypes'
    BY <1>p, <1>0, <1>1, <1>2, <1>3, <1>4 DEF TrapTypes
<1>6. OnCpu(running', call'[running'], stacks'[running'], due'[running'], Context(regs', rip', enabled'))
    BY <1>p, <1>1, <1>2, <1>3, Zenon
<1>7. \A p \in TrapProc \ {running'} : Parked(p, call'[p], stacks'[p], due'[p])
  <2>1. \A p \in TrapProc \ {r} : Parked(p, call[p], stacks[p], due[p])
    BY <1>p DEF Levels
  <2> QED
    BY <1>p, <1>1, <1>2, <1>3, <2>1, Zenon
<1> QED
    BY <1>5, <1>6, <1>7 DEF Levels

LEMMA SameFacts ==
    ASSUME TrapTypes
    PROVE  /\ stacks = [stacks EXCEPT ![running] = stacks[running]]
           /\ due = [due EXCEPT ![running] = due[running]]
           /\ call = [call EXCEPT ![running] = call[running]] /\ IsCall(call[running])
<1>1. stacks = [stacks EXCEPT ![running] = stacks[running]] /\ due = [due EXCEPT ![running] = due[running]]
    BY DEF TrapTypes
<1>2. call = [call EXCEPT ![running] = call[running]]
    BY DEF TrapTypes
<1>3. IsCall(call[running])
    BY DEF TrapTypes
<1> QED
    BY <1>1, <1>2, <1>3

LEMMA TimerLevels ==
    ASSUME TrapTypes, Levels, intact, _irq00Handler
    PROVE  TrapTypes' /\ Levels' /\ intact'
<1>p. PICK r : r = running
    OBVIOUS
<1>c. PICK c : c = Context(regs, rip, enabled)
    OBVIOUS
<1>h. PICK here : here = pushState(Interrupt(stacks[r], c.rip, c.enabled), c.regs)
    OBVIOUS
<1>w. PICK now : now = Append(due[r], c)
    OBVIOUS
<1>1. /\ r \in Nat /\ r \in TrapProc /\ stacks[r] \in Seq(Nat) /\ due[r] \in Seq(Ctx)
      /\ c \in Ctx /\ c.regs = regs /\ c.rip = rip /\ c.enabled = enabled
      /\ OnCpu(r, call[r], stacks[r], due[r], c)
    BY <1>p, <1>c, CpuFacts, Zenon
<1>2. here \in Seq(Nat) /\ now \in Seq(Ctx) /\ Parked(r, call[r], here, now)
    BY <1>1, <1>h, <1>w, ParkFacts, Zenon
<1>v. PICK saved : saved = [stacks EXCEPT ![r] = here]
    OBVIOUS
<1>o. PICK owed : owed = [due EXCEPT ![r] = now]
    OBVIOUS
<1>3. PICK n \in TrapProc :
         /\ running' = n
         /\ regs' = popState(saved[n])
         /\ rip' = Last(Popped(saved[n]))
         /\ enabled' = (Popped(saved[n])[Len(Popped(saved[n])) - 2] = Flags(TRUE))
         /\ stacks' = [saved EXCEPT ![n] = SubSeq(Popped(saved[n]), 1, Popped(saved[n])[Len(Popped(saved[n])) - 3])]
         /\ due' = [owed EXCEPT ![n] = Front(@)]
         /\ intact' = (intact /\ Last(owed[n]) = Context(regs', rip', enabled'))
  <2>1. here = pushState(Interrupt(stacks[running], rip, enabled), regs) /\ now = Append(due[running], Context(regs, rip, enabled))
    BY <1>1, <1>p, <1>c, <1>h, <1>w, Zenon
  <2> QED
    BY <1>p, <1>v, <1>o, <2>1, Zenon DEF _irq00Handler
<1>4. call' = call
    BY DEF _irq00Handler
<1>5. saved \in [TrapProc -> Seq(Nat)] /\ saved[r] = here /\ \A q \in TrapProc \ {r} : saved[q] = stacks[q]
    BY <1>1, <1>2, <1>v DEF TrapTypes
<1>6. owed \in [TrapProc -> Seq(Ctx)] /\ owed[r] = now /\ \A q \in TrapProc \ {r} : owed[q] = due[q]
    BY <1>1, <1>2, <1>o DEF TrapTypes
<1>7. \A q \in TrapProc : Parked(q, call[q], saved[q], owed[q])
  <2>1. \A q \in TrapProc \ {r} : Parked(q, call[q], stacks[q], due[q])
    BY <1>p DEF Levels
  <2>2. ASSUME NEW q \in TrapProc PROVE Parked(q, call[q], saved[q], owed[q])
    <3>1. CASE q = r
      BY <1>2, <1>5, <1>6, <3>1, Zenon
    <3>2. CASE q # r
      BY <1>5, <1>6, <2>1, <3>2, Zenon
    <3> QED
      BY <3>1, <3>2
  <2> QED
    BY <2>2
<1>S. PICK S : S = saved[n]
    OBVIOUS
<1>k. PICK stk : stk = Popped(S)
    OBVIOUS
<1>U. PICK U : U = SubSeq(stk, 1, stk[Len(stk) - 3])
    OBVIOUS
<1>e. PICK e : e = Last(owed[n])
    OBVIOUS
<1>8. /\ owed[n] \in Seq(Ctx) /\ e \in Ctx /\ Front(owed[n]) \in Seq(Ctx)
      /\ popState(S) = e.regs /\ Last(stk) = e.rip
      /\ (stk[Len(stk) - 2] = Flags(TRUE)) = e.enabled
      /\ U \in Seq(Nat) /\ OnCpu(n, call[n], U, Front(owed[n]), e)
  <2>q. PICK q : q = owed[n]
    OBVIOUS
  <2>a. PICK a : a = call[n]
    OBVIOUS
  <2>1. S \in Seq(Nat) /\ Parked(n, a, S, q)
    BY <1>5, <1>7, <1>S, <2>q, <2>a, Zenon
  <2>2. LET V == Popped(S)
            W == SubSeq(V, 1, V[Len(V) - 3]) IN
           /\ q \in Seq(Ctx) /\ Len(q) # 0 /\ Last(q) \in Ctx /\ Front(q) \in Seq(Ctx)
           /\ popState(S) = Last(q).regs /\ Last(V) = Last(q).rip
           /\ (V[Len(V) - 2] = Flags(TRUE)) = Last(q).enabled
           /\ W \in Seq(Nat) /\ OnCpu(n, a, W, Front(q), Last(q))
    BY <2>1, UnparkFacts, Zenon
  <2> QED
    BY <1>k, <1>U, <1>e, <2>q, <2>a, <2>2, Zenon
<1>9. regs' = e.regs /\ rip' = e.rip /\ enabled' = e.enabled
    BY <1>3, <1>8, <1>S, <1>k, Zenon
<1>10. Context(regs', rip', enabled') = e
    BY <1>8, <1>9, CtxIs, Zenon
<1>11. intact'
    BY <1>3, <1>10, <1>e, Zenon
<1>12. stacks' = [saved EXCEPT ![n] = U] /\ due' = [owed EXCEPT ![n] = Front(owed[n])] /\ running' = n
    BY <1>3, <1>S, <1>k, <1>U
<1>13. stacks' \in [TrapProc -> Seq(Nat)] /\ stacks'[n] = U /\ \A q \in TrapProc \ {n} : stacks'[q] = saved[q]
    BY <1>5, <1>8, <1>12
<1>14. due' \in [TrapProc -> Seq(Ctx)] /\ due'[n] = Front(owed[n]) /\ \A q \in TrapProc \ {n} : due'[q] = owed[q]
    BY <1>6, <1>8, <1>12
<1>15. TrapTypes'
  <2>1. regs' \in Regs /\ rip' \in Nat /\ enabled' \in BOOLEAN
    BY <1>8, <1>9, CtxIs, Zenon
  <2> QED
    BY <1>4, <1>12, <1>13, <1>14, <2>1, Zenon DEF TrapTypes
<1>16. Levels'
  <2>1. OnCpu(running', call'[running'], stacks'[running'], due'[running'], Context(regs', rip', enabled'))
    BY <1>4, <1>8, <1>10, <1>12, <1>13, <1>14, Zenon
  <2>2. \A q \in TrapProc \ {running'} : Parked(q, call'[q], stacks'[q], due'[q])
    BY <1>4, <1>7, <1>12, <1>13, <1>14, Zenon
  <2> QED
    BY <2>1, <2>2, Zenon DEF Levels
<1> QED
    BY <1>11, <1>15, <1>16

\* The process that ends is neither idle nor init.
LEMMA TimerEnds ==
    ASSUME TrapTypes, Levels, _irq00Handler, CommandsStart
    PROVE  ended' # {} => 0 \notin ended' /\ 1 \notin ended'
<1>1. CASE rip = process_terminator
  <2>c. PICK c : c = Context(regs, rip, enabled)
    OBVIOUS
  <2>1. /\ running \in Nat /\ stacks[running] \in Seq(Nat) /\ due[running] \in Seq(Ctx)
        /\ c \in Ctx /\ c.rip = rip
        /\ OnCpu(running, call[running], stacks[running], due[running], c)
    BY <2>c, CpuFacts, Zenon
  <2>2. c.rip # KERNEL01 /\ c.rip # KERNEL80
    BY <1>1, <2>1 DEF KERNEL01, KERNEL80, process_terminator
  <2>3. PICK d \in 0..4 : Program(running, stacks[running], c, d)
    BY <2>1, <2>2, ProgramFacts
  <2>4. running \notin {0, 1}
    BY <1>1, <2>1, <2>3, ProgramKinds
  <2>5. ended' = ended \cup {running}
    BY <1>1, Zenon DEF _irq00Handler
  <2>6. 0 \notin ended /\ 1 \notin ended
    BY DEF CommandsStart
  <2> QED
    BY <2>4, <2>5, <2>6
<1>2. CASE rip # process_terminator
  <2>1. ended' = ended
    BY <1>2, Zenon DEF _irq00Handler
  <2> QED
    BY <2>1 DEF CommandsStart
<1> QED
    BY <1>1, <1>2

LEMMA KeyLevels ==
    ASSUME TrapTypes, Levels, _irq01Handler
    PROVE  TrapTypes' /\ Levels'
<1>c. PICK c : c = Context(regs, rip, enabled)
    OBVIOUS
<1>1. /\ running \in Nat /\ running \in TrapProc /\ stacks[running] \in Seq(Nat) /\ due[running] \in Seq(Ctx)
      /\ c \in Ctx /\ c.regs = regs /\ c.rip = rip /\ c.enabled = enabled
      /\ OnCpu(running, call[running], stacks[running], due[running], c)
    BY <1>c, CpuFacts, Zenon
<1>2. regs' \in Regs /\ rip' \in Nat /\ enabled' \in BOOLEAN /\ rip' = KERNEL01
  <2>1. Junk(running) \in Nat
    BY <1>1 DEF Junk, Own
  <2>2. regs' \in Regs
    BY <2>1 DEF _irq01Handler, Regs, TrapTypes
  <2>3. rip' = KERNEL01 /\ enabled' = FALSE
    BY DEF _irq01Handler
  <2>4. KERNEL01 \in Nat
    BY DEF KERNEL01
  <2> QED
    BY <2>2, <2>3, <2>4, Zenon
<1>e. PICK e : e = Context(regs', rip', enabled')
    OBVIOUS
<1>3. e \in Ctx /\ e.rip = KERNEL01
    BY <1>2, <1>e, IsCtx, Zenon
<1>T. PICK T : T = pushState(Append(Interrupt(stacks[running], c.rip, c.enabled), Flags(FALSE)), c.regs)
    OBVIOUS
<1>q. PICK q : q = Append(due[running], c)
    OBVIOUS
<1>4. T \in Seq(Nat) /\ q \in Seq(Ctx) /\ OnCpu(running, call[running], T, q, e)
  <2>1. LET V == pushState(Append(Interrupt(stacks[running], c.rip, c.enabled), Flags(FALSE)), c.regs) IN
        V \in Seq(Nat) /\ Append(due[running], c) \in Seq(Ctx) /\ OnCpu(running, call[running], V, Append(due[running], c), e)
    BY <1>1, <1>3, KeyFacts, Zenon
  <2> QED
    BY <1>T, <1>q, <2>1, Zenon
<1>5. stacks' = [stacks EXCEPT ![running] = T] /\ due' = [due EXCEPT ![running] = q]
    BY <1>1, <1>c, <1>T, <1>q, Zenon DEF _irq01Handler
<1>6. running' = running /\ call' = call
    BY DEF _irq01Handler
<1>7. call' = [call EXCEPT ![running] = call[running]] /\ IsCall(call[running])
    BY <1>6, SameFacts
<1> QED
    BY <1>2, <1>4, <1>5, <1>6, <1>7, <1>e, CpuStep, Zenon

LEMMA KeyEndLevels ==
    ASSUME TrapTypes, Levels, intact, pictured, _irq01Handler_end
    PROVE  TrapTypes' /\ Levels' /\ intact' /\ pictured'
<1>c. PICK c : c = Context(regs, rip, enabled)
    OBVIOUS
<1>S. PICK S : S = stacks[running]
    OBVIOUS
<1>d. PICK cs : cs = due[running]
    OBVIOUS
<1>1. /\ running \in Nat /\ running \in TrapProc /\ S \in Seq(Nat) /\ cs \in Seq(Ctx)
      /\ c \in Ctx /\ c.regs = regs /\ c.rip = rip /\ c.enabled = enabled
      /\ OnCpu(running, call[running], S, cs, c)
    BY <1>c, <1>S, <1>d, CpuFacts, Zenon
<1>2. c.rip = KERNEL01
    BY <1>1 DEF _irq01Handler_end
<1>k. PICK stk : stk = Front(Popped(S))
    OBVIOUS
<1>U. PICK U : U = SubSeq(stk, 1, stk[Len(stk) - 3])
    OBVIOUS
<1>e. PICK e : e = Last(cs)
    OBVIOUS
<1>3. /\ Len(cs) # 0 /\ e \in Ctx /\ Front(cs) \in Seq(Ctx)
      /\ popState(S) = e.regs /\ Last(stk) = e.rip
      /\ (stk[Len(stk) - 2] = Flags(TRUE)) = e.enabled
      /\ U \in Seq(Nat) /\ OnCpu(running, call[running], U, Front(cs), e)
      /\ Shows(Snapshot(S), e)
  <2>1. LET V == Front(Popped(S))
            W == SubSeq(V, 1, V[Len(V) - 3]) IN
           /\ Len(cs) # 0 /\ Last(cs) \in Ctx /\ Front(cs) \in Seq(Ctx)
           /\ popState(S) = Last(cs).regs /\ Last(V) = Last(cs).rip
           /\ (V[Len(V) - 2] = Flags(TRUE)) = Last(cs).enabled
           /\ W \in Seq(Nat) /\ OnCpu(running, call[running], W, Front(cs), Last(cs))
           /\ Shows(Snapshot(S), Last(cs))
    BY <1>1, <1>2, KeyEndFacts, Zenon
  <2> QED
    BY <1>k, <1>U, <1>e, <2>1, Zenon
<1>4. /\ regs' = popState(S) /\ rip' = Last(stk) /\ enabled' = (stk[Len(stk) - 2] = Flags(TRUE))
      /\ stacks' = [stacks EXCEPT ![running] = U] /\ due' = [due EXCEPT ![running] = Front(cs)]
      /\ running' = running /\ call' = call
    BY <1>S, <1>d, <1>k, <1>U, Zenon DEF _irq01Handler_end, iretq
<1>5. regs' = e.regs /\ rip' = e.rip /\ enabled' = e.enabled
    BY <1>3, <1>4, Zenon
<1>6. Context(regs', rip', enabled') = e /\ regs' \in Regs /\ rip' \in Nat /\ enabled' \in BOOLEAN
    BY <1>3, <1>5, CtxIs, Zenon
<1>7. intact' /\ pictured'
    BY <1>3, <1>6, <1>S, <1>d, <1>e, Zenon DEF _irq01Handler_end
<1>8. call' = [call EXCEPT ![running] = call[running]] /\ IsCall(call[running])
    BY <1>4, SameFacts
<1>9. OnCpu(running, call[running], U, Front(cs), Context(regs', rip', enabled'))
    BY <1>3, <1>6, Zenon
<1>10. TrapTypes' /\ Levels'
    BY <1>3, <1>4, <1>6, <1>8, <1>9, CpuStep, Zenon
<1> QED
    BY <1>7, <1>10

LEMMA FlagLevels ==
    ASSUME TrapTypes, Levels, kernel_flag
    PROVE  TrapTypes' /\ Levels'
<1>c. PICK c : c = Context(regs, rip, enabled)
    OBVIOUS
<1>S. PICK S : S = stacks[running]
    OBVIOUS
<1>d. PICK cs : cs = due[running]
    OBVIOUS
<1>1. /\ running \in Nat /\ running \in TrapProc /\ S \in Seq(Nat) /\ cs \in Seq(Ctx)
      /\ c \in Ctx /\ c.regs = regs /\ c.rip = rip /\ c.enabled = enabled
      /\ OnCpu(running, call[running], S, cs, c)
    BY <1>c, <1>S, <1>d, CpuFacts, Zenon
<1>2. c.rip = KERNEL01 \/ c.rip = KERNEL80
    BY <1>1 DEF kernel_flag, InKernel
<1>3. Len(cs) # 0
  <2>1. PICK d \in 0..4 : \/ AtProgram(running, S, cs, c, d) \/ AtKey(running, call[running], S, cs, c, d)
                          \/ AtCall(running, call[running], S, cs, c, d)
    BY <1>1, WhereFacts
  <2>2. ~ AtProgram(running, S, cs, c, d)
    BY <1>1, <1>2, PlacesDiffer DEF AtProgram
  <2> QED
    BY <2>1, <2>2 DEF AtKey, AtCall, Laid
<1>4. /\ regs' = regs /\ rip' = rip /\ running' = running /\ stacks' = stacks /\ due' = due /\ call' = call
      /\ enabled' = ~ enabled
    BY Zenon DEF kernel_flag
<1>5. regs' \in Regs /\ rip' \in Nat /\ enabled' \in BOOLEAN
  <2>1. regs' \in Regs /\ rip' \in Nat
    BY <1>4 DEF TrapTypes
  <2>2. enabled' \in BOOLEAN
    BY <1>4, Zenon
  <2> QED
    BY <2>1, <2>2
<1>e. PICK e : e = Context(regs', rip', enabled')
    OBVIOUS
<1>6. e \in Ctx /\ e.rip = c.rip
  <2>1. e \in Ctx /\ e.rip = rip'
    BY <1>5, <1>e, IsCtx, Zenon
  <2> QED
    BY <1>1, <1>4, <2>1
<1>7. OnCpu(running, call[running], S, cs, e)
    BY <1>1, <1>3, <1>6, TopFacts
<1>8. /\ stacks' = [stacks EXCEPT ![running] = S] /\ due' = [due EXCEPT ![running] = cs]
      /\ call' = [call EXCEPT ![running] = call[running]] /\ IsCall(call[running])
    BY <1>4, <1>S, <1>d, SameFacts
<1> QED
    BY <1>1, <1>4, <1>5, <1>7, <1>8, <1>e, CpuStep, Zenon

\* Outside of the kernel.
LEMMA PlaceFacts ==
    ASSUME TrapTypes, Levels, rip # KERNEL01, rip # KERNEL80
    PROVE  /\ due[running] = <<>>
           /\ LET c == Context(regs, rip, enabled) IN
              /\ c \in Ctx /\ c.regs = regs /\ c.rip = rip
              /\ \E d \in 0..4 : Len(stacks[running]) = d /\ Program(running, stacks[running], c, d)
<1>c. PICK c : c = Context(regs, rip, enabled)
    OBVIOUS
<1>S. PICK S : S = stacks[running]
    OBVIOUS
<1>d. PICK cs : cs = due[running]
    OBVIOUS
<1>1. /\ running \in Nat /\ running \in TrapProc /\ S \in Seq(Nat) /\ cs \in Seq(Ctx)
      /\ c \in Ctx /\ c.regs = regs /\ c.rip = rip /\ c.enabled = enabled
      /\ OnCpu(running, call[running], S, cs, c)
    BY <1>c, <1>S, <1>d, CpuFacts, Zenon
<1>2. c.rip # KERNEL01 /\ c.rip # KERNEL80
    BY <1>1
<1>3. cs = <<>> /\ \E d \in 0..4 : Len(S) = d /\ Program(running, S, c, d)
    BY <1>1, <1>2, ProgramFacts
<1> QED
    BY <1>c, <1>S, <1>d, <1>1, <1>3, Zenon

LEMMA ProgramStep ==
    ASSUME TrapTypes, Levels, rip # KERNEL01, rip # KERNEL80,
           running' = running, enabled' = enabled, due' = due, regs' \in Regs, rip' \in Nat,
           NEW U \in Seq(Nat), stacks' = [stacks EXCEPT ![running] = U],
           NEW a, IsCall(a), call' = [call EXCEPT ![running] = a],
           NEW d \in 0..4, Len(U) = d, Program(running, U, Context(regs', rip', enabled'), d)
    PROVE  TrapTypes' /\ Levels'
<1>1. enabled' \in BOOLEAN
    BY Zenon DEF TrapTypes
<1>e. PICK e : e = Context(regs', rip', enabled')
    OBVIOUS
<1>2. e \in Ctx
    BY <1>1, <1>e, IsCtx, Zenon
<1>3. OnCpu(running, a, U, <<>>, e)
    BY <1>2, <1>e, ProgramRuns
<1>4. due[running] = <<>>
    BY PlaceFacts
<1>5. due' = [due EXCEPT ![running] = due[running]] /\ due[running] \in Seq(Ctx)
    BY SameFacts DEF TrapTypes
<1>6. OnCpu(running, a, U, due[running], Context(regs', rip', enabled'))
    BY <1>3, <1>4, <1>e, Zenon
<1>7. due[running] \in Seq(Ctx) /\ due' = [due EXCEPT ![running] = due[running]]
    BY <1>5
<1> QED
    BY <1>1, <1>6, <1>7, CpuStep

LEMMA WrapperLevels ==
    ASSUME TrapTypes, Levels, wrapper_call
    PROVE  TrapTypes' /\ Levels'
<1>p. PICK p : p = running
    OBVIOUS
<1>S. PICK S : S = stacks[p]
    OBVIOUS
<1>1. p \in Nat /\ S \in Seq(Nat)
    BY <1>p, <1>S, CpuFacts
<1>2. rip = _process_wrapper /\ rip # KERNEL01 /\ rip # KERNEL80
    BY DEF wrapper_call, _process_wrapper, KERNEL01, KERNEL80
<1>c. PICK c : c = Context(regs, rip, enabled)
    OBVIOUS
<1>3. c.regs = regs /\ c.rip = rip /\ \E d \in 0..4 : Len(S) = d /\ Program(p, S, c, d)
    BY <1>2, <1>c, <1>p, <1>S, PlaceFacts, Zenon
<1>4. PICK d \in 0..4 : Len(S) = d /\ Program(p, S, c, d)
    BY <1>3
<1>5. /\ p # 0 /\ d = 0 /\ regs["rcx"] = argc(p) /\ regs["r8"] = argv(p)
      /\ regs["rdx"] = entry_point(p) /\ regs["rbp"] = process_terminator
    BY <1>1, <1>2, <1>3, <1>4, ProgramKinds
<1>6. /\ regs' = [regs EXCEPT !["r12"] = regs["rdx"], !["r13"] = regs["rbp"]]
      /\ stacks' = [stacks EXCEPT ![p] = Append(S, WRAPPER_RET)] /\ rip' = regs'["r12"]
      /\ running' = running /\ enabled' = enabled /\ due' = due /\ call' = call
    BY <1>p, <1>S DEF wrapper_call, SetStack, Goto
<1>7. regs' \in Regs /\ regs'["r12"] = entry_point(p) /\ regs'["r13"] = process_terminator
      /\ regs'["rcx"] = argc(p) /\ regs'["r8"] = argv(p)
  <2>1. regs \in Regs
    BY DEF TrapTypes
  <2>2. regs' \in Regs
    BY <1>6, <2>1, SomeRegs DEF Regs
  <2>3. regs'["r12"] = regs["rdx"] /\ regs'["r13"] = regs["rbp"] /\ regs'["rcx"] = regs["rcx"] /\ regs'["r8"] = regs["r8"]
    BY <1>6, <2>1, SomeRegs DEF Regs
  <2> QED
    BY <1>5, <2>2, <2>3
<1>8. rip' \in Nat /\ rip' = entry_point(p)
    BY <1>1, <1>6, <1>7 DEF entry_point, Own
<1>U. PICK U : U = Append(S, WRAPPER_RET)
    OBVIOUS
<1>9. U \in Seq(Nat) /\ Len(U) = 1 /\ U[1] = WRAPPER_RET
  <2>1. WRAPPER_RET \in Nat
    BY DEF WRAPPER_RET
  <2>2. Len(S) = 0
    BY <1>4, <1>5
  <2> QED
    BY <1>1, <1>U, <2>1, <2>2
<1>e. PICK e : e = Context(regs', rip', enabled')
    OBVIOUS
<1>10. e.regs = regs' /\ e.rip = rip'
  <2>1. enabled' \in BOOLEAN
    BY <1>6, Zenon DEF TrapTypes
  <2>2. regs' \in Regs /\ rip' \in Nat
    BY <1>7, <1>8
  <2> QED
    BY <1>e, <2>1, <2>2, IsCtx, Zenon
<1>11. Program(p, U, e, 1)
    BY <1>5, <1>7, <1>8, <1>9, <1>10 DEF Program
<1>12. call' = [call EXCEPT ![running] = call[running]] /\ IsCall(call[running])
    BY <1>6, SameFacts
<1>13. 1 \in 0..4 /\ Program(running, U, Context(regs', rip', enabled'), 1) /\ stacks' = [stacks EXCEPT ![running] = U]
    BY <1>6, <1>11, <1>e, <1>p, <1>U
<1> QED
    BY <1>2, <1>6, <1>7, <1>8, <1>9, <1>12, <1>13, ProgramStep

\* The entry point passes argc and argv on.
LEMMA EntryLevels ==
    ASSUME TrapTypes, Levels, entry_points
    PROVE  /\ TrapTypes' /\ Levels'
           /\ started' = [started EXCEPT ![running] = <<argc(running), argv(running)>>]
<1>p. PICK p : p = running
    OBVIOUS
<1>S. PICK S : S = stacks[p]
    OBVIOUS
<1>1. p \in Nat /\ S \in Seq(Nat)
    BY <1>p, <1>S, CpuFacts
<1>2. rip >= 101 /\ rip # KERNEL01 /\ rip # KERNEL80
  <2>1. PICK q \in TrapProc : rip = entry_point(q)
    BY DEF entry_points
  <2>2. q \in Nat
    BY ProcFacts
  <2> QED
    BY <2>1, <2>2 DEF entry_point, Own, KERNEL01, KERNEL80
<1>c. PICK c : c = Context(regs, rip, enabled)
    OBVIOUS
<1>3. c.regs = regs /\ c.rip = rip /\ \E d \in 0..4 : Len(S) = d /\ Program(p, S, c, d)
    BY <1>2, <1>c, <1>p, <1>S, PlaceFacts, Zenon
<1>4. PICK d \in 0..4 : Len(S) = d /\ Program(p, S, c, d)
    BY <1>3
<1>5. /\ p # 0 /\ d = 1 /\ S[1] = WRAPPER_RET
      /\ regs["rcx"] = argc(p) /\ regs["r8"] = argv(p) /\ regs["r13"] = process_terminator
    BY <1>1, <1>2, <1>3, <1>4, ProgramKinds
<1>6. /\ regs' = [regs EXCEPT !["rdi"] = regs["rcx"], !["rsi"] = regs["r8"]]
      /\ stacks' = [stacks EXCEPT ![p] = Append(S, ENTRY_RET)] /\ rip' = COMMAND
      /\ started' = [started EXCEPT ![running] = <<regs'["rdi"], regs'["rsi"]>>]
      /\ running' = running /\ enabled' = enabled /\ due' = due /\ call' = call
    BY <1>p, <1>S DEF entry_points, SetStack, Goto
<1>7. /\ regs' \in Regs /\ regs'["r13"] = process_terminator
      /\ regs'["rdi"] = argc(p) /\ regs'["rsi"] = argv(p)
  <2>1. regs \in Regs
    BY DEF TrapTypes
  <2>2. regs' \in Regs
    BY <1>6, <2>1, SomeRegs DEF Regs
  <2>3. regs'["rdi"] = regs["rcx"] /\ regs'["rsi"] = regs["r8"] /\ regs'["r13"] = regs["r13"]
    BY <1>6, <2>1, SomeRegs DEF Regs
  <2> QED
    BY <1>5, <2>2, <2>3
<1>8. rip' \in Nat
    BY <1>6 DEF COMMAND
<1>U. PICK U : U = Append(S, ENTRY_RET)
    OBVIOUS
<1>9. U \in Seq(Nat) /\ Len(U) = 2 /\ U[1] = WRAPPER_RET /\ U[2] = ENTRY_RET
  <2>1. ENTRY_RET \in Nat
    BY DEF ENTRY_RET
  <2>2. Len(S) = 1
    BY <1>4, <1>5
  <2>3. U \in Seq(Nat) /\ Len(U) = 1 + 1 /\ U[1 + 1] = ENTRY_RET /\ \A i \in 1..1 : U[i] = S[i]
    BY <1>1, <1>U, <2>1, <2>2, AppendFacts
  <2> QED
    BY <1>5, <2>3
<1>e. PICK e : e = Context(regs', rip', enabled')
    OBVIOUS
<1>10. e.regs = regs' /\ e.rip = rip'
  <2>1. enabled' \in BOOLEAN
    BY <1>6, Zenon DEF TrapTypes
  <2>2. regs' \in Regs /\ rip' \in Nat
    BY <1>7, <1>8
  <2> QED
    BY <1>e, <2>1, <2>2, IsCtx, Zenon
<1>11. Program(p, U, e, 2)
    BY <1>5, <1>6, <1>7, <1>9, <1>10 DEF Program
<1>12. call' = [call EXCEPT ![running] = call[running]] /\ IsCall(call[running])
    BY <1>6, SameFacts
<1>13. 2 \in 0..4 /\ Program(running, U, Context(regs', rip', enabled'), 2) /\ stacks' = [stacks EXCEPT ![running] = U]
    BY <1>6, <1>11, <1>e, <1>p, <1>U
<1>14. TrapTypes' /\ Levels'
    BY <1>2, <1>6, <1>7, <1>8, <1>9, <1>12, <1>13, ProgramStep
<1> QED
    BY <1>6, <1>7, <1>14, <1>p

LEMMA JunkFacts ==
    ASSUME NEW p \in Nat, NEW rs \in Regs
    PROVE  LET r == [x \in Reg |-> IF x \in CallerSaved THEN Junk(p) ELSE rs[x]] IN
           r \in Regs /\ r["r13"] = rs["r13"]
<1>1. Junk(p) \in Nat
    BY DEF Junk, Own
<1>2. "r13" \in Reg /\ "r13" \notin CallerSaved
    BY SomeRegs DEF CallerSaved
<1> QED
    BY <1>1, <1>2 DEF Regs

LEMMA ComputeLevels ==
    ASSUME TrapTypes, Levels, compute
    PROVE  TrapTypes' /\ Levels'
<1>p. PICK p : p = running
    OBVIOUS
<1>S. PICK S : S = stacks[p]
    OBVIOUS
<1>1. p \in Nat /\ S \in Seq(Nat)
    BY <1>p, <1>S, CpuFacts
<1>2. rip = COMMAND /\ rip # KERNEL01 /\ rip # KERNEL80
    BY DEF compute, COMMAND, KERNEL01, KERNEL80
<1>c. PICK c : c = Context(regs, rip, enabled)
    OBVIOUS
<1>3. c.regs = regs /\ c.rip = rip /\ \E d \in 0..4 : Len(S) = d /\ Program(p, S, c, d)
    BY <1>2, <1>c, <1>p, <1>S, PlaceFacts, Zenon
<1>4. PICK d \in 0..4 : Len(S) = d /\ Program(p, S, c, d)
    BY <1>3
<1>5. p # 0 /\ d = 2 /\ S[1] = WRAPPER_RET /\ S[2] = ENTRY_RET /\ regs["r13"] = process_terminator
    BY <1>1, <1>2, <1>3, <1>4, ProgramKinds
<1>6. /\ regs' = [x \in Reg |-> IF x \in CallerSaved THEN Junk(p) ELSE regs[x]] /\ stacks' = stacks
      /\ rip' = COMMAND /\ running' = running /\ enabled' = enabled /\ due' = due /\ call' = call
    BY <1>p DEF compute, Goto
<1>7. regs' \in Regs /\ regs'["r13"] = process_terminator /\ rip' \in Nat
  <2>1. regs \in Regs
    BY DEF TrapTypes
  <2>2. regs' \in Regs /\ regs'["r13"] = regs["r13"]
    BY <1>1, <1>6, <2>1, JunkFacts
  <2>3. rip' \in Nat
    BY <1>6 DEF COMMAND
  <2> QED
    BY <1>5, <2>2, <2>3
<1>e. PICK e : e = Context(regs', rip', enabled')
    OBVIOUS
<1>8. e.regs = regs' /\ e.rip = rip'
  <2>1. enabled' \in BOOLEAN
    BY <1>6, Zenon DEF TrapTypes
  <2>2. regs' \in Regs /\ rip' \in Nat
    BY <1>7
  <2> QED
    BY <1>e, <2>1, <2>2, IsCtx, Zenon
<1>9. Program(p, S, e, 2)
    BY <1>5, <1>6, <1>7, <1>8 DEF Program
<1>10. /\ call' = [call EXCEPT ![running] = call[running]] /\ IsCall(call[running])
       /\ stacks' = [stacks EXCEPT ![running] = S]
    BY <1>6, <1>p, <1>S, SameFacts
<1>11. 2 \in 0..4 /\ Len(S) = 2 /\ Program(running, S, Context(regs', rip', enabled'), 2)
    BY <1>4, <1>5, <1>9, <1>e, <1>p
<1> QED
    BY <1>1, <1>2, <1>6, <1>7, <1>10, <1>11, ProgramStep

LEMMA ReturnLevels ==
    ASSUME TrapTypes, Levels, return
    PROVE  TrapTypes' /\ Levels'
<1>p. PICK p : p = running
    OBVIOUS
<1>S. PICK S : S = stacks[p]
    OBVIOUS
<1>1. p \in Nat /\ S \in Seq(Nat)
    BY <1>p, <1>S, CpuFacts
<1>2. /\ rip = COMMAND \/ rip = ENTRY_RET \/ rip = WRAPPER_RET
      /\ rip # KERNEL01 /\ rip # KERNEL80
  <2>1. rip = COMMAND \/ rip = ENTRY_RET \/ rip = WRAPPER_RET
    BY DEF return
  <2> QED
    BY <2>1 DEF COMMAND, ENTRY_RET, WRAPPER_RET, KERNEL01, KERNEL80
<1>c. PICK c : c = Context(regs, rip, enabled)
    OBVIOUS
<1>3. c.regs = regs /\ c.rip = rip /\ \E d \in 0..4 : Len(S) = d /\ Program(p, S, c, d)
    BY <1>2, <1>c, <1>p, <1>S, PlaceFacts, Zenon
<1>4. PICK d \in 0..4 : Len(S) = d /\ Program(p, S, c, d)
    BY <1>3
<1>5. /\ rip = COMMAND => d = 2 /\ S[1] = WRAPPER_RET /\ S[2] = ENTRY_RET
      /\ rip = ENTRY_RET => d = 1 /\ S[1] = WRAPPER_RET
      /\ rip = WRAPPER_RET => d = 0
      /\ p # 0 /\ regs["r13"] = process_terminator
    BY <1>1, <1>2, <1>3, <1>4, ProgramKinds
<1>6. regs' = regs /\ running' = running /\ enabled' = enabled /\ due' = due /\ call' = call /\ p # 1
    BY <1>p DEF return, Goto
<1>7. regs' \in Regs
    BY <1>6 DEF TrapTypes
<1>8. call' = [call EXCEPT ![running] = call[running]] /\ IsCall(call[running])
    BY <1>6, SameFacts
<1>e. PICK e : e = Context(regs', rip', enabled')
    OBVIOUS
<1>9. rip' \in Nat => e.regs = regs' /\ e.rip = rip'
  <2>1. enabled' \in BOOLEAN
    BY <1>6, Zenon DEF TrapTypes
  <2> QED
    BY <1>e, <1>7, <2>1, IsCtx, Zenon
<1>10. ASSUME NEW U \in Seq(Nat), NEW m \in 0..4, Len(U) = m, Program(p, U, e, m), rip' \in Nat,
              stacks' = [stacks EXCEPT ![p] = U]
       PROVE  TrapTypes' /\ Levels'
  <2>1. Program(running, U, Context(regs', rip', enabled'), m) /\ stacks' = [stacks EXCEPT ![running] = U]
    BY <1>10, <1>e, <1>p
  <2> QED
    BY <1>2, <1>6, <1>7, <1>8, <1>10, <2>1, ProgramStep
<1>11. CASE rip = WRAPPER_RET
  <2>1. rip' = process_terminator /\ stacks' = [stacks EXCEPT ![p] = Append(S, 0)]
    BY <1>5, <1>11, <1>p, <1>S DEF return, Goto, SetStack
  <2>2. rip' \in Nat
    BY <2>1 DEF process_terminator
  <2>U. PICK U : U = Append(S, 0)
    OBVIOUS
  <2>3. U \in Seq(Nat) /\ Len(U) = 1
    BY <1>1, <1>4, <1>5, <1>11, <2>U
  <2>4. Program(p, U, e, 1)
    BY <1>5, <1>6, <1>9, <2>1, <2>2 DEF Program
  <2>5. 1 \in 0..4
    OBVIOUS
  <2> QED
    BY <1>10, <2>1, <2>2, <2>3, <2>4, <2>5, <2>U
<1>12. CASE rip # WRAPPER_RET
  <2>1. rip' = Last(S) /\ stacks' = [stacks EXCEPT ![p] = Front(S)]
    BY <1>12, <1>p, <1>S DEF return, Goto, SetStack
  <2>U. PICK U : U = Front(S)
    OBVIOUS
  <2>2. /\ Len(S) # 0
        /\ U \in Seq(Nat) /\ Len(U) = Len(S) - 1 /\ (\A i \in 1..(Len(S) - 1) : U[i] = S[i])
        /\ rip' = S[Len(S)] /\ S[Len(S)] \in Nat
    <3>1. Len(S) # 0
      BY <1>2, <1>4, <1>5, <1>12
    <3> QED
      BY <1>1, <2>1, <2>U, <3>1, FrontFacts
  <2>3. CASE rip = COMMAND
    <3>1. Len(S) = 2 /\ S[1] = WRAPPER_RET /\ S[2] = ENTRY_RET
      BY <1>4, <1>5, <2>3
    <3>2. 2 - 1 = 1 /\ 1 \in 1..1 /\ 1 \in 0..4
      OBVIOUS
    <3>3. Len(U) = 1 /\ U[1] = WRAPPER_RET /\ rip' = ENTRY_RET /\ rip' \in Nat
      BY <2>2, <3>1, <3>2
    <3>4. Program(p, U, e, 1)
      BY <1>5, <1>6, <1>9, <3>3 DEF Program
    <3> QED
      BY <1>10, <2>1, <2>2, <2>U, <3>2, <3>3, <3>4
  <2>4. CASE rip = ENTRY_RET
    <3>1. Len(S) = 1 /\ S[1] = WRAPPER_RET
      BY <1>4, <1>5, <2>4
    <3>2. 1 - 1 = 0 /\ 0 \in 0..4
      OBVIOUS
    <3>3. Len(U) = 0 /\ rip' = WRAPPER_RET /\ rip' \in Nat
      BY <2>2, <3>1, <3>2
    <3>4. Program(p, U, e, 0)
      BY <1>5, <1>6, <1>9, <3>3 DEF Program
    <3> QED
      BY <1>10, <2>1, <2>2, <2>U, <3>2, <3>3, <3>4
  <2> QED
    BY <1>2, <1>12, <2>3, <2>4
<1> QED
    BY <1>11, <1>12

LEMMA StubRetLevels ==
    ASSUME TrapTypes, Levels, stub_ret
    PROVE  TrapTypes' /\ Levels'
<1>p. PICK p : p = running
    OBVIOUS
<1>S. PICK S : S = stacks[p]
    OBVIOUS
<1>1. p \in Nat /\ S \in Seq(Nat)
    BY <1>p, <1>S, CpuFacts
<1>2. rip = STUB_RET /\ rip # KERNEL01 /\ rip # KERNEL80
    BY DEF stub_ret, STUB_RET, KERNEL01, KERNEL80
<1>c. PICK c : c = Context(regs, rip, enabled)
    OBVIOUS
<1>3. c.regs = regs /\ c.rip = rip /\ \E d \in 0..4 : Len(S) = d /\ Program(p, S, c, d)
    BY <1>2, <1>c, <1>p, <1>S, PlaceFacts, Zenon
<1>4. PICK d \in 0..4 : Len(S) = d /\ Program(p, S, c, d)
    BY <1>3
<1>5. /\ p # 0 /\ d = 4 /\ S[1] = WRAPPER_RET /\ S[2] = ENTRY_RET /\ S[3] = COMMAND
      /\ regs["rbp"] = 4 /\ regs["r13"] = process_terminator
    BY <1>1, <1>2, <1>3, <1>4, ProgramKinds
<1>k. PICK stk : stk = SubSeq(S, 1, 4)
    OBVIOUS
<1>6. stk \in Seq(Nat) /\ Len(stk) = 4 /\ \A i \in 1..4 : stk[i] = S[i]
  <2>1. 4 \in Nat /\ 4 <= Len(S)
    BY <1>4, <1>5
  <2> QED
    BY <1>1, <1>k, <2>1, PrefixFacts
<1>7. Last(stk) \in Nat /\ Front(stk) \in Seq(Nat) /\ Len(Front(stk)) = 3 /\ \A i \in 1..3 : Front(stk)[i] = stk[i]
  <2>1. 4 - 1 = 3 /\ 4 # 0
    OBVIOUS
  <2>2. /\ Front(stk) \in Seq(Nat) /\ Len(Front(stk)) = Len(stk) - 1
        /\ \A i \in 1..(Len(stk) - 1) : Front(stk)[i] = stk[i]
        /\ Last(stk) = stk[Len(stk)] /\ stk[Len(stk)] \in Nat
    BY <1>6, <2>1, FrontFacts
  <2> QED
    BY <1>6, <2>1, <2>2
<1>U. PICK U : U = Front(Front(stk))
    OBVIOUS
<1>8. U \in Seq(Nat) /\ Len(U) = 2 /\ U[1] = WRAPPER_RET /\ U[2] = ENTRY_RET
  <2>1. 3 - 1 = 2 /\ 3 # 0 /\ \A i \in 1..2 : i \in 1..3 /\ i \in 1..4
    OBVIOUS
  <2>2. U \in Seq(Nat) /\ Len(U) = 2 /\ \A i \in 1..2 : U[i] = Front(stk)[i]
    <3>F. PICK F : F = Front(stk)
      OBVIOUS
    <3>1. F \in Seq(Nat) /\ Len(F) = 3 /\ U = Front(F)
      BY <1>7, <1>U, <3>F
    <3>2. U \in Seq(Nat) /\ Len(U) = Len(F) - 1 /\ \A i \in 1..(Len(F) - 1) : U[i] = F[i]
      BY <2>1, <3>1, FrontFacts
    <3> QED
      BY <2>1, <3>1, <3>2, <3>F
  <2>3. \A i \in 1..2 : U[i] = S[i]
    BY <1>6, <1>7, <2>1, <2>2
  <2>4. 1 \in 1..2 /\ 2 \in 1..2
    OBVIOUS
  <2> QED
    BY <1>5, <2>2, <2>3, <2>4
<1>9. /\ regs' = [regs EXCEPT !["rbp"] = Last(stk)] /\ stacks' = [stacks EXCEPT ![p] = U]
      /\ call' = [call EXCEPT ![p] = NoCall] /\ rip' = stk[Len(stk) - 1]
      /\ running' = running /\ enabled' = enabled /\ due' = due
  <2>1. stk = SubSeq(stacks[running], 1, regs["rbp"])
    BY <1>5, <1>k, <1>p, <1>S
  <2> QED
    BY <1>p, <1>S, <1>U, <2>1 DEF stub_ret, Goto, SetStack
<1>10. rip' = COMMAND /\ rip' \in Nat
  <2>1. 4 - 1 = 3 /\ 3 \in 1..4
    OBVIOUS
  <2>2. stk[Len(stk) - 1] = S[3]
    BY <1>6, <2>1
  <2> QED
    BY <1>5, <1>9, <2>2 DEF COMMAND
<1>11. regs' \in Regs /\ regs'["r13"] = process_terminator
  <2>1. regs \in Regs
    BY DEF TrapTypes
  <2>2. regs' \in Regs
    BY <1>7, <1>9, <2>1, SomeRegs DEF Regs
  <2>3. regs'["r13"] = regs["r13"]
    BY <1>9, <2>1, SomeRegs DEF Regs
  <2> QED
    BY <1>5, <2>2, <2>3
<1>e. PICK e : e = Context(regs', rip', enabled')
    OBVIOUS
<1>12. e.regs = regs' /\ e.rip = rip'
  <2>1. enabled' \in BOOLEAN
    BY <1>9, Zenon DEF TrapTypes
  <2>2. regs' \in Regs /\ rip' \in Nat
    BY <1>10, <1>11
  <2> QED
    BY <1>e, <2>1, <2>2, IsCtx, Zenon
<1>13. Program(p, U, e, 2)
    BY <1>5, <1>8, <1>10, <1>11, <1>12 DEF Program
<1>14. IsCall(NoCall)
    BY DEF IsCall, NoCall
<1>15. /\ 2 \in 0..4 /\ Program(running, U, Context(regs', rip', enabled'), 2)
       /\ stacks' = [stacks EXCEPT ![running] = U] /\ call' = [call EXCEPT ![running] = NoCall]
    BY <1>9, <1>13, <1>e, <1>p
<1> QED
    BY <1>2, <1>8, <1>9, <1>10, <1>11, <1>14, <1>15, ProgramStep

LEMMA TrapLevels ==
    ASSUME TrapTypes, Levels, NEW s \in Stub, sys_int80(s)
    PROVE  /\ TrapTypes' /\ Levels'
           /\ \E a : call' = [call EXCEPT ![running] = a] /\ a.handler = "none"
<1>p. PICK p : p = running
    OBVIOUS
<1>S. PICK S : S = stacks[p]
    OBVIOUS
<1>1. p \in Nat /\ S \in Seq(Nat) /\ regs \in Regs /\ enabled \in BOOLEAN
  <2>1. p \in Nat /\ S \in Seq(Nat)
    BY <1>p, <1>S, CpuFacts
  <2> QED
    BY <2>1, Zenon DEF TrapTypes
<1>2. rip = COMMAND /\ rip # KERNEL01 /\ rip # KERNEL80
    BY DEF sys_int80, COMMAND, KERNEL01, KERNEL80
<1>c. PICK c : c = Context(regs, rip, enabled)
    OBVIOUS
<1>3. c \in Ctx /\ c.regs = regs /\ c.rip = rip /\ due[p] = <<>> /\ \E d \in 0..4 : Len(S) = d /\ Program(p, S, c, d)
    BY <1>2, <1>c, <1>p, <1>S, PlaceFacts, Zenon
<1>4. PICK d \in 0..4 : Len(S) = d /\ Program(p, S, c, d)
    BY <1>3
<1>5. p # 0 /\ Len(S) = 2 /\ S[1] = WRAPPER_RET /\ S[2] = ENTRY_RET /\ regs["r13"] = process_terminator
    BY <1>1, <1>2, <1>3, <1>4, ProgramKinds
<1>6. c.enabled = enabled
    BY <1>c, CpuFacts, Zenon
<1>k. PICK stk : stk = S \o <<COMMAND, regs["rbp"]>>
    OBVIOUS
<1>7. Len(stk) = 4
  <2>1. regs["rbp"] \in Nat /\ COMMAND \in Nat
    BY <1>1, SomeRegs DEF Regs, COMMAND
  <2>z. PICK z : z = <<COMMAND, regs["rbp"]>>
    OBVIOUS
  <2>2. z \in Seq(Nat) /\ Len(z) = 2
    BY <2>z, <2>1
  <2>3. Len(S \o z) = Len(S) + Len(z)
    BY <1>1, <2>2, JoinedSeq
  <2>4. stk = S \o z
    BY <1>k, <2>z
  <2> QED
    BY <1>5, <2>2, <2>3, <2>4
<1>A. PICK A : A = CallArgs(p, s)
    OBVIOUS
<1>r. PICK r : r = CallRegs(p, s, regs)
    OBVIOUS
<1>8. A = [i \in 1..Arity(s[1]) |-> Argument(running, i)]
    BY <1>A, <1>p DEF CallArgs
<1>9. r = [x \in Reg |-> IF x = "rax" THEN s[2]
                         ELSE IF x = "rbp" THEN Len(stk)
                         ELSE IF \E i \in DOMAIN A : ArgRegs[i] = x
                              THEN A[CHOOSE i \in DOMAIN A : ArgRegs[i] = x]
                         ELSE regs[x]]
    BY <1>7, <1>r, <1>A DEF CallRegs
<1>f. PICK f : f = Context([r EXCEPT !["rax"] = Result(p)], STUB_RET, enabled)
    OBVIOUS
<1>T. PICK T : T = Append(pushState(Interrupt(stk, STUB_RET, enabled), r), s[2])
    OBVIOUS
<1>a. PICK a : a = [NoCall EXCEPT !.name = s[1], !.args = A]
    OBVIOUS
<1>10. a.name = s[1] /\ a.args = A /\ a.handler = "none" /\ IsCall(a)
    BY <1>a DEF NoCall, IsCall
<1>11. /\ regs' = r /\ stacks' = [stacks EXCEPT ![p] = T] /\ rip' = KERNEL80 /\ enabled' = FALSE
       /\ call' = [call EXCEPT ![p] = a] /\ due' = [due EXCEPT ![p] = Append(@, f)] /\ running' = running
  <2>1. stk = stacks[running] \o <<COMMAND, regs["rbp"]>>
    BY <1>k, <1>S, <1>p
  <2> QED
    BY <2>1, <1>8, <1>9, <1>f, <1>T, <1>a, <1>p, Zenon DEF sys_int80
<1>12. r \in Regs
    BY <1>1, <1>r, CallRegsFacts
<1>e. PICK e : e = Context(regs', rip', enabled')
    OBVIOUS
<1>13. regs' \in Regs /\ rip' \in Nat /\ enabled' \in BOOLEAN
  <2>1. KERNEL80 \in Nat
    BY DEF KERNEL80
  <2> QED
    BY <1>11, <1>12, <2>1, Zenon
<1>14. e \in Ctx /\ e.rip = KERNEL80
  <2>1. e \in Ctx /\ e.rip = rip'
    BY <1>13, <1>e, IsCtx, Zenon
  <2> QED
    BY <1>11, <2>1
<1>15. T \in Seq(Nat) /\ f \in Ctx /\ OnCpu(p, a, T, Append(<<>>, f), e)
  <2>1. c.regs["r13"] = process_terminator /\ a.args = CallArgs(p, s)
    BY <1>3, <1>5, <1>10, <1>A
  <2>2. LET w == CallRegs(p, s, c.regs)
            k == S \o <<COMMAND, c.regs["rbp"]>>
            V == Append(pushState(Interrupt(k, STUB_RET, c.enabled), w), s[2])
            g == Context([w EXCEPT !["rax"] = Result(p)], STUB_RET, c.enabled) IN
        V \in Seq(Nat) /\ g \in Ctx /\ OnCpu(p, a, V, Append(<<>>, g), e)
    BY <1>1, <1>3, <1>5, <1>10, <1>14, <2>1, CallFacts, Zenon
  <2> QED
    BY <1>3, <1>6, <1>k, <1>r, <1>f, <1>T, <2>2, Zenon
<1>q. PICK q : q = Append(<<>>, f)
    OBVIOUS
<1>16. q \in Seq(Ctx)
    BY <1>15, <1>q
<1>17. due' = [due EXCEPT ![running] = q]
    BY <1>3, <1>11, <1>p, <1>q
<1>18. /\ OnCpu(running, a, T, q, Context(regs', rip', enabled'))
       /\ stacks' = [stacks EXCEPT ![running] = T] /\ call' = [call EXCEPT ![running] = a]
    BY <1>11, <1>15, <1>q, <1>e, <1>p, Zenon
<1>19. TrapTypes' /\ Levels'
    BY <1>10, <1>11, <1>13, <1>15, <1>16, <1>17, <1>18, CpuStep, Zenon
<1> QED
    BY <1>10, <1>18, <1>19, Zenon

LEMMA HandledIs ==
    ASSUME NEW a, IsCall(a), NEW x, NEW y
    PROVE  [[a EXCEPT !.handler = x] EXCEPT !.got = y] = [name |-> a.name, handler |-> x, args |-> a.args, got |-> y]
<1>n. PICK n : n = a.name
    OBVIOUS
<1>h. PICK h : h = a.handler
    OBVIOUS
<1>r. PICK r : r = a.args
    OBVIOUS
<1>g. PICK g : g = a.got
    OBVIOUS
<1>0. a = [name |-> n, handler |-> h, args |-> r, got |-> g]
    BY <1>n, <1>h, <1>r, <1>g DEF IsCall
<1>1. [a EXCEPT !.handler = x] = [name |-> n, handler |-> x, args |-> r, got |-> g]
    BY <1>0
<1>2. [[name |-> n, handler |-> x, args |-> r, got |-> g] EXCEPT !.got = y] = [name |-> n, handler |-> x, args |-> r, got |-> y]
    OBVIOUS
<1> QED
    BY <1>n, <1>r, <1>1, <1>2, Zenon

\* The handler is the one of the call's name, and gets the arguments given.
LEMMA DispatchLevels ==
    ASSUME TrapTypes, Levels, dispatch_call
    PROVE  /\ TrapTypes' /\ Levels'
           /\ \E a : call' = [call EXCEPT ![running] = a] /\ a.handler = a.name /\ a.got = a.args
<1>c. PICK c : c = Context(regs, rip, enabled)
    OBVIOUS
<1>S. PICK S : S = stacks[running]
    OBVIOUS
<1>d. PICK cs : cs = due[running]
    OBVIOUS
<1>a. PICK a : a = call[running]
    OBVIOUS
<1>1. /\ running \in Nat /\ running \in TrapProc /\ S \in Seq(Nat) /\ cs \in Seq(Ctx)
      /\ c \in Ctx /\ c.regs = regs /\ c.rip = rip /\ c.enabled = enabled
      /\ OnCpu(running, a, S, cs, c)
    BY <1>c, <1>S, <1>d, <1>a, CpuFacts, Zenon
<1>2. c.rip = KERNEL80
    BY <1>1 DEF dispatch_call
<1>f. PICK frame : frame = popState(Front(S))
    OBVIOUS
<1>h. PICK h : h = syscallDispatcher(frame["rax"])
    OBVIOUS
<1>G. PICK G : G = [i \in 1..h[2] |-> frame[ArgRegs[i]]]
    OBVIOUS
<1>3. h[1] = a.name /\ G = a.args
  <2>1. LET fr == popState(Front(S))
            hd == syscallDispatcher(fr["rax"]) IN
        hd[1] = a.name /\ [i \in 1..hd[2] |-> fr[ArgRegs[i]]] = a.args
    BY <1>1, <1>2, DispatchFacts, Zenon
  <2> QED
    BY <1>f, <1>h, <1>G, <2>1, Zenon
<1>4. Len(cs) # 0
  <2>1. PICK d \in 0..4 : CallAt(running, a, S, cs, d)
    BY <1>1, <1>2, CallPlace
  <2> QED
    BY <2>1 DEF CallAt
<1>5. /\ call' = [call EXCEPT ![running].handler = h[1], ![running].got = G]
      /\ regs' = [x \in Reg |-> IF x \in CallerSaved THEN Junk(running) ELSE regs[x]]
      /\ rip' = KERNEL80 /\ enabled' = enabled /\ running' = running /\ due' = due /\ stacks' = stacks
    BY <1>S, <1>f, <1>h, <1>G, Zenon DEF dispatch_call, Goto
<1>b. PICK b : b = [name |-> a.name, handler |-> a.name, args |-> a.args, got |-> a.args]
    OBVIOUS
<1>6. b.name = a.name /\ b.args = a.args /\ b.handler = b.name /\ b.got = b.args /\ IsCall(b)
    BY <1>b DEF IsCall
<1>7. call' = [call EXCEPT ![running] = b]
  <2>0. IsCall(a)
    BY <1>a, SameFacts
  <2>1. call = [p \in TrapProc |-> call[p]] /\ a = [name |-> a.name, handler |-> a.handler, args |-> a.args, got |-> a.got]
    BY <1>a DEF TrapTypes, IsCall
  <2>2. call' = [call EXCEPT ![running] = [[a EXCEPT !.handler = a.name] EXCEPT !.got = a.args]]
    BY <1>1, <1>3, <1>5, <1>a, <2>1
  <2>3. [[a EXCEPT !.handler = a.name] EXCEPT !.got = a.args] = b
    BY <1>b, <2>0, HandledIs, Zenon
  <2> QED
    BY <2>2, <2>3
<1>8. regs' \in Regs /\ rip' \in Nat /\ enabled' \in BOOLEAN
  <2>1. regs \in Regs
    BY DEF TrapTypes
  <2>2. regs' \in Regs
    BY <1>1, <1>5, <2>1, JunkFacts
  <2>3. rip' \in Nat
    BY <1>5 DEF KERNEL80
  <2>4. enabled' \in BOOLEAN
    BY <1>5, Zenon DEF TrapTypes
  <2> QED
    BY <2>2, <2>3, <2>4
<1>e. PICK e : e = Context(regs', rip', enabled')
    OBVIOUS
<1>9. e \in Ctx /\ e.rip = c.rip
  <2>1. e \in Ctx /\ e.rip = rip'
    BY <1>8, <1>e, IsCtx, Zenon
  <2> QED
    BY <1>2, <1>5, <2>1
<1>10. OnCpu(running, b, S, cs, e)
    BY <1>1, <1>4, <1>6, <1>9, TopFacts
<1>11. stacks' = [stacks EXCEPT ![running] = S] /\ due' = [due EXCEPT ![running] = cs]
    BY <1>5, <1>S, <1>d, SameFacts
<1>12. TrapTypes' /\ Levels'
    BY <1>1, <1>5, <1>6, <1>7, <1>8, <1>10, <1>11, <1>e, CpuStep, Zenon
<1> QED
    BY <1>6, <1>7, <1>12, Zenon

LEMMA CallEndLevels ==
    ASSUME TrapTypes, Levels, intact, _irq80Handler_end
    PROVE  TrapTypes' /\ Levels' /\ intact'
<1>c. PICK c : c = Context(regs, rip, enabled)
    OBVIOUS
<1>S. PICK S : S = stacks[running]
    OBVIOUS
<1>d. PICK cs : cs = due[running]
    OBVIOUS
<1>1. /\ running \in Nat /\ running \in TrapProc /\ S \in Seq(Nat) /\ cs \in Seq(Ctx)
      /\ c \in Ctx /\ c.regs = regs /\ c.rip = rip /\ c.enabled = enabled
      /\ OnCpu(running, call[running], S, cs, c)
    BY <1>c, <1>S, <1>d, CpuFacts, Zenon
<1>2. c.rip = KERNEL80
    BY <1>1 DEF _irq80Handler_end
<1>F. PICK F : F = Front(S)
    OBVIOUS
<1>k. PICK stk : stk = Popped(F)
    OBVIOUS
<1>U. PICK U : U = SubSeq(stk, 1, stk[Len(stk) - 3])
    OBVIOUS
<1>e. PICK e : e = Last(cs)
    OBVIOUS
<1>3. /\ Len(cs) # 0 /\ e \in Ctx /\ Front(cs) \in Seq(Ctx)
      /\ [popState(F) EXCEPT !["rax"] = Result(running)] = e.regs /\ Last(stk) = e.rip
      /\ (stk[Len(stk) - 2] = Flags(TRUE)) = e.enabled
      /\ U \in Seq(Nat) /\ OnCpu(running, call[running], U, Front(cs), e)
  <2>1. LET E == Front(S)
            V == Popped(E)
            W == SubSeq(V, 1, V[Len(V) - 3]) IN
           /\ Len(cs) # 0 /\ Last(cs) \in Ctx /\ Front(cs) \in Seq(Ctx)
           /\ [popState(E) EXCEPT !["rax"] = Result(running)] = Last(cs).regs /\ Last(V) = Last(cs).rip
           /\ (V[Len(V) - 2] = Flags(TRUE)) = Last(cs).enabled
           /\ W \in Seq(Nat) /\ OnCpu(running, call[running], W, Front(cs), Last(cs))
    BY <1>1, <1>2, CallEndFacts, Zenon
  <2> QED
    BY <1>F, <1>k, <1>U, <1>e, <2>1, Zenon
<1>4. /\ regs' = [popState(F) EXCEPT !["rax"] = Result(running)] /\ rip' = Last(stk)
      /\ enabled' = (stk[Len(stk) - 2] = Flags(TRUE))
      /\ stacks' = [stacks EXCEPT ![running] = U] /\ due' = [due EXCEPT ![running] = Front(cs)]
      /\ running' = running /\ call' = call
    BY <1>S, <1>d, <1>F, <1>k, <1>U, Zenon DEF _irq80Handler_end, iretq
<1>5. regs' = e.regs /\ rip' = e.rip /\ enabled' = e.enabled
    BY <1>3, <1>4, Zenon
<1>6. Context(regs', rip', enabled') = e /\ regs' \in Regs /\ rip' \in Nat /\ enabled' \in BOOLEAN
    BY <1>3, <1>5, CtxIs, Zenon
<1>7. intact'
    BY <1>6, <1>d, <1>e, Zenon DEF _irq80Handler_end
<1>8. call' = [call EXCEPT ![running] = call[running]] /\ IsCall(call[running])
    BY <1>4, SameFacts
<1>9. OnCpu(running, call[running], U, Front(cs), Context(regs', rip', enabled'))
    BY <1>3, <1>6, Zenon
<1>10. TrapTypes' /\ Levels'
    BY <1>3, <1>4, <1>6, <1>8, <1>9, CpuStep, Zenon
<1> QED
    BY <1>7, <1>10

\* The first stack of a process is that of one interrupted at _process_wrapper.
FirstRegs(p) == [Zeros EXCEPT !["rcx"] = argc(p), !["r8"] = argv(p), !["rdx"] = entry_point(p), !["rbp"] = process_terminator]
LEMMA FirstRegsFacts ==
    ASSUME NEW p \in Nat
    PROVE  /\ FirstRegs(p) \in Regs
           /\ FirstRegs(p)["rcx"] = argc(p) /\ FirstRegs(p)["r8"] = argv(p)
           /\ FirstRegs(p)["rdx"] = entry_point(p) /\ FirstRegs(p)["rbp"] = process_terminator
           /\ \A x \in Reg \ {"rcx", "r8", "rdx", "rbp"} : FirstRegs(p)[x] = 0
<1>1. argc(p) \in Nat /\ argv(p) \in Nat /\ entry_point(p) \in Nat /\ process_terminator \in Nat
    BY DEF argc, argv, entry_point, Own, process_terminator
<1>2. Zeros \in Regs /\ \A x \in Reg : Zeros[x] = 0
    BY DEF Zeros, Regs
<1>g. PICK g : g = FirstRegs(p)
    OBVIOUS
<1>3. g \in Regs
    BY <1>1, <1>2, <1>g, SomeRegs DEF FirstRegs, Regs
<1>4. g["rcx"] = argc(p) /\ g["r8"] = argv(p) /\ g["rdx"] = entry_point(p) /\ g["rbp"] = process_terminator
    BY <1>2, <1>g, SomeRegs DEF FirstRegs, Regs
<1>5. \A x \in Reg \ {"rcx", "r8", "rdx", "rbp"} : g[x] = 0
    BY <1>2, <1>g DEF FirstRegs, Regs
<1> QED
    BY <1>3, <1>4, <1>5, <1>g

LEMMA FirstStack ==
    ASSUME NEW p \in Nat, p # 0, NEW a
    PROVE  LET S == stackInit(entry_point(p), process_terminator, argc(p), argv(p))
               c == Context(FirstRegs(p), _process_wrapper, TRUE) IN
           S \in Seq(Nat) /\ c \in Ctx /\ Parked(p, a, S, <<c>>)
<1>S. PICK S : S = stackInit(entry_point(p), process_terminator, argc(p), argv(p))
    OBVIOUS
<1>c. PICK c : c = Context(FirstRegs(p), _process_wrapper, TRUE)
    OBVIOUS
<1>r. PICK r : r = FirstRegs(p)
    OBVIOUS
<1>x. PICK x : x = entry_point(p)
    OBVIOUS
<1>n. PICK n : n = argc(p)
    OBVIOUS
<1>v. PICK v : v = argv(p)
    OBVIOUS
<1>t. PICK t : t = process_terminator
    OBVIOUS
<1>f. PICK f : f = Flags(TRUE)
    OBVIOUS
<1>w. PICK w : w = _process_wrapper
    OBVIOUS
<1>1. x \in Nat /\ n \in Nat /\ v \in Nat /\ t \in Nat /\ f \in Nat /\ w \in Nat
    BY <1>x, <1>n, <1>v, <1>t, <1>f, <1>w DEF argc, argv, entry_point, Own, process_terminator, Flags, _process_wrapper
<1>2. S = <<0, 0, f, 8, w, 0, 0, n, x, t, 0, 0, v, 0, 0, 0, 0, 0, 0, 0>>
    BY <1>S, <1>x, <1>n, <1>v, <1>t, <1>f, <1>w DEF stackInit
<1>3. S \in Seq(Nat) /\ Len(S) = 20
    BY <1>1, <1>2
<1>4. S[2] = 0 /\ S[3] = f /\ S[5] = w
    BY <1>1, <1>2
<1>5. r \in Regs /\ r["rcx"] = n /\ r["r8"] = v /\ r["rdx"] = x /\ r["rbp"] = t
      /\ \A y \in Reg \ {"rcx", "r8", "rdx", "rbp"} : r[y] = 0
    BY <1>r, <1>n, <1>v, <1>x, <1>t, FirstRegsFacts
<1>6. c \in Ctx /\ c.regs = r /\ c.rip = w /\ c.enabled = TRUE
    BY <1>c, <1>r, <1>w, <1>1, <1>5, IsCtx, ZenonT(40)
<1>7. \A j \in 1..15 : S[5 + j] = r[PushOrder[j]]
  <2>1. S[8] = n /\ S[9] = x /\ S[10] = t /\ S[13] = v
    BY <1>1, <1>2
  <2>2. \A j \in 1..15 : j \notin {3, 4, 5, 8} => S[5 + j] = 0
    BY <1>1, <1>2
  <2>3. PushOrder[3] = "rcx" /\ PushOrder[4] = "rdx" /\ PushOrder[5] = "rbp" /\ PushOrder[8] = "r8"
    BY DEF PushOrder
  <2>4. \A j \in 1..15 : j \notin {3, 4, 5, 8} => PushOrder[j] \in Reg \ {"rcx", "r8", "rdx", "rbp"}
    <3>1. \A j \in 1..15 : j \notin {3, 4, 5, 8} => PushOrder[j] \notin {"rcx", "r8", "rdx", "rbp"}
      BY DEF PushOrder
    <3>2. \A j \in 1..15 : PushOrder[j] \in Reg
      BY OrderFacts
    <3> QED
      BY <3>1, <3>2
  <2>5. ASSUME NEW j \in 1..15 PROVE S[5 + j] = r[PushOrder[j]]
    <3>1. CASE j \notin {3, 4, 5, 8}
      BY <1>5, <2>2, <2>4, <3>1
    <3>2. CASE j \in {3, 4, 5, 8}
      <4>1. 5 + 3 = 8 /\ 5 + 4 = 9 /\ 5 + 5 = 10 /\ 5 + 8 = 13
        OBVIOUS
      <4> QED
        BY <1>5, <2>1, <2>3, <3>2, <4>1
    <3> QED
      BY <3>1, <3>2
  <2> QED
    BY <2>5
<1>8. TimerFrame(S, 0, c)
  <2>1. TrapWords(S, 0, c)
    <3>1. 0 + 2 = 2 /\ 0 + 3 = 3 /\ 0 + 5 = 5
      OBVIOUS
    <3> QED
      BY <1>4, <1>6, <1>f, <3>1, Zenon DEF TrapWords
  <2>2. RegWords(S, 0 + 5, c.regs)
    <3>1. 0 + 5 = 5
      OBVIOUS
    <3> QED
      BY <1>6, <1>7, <3>1, Zenon DEF RegWords
  <2> QED
    BY <2>1, <2>2 DEF TimerFrame
<1>9. Program(p, S, c, 0)
    BY <1>5, <1>6, <1>n, <1>v, <1>x, <1>t, <1>w DEF Program
<1>q. PICK q : q = <<c>>
    OBVIOUS
<1>10. q \in Seq(Ctx) /\ Len(q) = 1 /\ q[1] = c
    BY <1>6, <1>q
<1>11. Laid(p, a, S, q, 0)
  <2>1. \A k \in 2..1 : FALSE
    OBVIOUS
  <2> QED
    BY <1>9, <1>10, <2>1 DEF Laid
<1>12. Deep(0, 1) = 0 /\ 0 \in 0..4 /\ 0 + 20 = 20
    BY DEF Deep
<1>13. Len(S) = Deep(0, Len(q)) + 20 /\ TimerFrame(S, Deep(0, Len(q)), q[Len(q)])
    BY <1>3, <1>8, <1>10, <1>12, Zenon
<1>14. Parked(p, a, S, q)
    BY <1>11, <1>12, <1>13 DEF Parked
<1> QED
    BY <1>S, <1>c, <1>q, <1>3, <1>6, <1>14, Zenon

LEMMA TrapInitLevels ==
    ASSUME TrapInit
    PROVE  TrapInv
<1>1. /\ regs = Zeros /\ rip = MAIN /\ enabled = TRUE /\ running = 0 /\ ended = {}
      /\ call = [p \in TrapProc |-> NoCall] /\ intact = TRUE /\ pictured = TRUE
      /\ started = [p \in TrapProc |-> <<>>]
    BY Zenon DEF TrapInit
<1>2. stacks = [p \in TrapProc |-> IF p = 0 THEN <<>>
                   ELSE stackInit(entry_point(p), process_terminator, argc(p), argv(p))]
    BY DEF TrapInit
<1>3. due = [p \in TrapProc |-> IF p = 0 THEN <<>> ELSE <<Context(FirstRegs(p), _process_wrapper, TRUE)>>]
    BY DEF TrapInit, FirstRegs
<1>4. 0 \in TrapProc
    BY TrapsAssumption DEF TrapProc
<1>5. regs \in Regs /\ rip \in Nat /\ enabled \in BOOLEAN
  <2>1. regs \in Regs
    BY <1>1 DEF Zeros, Regs
  <2>2. rip \in Nat
    BY <1>1 DEF MAIN
  <2> QED
    BY <1>1, <2>1, <2>2, Zenon
<1>6. ASSUME NEW p \in TrapProc, p # 0
      PROVE  stacks[p] \in Seq(Nat) /\ due[p] \in Seq(Ctx) /\ Parked(p, NoCall, stacks[p], due[p])
  <2>0. p \in Nat
    BY ProcFacts
  <2>S. PICK S : S = stackInit(entry_point(p), process_terminator, argc(p), argv(p))
    OBVIOUS
  <2>c. PICK c : c = Context(FirstRegs(p), _process_wrapper, TRUE)
    OBVIOUS
  <2>1. S \in Seq(Nat) /\ c \in Ctx /\ Parked(p, NoCall, S, <<c>>)
    BY <1>6, <2>0, <2>S, <2>c, FirstStack, Zenon
  <2>2. stacks[p] = S /\ due[p] = <<c>>
    BY <1>2, <1>3, <1>6, <2>S, <2>c, Zenon
  <2>3. <<c>> \in Seq(Ctx)
    BY <2>1
  <2> QED
    BY <2>1, <2>2, <2>3, Zenon
<1>7. stacks[0] = <<>> /\ due[0] = <<>>
    BY <1>2, <1>3, <1>4
<1>8. TrapTypes
  <2>1. \A p \in TrapProc : stacks[p] \in Seq(Nat) /\ due[p] \in Seq(Ctx)
    <3>1. <<>> \in Seq(Nat) /\ <<>> \in Seq(Ctx)
      OBVIOUS
    <3> QED
      BY <1>6, <1>7, <3>1
  <2>2. stacks = [p \in TrapProc |-> stacks[p]] /\ due = [p \in TrapProc |-> due[p]]
    BY <1>2, <1>3
  <2>3. stacks \in [TrapProc -> Seq(Nat)] /\ due \in [TrapProc -> Seq(Ctx)]
    BY <2>1, <2>2
  <2>4. call = [p \in TrapProc |-> call[p]] /\ \A p \in TrapProc : call[p] = NoCall
    BY <1>1
  <2>5. IsCall(NoCall)
    BY DEF IsCall, NoCall
  <2> QED
    BY <1>1, <1>4, <1>5, <2>3, <2>4, <2>5, Zenon DEF TrapTypes
<1>9. Levels
  <2>c. PICK c : c = Context(regs, rip, enabled)
    OBVIOUS
  <2>1. c \in Ctx /\ c.rip = rip
    BY <1>5, <2>c, IsCtx, Zenon
  <2>2. Program(0, <<>>, c, 0) /\ Len(<<>>) = 0 /\ 0 \in 0..4
    BY <1>1, <2>1 DEF Program
  <2>3. OnCpu(0, NoCall, <<>>, <<>>, c)
    BY <2>1, <2>2, ProgramRuns
  <2>4. \A p \in TrapProc : call[p] = NoCall
    BY <1>1
  <2>5. OnCpu(running, call[running], stacks[running], due[running], Context(regs, rip, enabled))
    BY <1>1, <1>4, <1>7, <2>3, <2>4, <2>c, Zenon
  <2>6. \A p \in TrapProc \ {running} : Parked(p, call[p], stacks[p], due[p])
    BY <1>1, <1>6, <2>4, Zenon
  <2> QED
    BY <2>5, <2>6 DEF Levels
<1>10. Story
  <2>1. \A p \in TrapProc : call[p].handler = "none"
    BY <1>1 DEF NoCall
  <2>2. SyscallsArrive
    BY <2>1 DEF SyscallsArrive
  <2>3. CommandsStart /\ started = [p \in TrapProc |-> started[p]]
    BY <1>1 DEF CommandsStart
  <2> QED
    BY <1>1, <2>2, <2>3, Zenon DEF Story
<1> QED
    BY <1>8, <1>9, <1>10 DEF TrapInv

\* A step that makes no call and starts no command.
LEMMA QuietStory ==
    ASSUME Story, intact', pictured', call' = call, started' = started, ended' = ended
    PROVE  Story'
<1>1. SyscallsArrive'
    BY DEF Story, SyscallsArrive
<1>2. CommandsStart' /\ started' = [p \in TrapProc |-> started'[p]]
    BY DEF Story, CommandsStart
<1> QED
    BY <1>1, <1>2, Zenon DEF Story

LEMMA CallStory ==
    ASSUME TrapTypes, Story, intact' = intact, pictured' = pictured, started' = started, ended' = ended,
           NEW a, call' = [call EXCEPT ![running] = a],
           a.handler # "none" => a.handler = a.name /\ a.got = a.args
    PROVE  Story'
<1>1. ASSUME NEW p \in TrapProc, call'[p].handler # "none"
      PROVE  call'[p].handler = call'[p].name /\ call'[p].got = call'[p].args
  <2>1. call = [q \in TrapProc |-> call[q]]
    BY DEF TrapTypes
  <2>2. CASE p = running
    <3>1. call'[p] = a
      BY <2>1, <2>2
    <3> QED
      BY <1>1, <3>1
  <2>3. CASE p # running
    <3>1. call'[p] = call[p]
      BY <2>1, <2>3
    <3> QED
      BY <1>1, <3>1 DEF Story, SyscallsArrive
  <2> QED
    BY <2>2, <2>3
<1>2. SyscallsArrive'
    BY <1>1 DEF SyscallsArrive
<1>3. CommandsStart' /\ started' = [p \in TrapProc |-> started'[p]]
    BY DEF Story, CommandsStart
<1>4. intact' /\ pictured'
    BY Zenon DEF Story
<1> QED
    BY <1>2, <1>3, <1>4, Zenon DEF Story

LEMMA StartStory ==
    ASSUME TrapTypes, Story, intact' = intact, pictured' = pictured, call' = call, ended' = ended,
           started' = [started EXCEPT ![running] = <<argc(running), argv(running)>>]
    PROVE  Story'
<1>0. intact' /\ pictured'
    BY Zenon DEF Story
<1>1. SyscallsArrive'
    BY DEF Story, SyscallsArrive
<1>2. started = [p \in TrapProc |-> started[p]] /\ \A p \in TrapProc : started[p] \in {<<>>, <<argc(p), argv(p)>>}
    BY DEF Story, CommandsStart
<1>3. started' = [p \in TrapProc |-> started'[p]]
    BY <1>2
<1>4. ASSUME NEW p \in TrapProc PROVE started'[p] \in {<<>>, <<argc(p), argv(p)>>}
  <2>1. CASE p = running
    <3>1. started'[p] = <<argc(p), argv(p)>>
      BY <1>2, <2>1
    <3> QED
      BY <3>1
  <2>2. CASE p # running
    <3>1. started'[p] = started[p]
      BY <1>2, <2>2
    <3> QED
      BY <1>2, <3>1
  <2> QED
    BY <2>1, <2>2
<1>5. CommandsStart'
    BY <1>4 DEF Story, CommandsStart
<1> QED
    BY <1>0, <1>1, <1>3, <1>5, Zenon DEF Story

LEMMA TrapStep ==
    ASSUME TrapInv, [TrapNext]_trapVars
    PROVE  TrapInv'
<1>0. TrapTypes /\ Levels /\ Story
    BY DEF TrapInv
<1>i. intact /\ pictured /\ CommandsStart
    BY <1>0, Zenon DEF Story
<1>1. CASE UNCHANGED trapVars
    BY <1>1 DEF trapVars, TrapInv, TrapTypes, Levels, Story, SyscallsArrive, CommandsStart
<1>2. CASE _irq00Handler
  <2>1. TrapTypes' /\ Levels' /\ intact'
    BY <1>0, <1>i, <1>2, TimerLevels
  <2>2. call' = call /\ started' = started /\ pictured' = pictured
    BY <1>2 DEF _irq00Handler
  <2>3. ended' # {} => 0 \notin ended' /\ 1 \notin ended'
    BY <1>0, <1>i, <1>2, TimerEnds
  <2>4. SyscallsArrive'
    BY <1>0, <2>2 DEF Story, SyscallsArrive
  <2>5. CommandsStart' /\ started' = [p \in TrapProc |-> started'[p]]
    BY <1>0, <2>2, <2>3 DEF Story, CommandsStart
  <2>6. pictured'
    BY <1>i, <2>2
  <2>7. Story'
    BY <2>1, <2>4, <2>5, <2>6, Zenon DEF Story
  <2> QED
    BY <2>1, <2>7 DEF TrapInv
<1>3. CASE _irq01Handler
  <2>1. TrapTypes' /\ Levels'
    BY <1>0, <1>3, KeyLevels
  <2>2. call' = call /\ started' = started /\ ended' = ended /\ pictured' = pictured /\ intact' = intact
    BY <1>3 DEF _irq01Handler
  <2>3. Story'
    BY <1>0, <1>i, <2>2, QuietStory
  <2> QED
    BY <2>1, <2>3 DEF TrapInv
<1>4. CASE _irq01Handler_end
  <2>1. TrapTypes' /\ Levels' /\ intact' /\ pictured'
    BY <1>0, <1>i, <1>4, KeyEndLevels
  <2>2. call' = call /\ started' = started /\ ended' = ended
    BY <1>4 DEF _irq01Handler_end
  <2>3. Story'
    BY <1>0, <2>1, <2>2, QuietStory
  <2> QED
    BY <2>1, <2>3 DEF TrapInv
<1>5. CASE kernel_flag
  <2>1. TrapTypes' /\ Levels'
    BY <1>0, <1>5, FlagLevels
  <2>2. call' = call /\ started' = started /\ ended' = ended /\ pictured' = pictured /\ intact' = intact
    BY <1>5 DEF kernel_flag
  <2>3. Story'
    BY <1>0, <1>i, <2>2, QuietStory
  <2> QED
    BY <2>1, <2>3 DEF TrapInv
<1>6. CASE wrapper_call
  <2>1. TrapTypes' /\ Levels'
    BY <1>0, <1>6, WrapperLevels
  <2>2. call' = call /\ started' = started /\ ended' = ended /\ pictured' = pictured /\ intact' = intact
    BY <1>6 DEF wrapper_call, Goto
  <2>3. Story'
    BY <1>0, <1>i, <2>2, QuietStory
  <2> QED
    BY <2>1, <2>3 DEF TrapInv
<1>7. CASE entry_points
  <2>1. /\ TrapTypes' /\ Levels'
        /\ started' = [started EXCEPT ![running] = <<argc(running), argv(running)>>]
    BY <1>0, <1>7, EntryLevels
  <2>2. call' = call /\ ended' = ended /\ pictured' = pictured /\ intact' = intact
    BY <1>7 DEF entry_points, Goto
  <2>3. Story'
    BY <1>0, <2>1, <2>2, StartStory
  <2> QED
    BY <2>1, <2>3 DEF TrapInv
<1>8. CASE compute
  <2>1. TrapTypes' /\ Levels'
    BY <1>0, <1>8, ComputeLevels
  <2>2. call' = call /\ started' = started /\ ended' = ended /\ pictured' = pictured /\ intact' = intact
    BY <1>8 DEF compute, Goto
  <2>3. Story'
    BY <1>0, <1>i, <2>2, QuietStory
  <2> QED
    BY <2>1, <2>3 DEF TrapInv
<1>9. CASE return
  <2>1. TrapTypes' /\ Levels'
    BY <1>0, <1>9, ReturnLevels
  <2>2. call' = call /\ started' = started /\ ended' = ended /\ pictured' = pictured /\ intact' = intact
    BY <1>9 DEF return, Goto
  <2>3. Story'
    BY <1>0, <1>i, <2>2, QuietStory
  <2> QED
    BY <2>1, <2>3 DEF TrapInv
<1>10. ASSUME NEW s \in Stub, sys_int80(s) PROVE TrapInv'
  <2>1. TrapTypes' /\ Levels' /\ \E a : call' = [call EXCEPT ![running] = a] /\ a.handler = "none"
    BY <1>0, <1>10, TrapLevels
  <2>2. started' = started /\ ended' = ended /\ pictured' = pictured /\ intact' = intact
    BY <1>10 DEF sys_int80
  <2>3. Story'
    BY <1>0, <2>1, <2>2, CallStory
  <2> QED
    BY <2>1, <2>3 DEF TrapInv
<1>11. CASE dispatch_call
  <2>1. /\ TrapTypes' /\ Levels'
        /\ \E a : call' = [call EXCEPT ![running] = a] /\ a.handler = a.name /\ a.got = a.args
    BY <1>0, <1>11, DispatchLevels
  <2>2. started' = started /\ ended' = ended /\ pictured' = pictured /\ intact' = intact
    BY <1>11 DEF dispatch_call, Goto
  <2>3. Story'
    BY <1>0, <2>1, <2>2, CallStory
  <2> QED
    BY <2>1, <2>3 DEF TrapInv
<1>12. CASE _irq80Handler_end
  <2>1. TrapTypes' /\ Levels' /\ intact'
    BY <1>0, <1>i, <1>12, CallEndLevels
  <2>2. call' = call /\ started' = started /\ ended' = ended /\ pictured' = pictured
    BY <1>12 DEF _irq80Handler_end
  <2>3. Story'
    BY <1>0, <1>i, <2>1, <2>2, QuietStory
  <2> QED
    BY <2>1, <2>3 DEF TrapInv
<1>13. CASE stub_ret
  <2>1. TrapTypes' /\ Levels'
    BY <1>0, <1>13, StubRetLevels
  <2>2. /\ started' = started /\ ended' = ended /\ pictured' = pictured /\ intact' = intact
        /\ call' = [call EXCEPT ![running] = NoCall]
    BY <1>13 DEF stub_ret, Goto
  <2>3. NoCall.handler = "none"
    BY DEF NoCall
  <2>4. Story'
    BY <1>0, <2>2, <2>3, CallStory
  <2> QED
    BY <2>1, <2>4 DEF TrapInv
<1> QED
    BY <1>1, <1>2, <1>3, <1>4, <1>5, <1>6, <1>7, <1>8, <1>9, <1>10, <1>11, <1>12, <1>13 DEF TrapNext

\* For any number of processes and any depth of nested interrupts (TrapsAreTransparent;
\* interrupts.asm, libasm.asm, entry_points.asm, libsys.asm, syscallDispatcher.c):
\* a process gets back the registers, the place and the
\* interrupt flag it had, and only rax changes over a system call; each call reaches
\* the handler of its name with its arguments; a command starts with the argc and
\* argv of its process, and neither idle nor init ever ends; the
\* snapshot key shows the registers that were interrupted.
THEOREM TrapsDisturbNoProgram == TrapSpec => []TrapsAreTransparent
<1>1. TrapInit => TrapInv
    BY TrapInitLevels
<1>2. TrapInv /\ [TrapNext]_trapVars => TrapInv'
    BY TrapStep
<1>3. TrapInv => TrapsAreTransparent
  <2> SUFFICES ASSUME TrapInv PROVE TrapsAreTransparent
    OBVIOUS
  <2>0. TrapTypes /\ Levels /\ Story
    BY DEF TrapInv
  <2>1. intact /\ pictured /\ SyscallsArrive /\ CommandsStart
    BY <2>0, Zenon DEF Story
  <2>2. ASSUME rip = COMMAND PROVE stacks[running] = <<WRAPPER_RET, ENTRY_RET>>
    <3>p. PICK p : p = running
      OBVIOUS
    <3>S. PICK S : S = stacks[p]
      OBVIOUS
    <3>c. PICK c : c = Context(regs, rip, enabled)
      OBVIOUS
    <3>1. p \in Nat /\ S \in Seq(Nat)
      BY <2>0, <3>p, <3>S, CpuFacts
    <3>2. rip # KERNEL01 /\ rip # KERNEL80
      BY <2>2 DEF COMMAND, KERNEL01, KERNEL80
    <3>3. c.rip = rip /\ \E d \in 0..4 : Len(S) = d /\ Program(p, S, c, d)
      BY <2>0, <3>2, <3>c, <3>p, <3>S, PlaceFacts, Zenon
    <3>4. PICK d \in 0..4 : Len(S) = d /\ Program(p, S, c, d)
      BY <3>3
    <3>5. d = 2 /\ S[1] = WRAPPER_RET /\ S[2] = ENTRY_RET
      BY <2>2, <3>1, <3>3, <3>4, ProgramKinds
    <3>Q. PICK Q : Q = <<WRAPPER_RET, ENTRY_RET>>
      OBVIOUS
    <3>6. Q \in Seq(Nat) /\ Len(Q) = 2 /\ Q[1] = WRAPPER_RET /\ Q[2] = ENTRY_RET
      BY <3>Q DEF WRAPPER_RET, ENTRY_RET
    <3>7. \A i \in 1..2 : i = 1 \/ i = 2
      OBVIOUS
    <3>8. Len(S) = Len(Q) /\ \A i \in 1..Len(S) : S[i] = Q[i]
      BY <3>4, <3>5, <3>6, <3>7
    <3>9. S = Q
      BY <3>1, <3>6, <3>8, SameSeq
    <3> QED
      BY <3>9, <3>p, <3>S, <3>Q
  <2> QED
    BY <2>1, <2>2, Zenon DEF TrapsAreTransparent, ContextPreserved
<1> QED
    BY <1>1, <1>2, <1>3, PTL DEF TrapSpec

=============================================================================
