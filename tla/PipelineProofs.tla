--------------------------- MODULE PipelineProofs ---------------------------
(***************************************************************************)
(* Proofs about Pipeline, for every size of the pipe and of the keyboard's *)
(* ring, every text and every set of keys: what is typed reaches the       *)
(* reader, and what is written into the pipe comes out of it.              *)
(***************************************************************************)
EXTENDS Pipeline, Arithmetic

-----------------------------------------------------------------------------
(* Rings.  Both the pipe and the keyboard keep their bytes in a ring of B   *)
(* places between the next to read, r, and the next to write, w.            *)

\* The characters.  (The provers do not know that a literal is a string.)
Byte == STRING \cup {"nul", " ", EOF}

Ring(buf, r, w, B) == [i \in 1..((w + B - r) % B) |-> buf[(r + i - 1) % B]]

\* Remainders of what is at most one turn away.
LEMMA Remainders ==
    ASSUME NEW B \in Nat \ {0}, NEW x \in 0..(B - 1)
    PROVE  x % B = x /\ (x + B) % B = x
OBVIOUS

\* How many bytes the ring holds, and where the next one is.
LEMMA RingLength ==
    ASSUME NEW B \in Nat \ {0}, NEW r \in 0..(B - 1), NEW w \in 0..(B - 1), NEW buf
    PROVE  /\ (w + B - r) % B = IF w >= r THEN w - r ELSE w + B - r
           /\ (w + B - r) % B \in 0..(B - 1)
           /\ (r + 1) % B = IF r = B - 1 THEN 0 ELSE r + 1
           /\ \A i \in 1..B : (r + i - 1) % B = IF r + i - 1 < B THEN r + i - 1 ELSE r + i - 1 - B
<1>1. (w + B - r) % B = IF w >= r THEN w - r ELSE w + B - r
  <2>1. CASE w >= r
    <3>1. w - r \in 0..(B - 1) /\ w + B - r = (w - r) + B
        BY <2>1
    <3> QED  BY <2>1, <3>1, Remainders
  <2>2. CASE ~(w >= r)
    <3>1. w + B - r \in 0..(B - 1)
        BY <2>2
    <3> QED  BY <2>2, <3>1, Remainders
  <2> QED  BY <2>1, <2>2
<1>2. (r + 1) % B = IF r = B - 1 THEN 0 ELSE r + 1
  <2>1. CASE r = B - 1
    <3>1. r + 1 = 0 + B /\ 0 \in 0..(B - 1)
        BY <2>1
    <3> QED  BY <2>1, <3>1, Remainders
  <2>2. CASE r # B - 1
    <3>1. r + 1 \in 0..(B - 1)
        BY <2>2
    <3> QED  BY <2>2, <3>1, Remainders
  <2> QED  BY <2>1, <2>2
<1>3. ASSUME NEW i \in 1..B
      PROVE  (r + i - 1) % B = IF r + i - 1 < B THEN r + i - 1 ELSE r + i - 1 - B
  <2>1. CASE r + i - 1 < B
    <3>1. r + i - 1 \in 0..(B - 1)
        BY <2>1
    <3> QED  BY <2>1, <3>1, Remainders
  <2>2. CASE ~(r + i - 1 < B)
    <3>1. r + i - 1 - B \in 0..(B - 1) /\ r + i - 1 = (r + i - 1 - B) + B
        BY <2>2
    <3> QED  BY <2>2, <3>1, Remainders
  <2> QED  BY <2>1, <2>2
<1> QED  BY <1>1, <1>2, <1>3

\* The same without the modulus.
RingLen(r, w, B) == IF w >= r THEN w - r ELSE w + B - r
RingAt(r, i, B) == IF r + i - 1 < B THEN r + i - 1 ELSE r + i - 1 - B

LEMMA RingIs ==
    ASSUME NEW B \in Nat \ {0}, NEW r \in 0..(B - 1), NEW w \in 0..(B - 1),
           NEW buf \in [0..(B - 1) -> Byte]
    PROVE  /\ RingLen(r, w, B) \in 0..(B - 1)
           /\ Ring(buf, r, w, B) \in Seq(Byte) /\ Len(Ring(buf, r, w, B)) = RingLen(r, w, B)
           /\ \A i \in 1..RingLen(r, w, B) :
                 RingAt(r, i, B) \in 0..(B - 1) /\ Ring(buf, r, w, B)[i] = buf[RingAt(r, i, B)]
<1> DEFINE n == RingLen(r, w, B)
           s == Ring(buf, r, w, B)
<1>1. n \in 0..(B - 1) /\ (w + B - r) % B = n
    BY RingLength DEF RingLen
<1>2. \A i \in 1..n : (r + i - 1) % B = RingAt(r, i, B) /\ RingAt(r, i, B) \in 0..(B - 1)
    BY <1>1, RingLength, SMTT(40) DEF RingAt
<1>3. s = [i \in 1..n |-> buf[RingAt(r, i, B)]]
    BY <1>1, <1>2 DEF Ring
<1>4. \A i \in 1..n : buf[RingAt(r, i, B)] \in Byte
    BY <1>2
<1>5. n \in Nat
    BY <1>1
<1> HIDE DEF n
<1>6. s \in Seq(Byte) /\ Len(s) = n /\ \A i \in 1..n : s[i] = buf[RingAt(r, i, B)]
    BY <1>3, <1>4, <1>5
<1> QED  BY <1>1, <1>2, <1>6 DEF n

\* Two sequences are equal if their lengths and elements are.
LEMMA SameSequence ==
    ASSUME NEW S, NEW s \in Seq(S), NEW t \in Seq(S), Len(s) = Len(t),
           \A i \in 1..Len(s) : s[i] = t[i]
    PROVE  s = t
OBVIOUS

\* A byte written into a ring with room is its last.
PutIn(buf, r, w, B, c, new, v) ==
    /\ B \in Nat \ {0} /\ r \in 0..(B - 1) /\ w \in 0..(B - 1) /\ v \in 0..(B - 1)
    /\ buf \in [0..(B - 1) -> Byte] /\ new \in [0..(B - 1) -> Byte] /\ c \in Byte
    /\ v = (IF w = B - 1 THEN 0 ELSE w + 1) /\ v # r
    /\ new[w] = c /\ \A i \in 0..(B - 1) : i # w => new[i] = buf[i]
LEMMA RingPut ==
    ASSUME NEW B, NEW r, NEW w, NEW v, NEW buf, NEW new, NEW c, PutIn(buf, r, w, B, c, new, v)
    PROVE  Ring(new, r, v, B) = Append(Ring(buf, r, w, B), c)
<1> USE DEF PutIn
<1> DEFINE n == RingLen(r, w, B)
           s == Ring(buf, r, w, B)
           t == Ring(new, r, v, B)
<1>1. /\ n \in 0..(B - 1) /\ s \in Seq(Byte) /\ Len(s) = n
      /\ \A i \in 1..n : RingAt(r, i, B) \in 0..(B - 1) /\ s[i] = buf[RingAt(r, i, B)]
    BY RingIs
<1>2. /\ RingLen(r, v, B) \in 0..(B - 1) /\ t \in Seq(Byte) /\ Len(t) = RingLen(r, v, B)
      /\ \A i \in 1..RingLen(r, v, B) : RingAt(r, i, B) \in 0..(B - 1) /\ t[i] = new[RingAt(r, i, B)]
    BY RingIs, ZenonT(40)
<1>3. RingLen(r, v, B) = n + 1
    BY DEF RingLen
<1>4. \A i \in 1..n : RingAt(r, i, B) # w
    BY <1>1 DEF RingAt, RingLen
<1>5. RingAt(r, n + 1, B) = w
    BY <1>1 DEF RingAt, RingLen
<1>6. Append(s, c) \in Seq(Byte) /\ Len(Append(s, c)) = n + 1
      /\ (\A i \in 1..n : Append(s, c)[i] = s[i]) /\ Append(s, c)[n + 1] = c
  <2> HIDE DEF n, s
  <2> QED  BY <1>1
<1>7. \A i \in 1..(n + 1) : t[i] = Append(s, c)[i]
  <2> SUFFICES ASSUME NEW i \in 1..(n + 1) PROVE t[i] = Append(s, c)[i]
      OBVIOUS
  <2>1. t[i] = new[RingAt(r, i, B)]
      BY <1>2, <1>3
  <2>2. CASE i = n + 1
      BY <2>1, <2>2, <1>5, <1>6
  <2>3. CASE i \in 1..n
      BY <2>1, <2>3, <1>1, <1>4, <1>6
  <2>4. i = n + 1 \/ i \in 1..n
      BY <1>1
  <2> QED  BY <2>2, <2>3, <2>4
<1> HIDE DEF n, s, t
<1>8. t = Append(s, c)
    BY <1>2, <1>3, <1>6, <1>7, SameSequence
<1> QED  BY <1>8 DEF s, t

\* A byte read is the first, and the rest stays.
LEMMA RingTake ==
    ASSUME NEW B \in Nat \ {0}, NEW r \in 0..(B - 1), NEW w \in 0..(B - 1),
           NEW buf \in [0..(B - 1) -> Byte], r # w
    PROVE  Ring(buf, r, w, B) = <<buf[r]>> \o Ring(buf, (r + 1) % B, w, B)
<1> DEFINE q == (r + 1) % B
           n == RingLen(r, w, B)
           m == RingLen(q, w, B)
           s == Ring(buf, r, w, B)
           t == Ring(buf, q, w, B)
<1>1. q = (IF r = B - 1 THEN 0 ELSE r + 1)
    BY RingLength
<1>2. q \in 0..(B - 1)
    BY <1>1
<1> HIDE DEF q
<1>3. /\ n \in 0..(B - 1) /\ s \in Seq(Byte) /\ Len(s) = n
      /\ \A i \in 1..n : RingAt(r, i, B) \in 0..(B - 1) /\ s[i] = buf[RingAt(r, i, B)]
    BY RingIs
<1>4. /\ m \in 0..(B - 1) /\ t \in Seq(Byte) /\ Len(t) = m
      /\ \A i \in 1..m : RingAt(q, i, B) \in 0..(B - 1) /\ t[i] = buf[RingAt(q, i, B)]
    BY <1>2, RingIs
<1>5. n = m + 1
    BY <1>1 DEF RingLen
<1>6. \A i \in 1..m : RingAt(q, i, B) = RingAt(r, i + 1, B)
    BY <1>1, <1>4 DEF RingAt, RingLen
<1>7. RingAt(r, 1, B) = r
    BY DEF RingAt
<1>8. <<buf[r]>> \in Seq(Byte) /\ Len(<<buf[r]>>) = 1 /\ <<buf[r]>>[1] = buf[r]
    OBVIOUS
<1> DEFINE u == <<buf[r]>> \o t
<1>9. u \in Seq(Byte) /\ Len(u) = m + 1 /\ u[1] = buf[r] /\ \A i \in 1..m : u[i + 1] = t[i]
  <2> HIDE DEF m, t
  <2> QED  BY <1>4, <1>8
<1>10. \A i \in 1..n : s[i] = u[i]
  <2> SUFFICES ASSUME NEW i \in 1..n PROVE s[i] = u[i]
      OBVIOUS
  <2>1. CASE i = 1
      BY <2>1, <1>3, <1>7, <1>9
  <2>2. CASE i # 1
    <3>1. i - 1 \in 1..m /\ (i - 1) + 1 = i
        BY <2>2, <1>3, <1>5, <1>4
    <3>2. s[i] = buf[RingAt(r, i, B)]
        BY <1>3
    <3>3. u[i] = t[i - 1] /\ t[i - 1] = buf[RingAt(q, i - 1, B)]
        BY <3>1, <1>9, <1>4
    <3>4. RingAt(q, i - 1, B) = RingAt(r, i, B)
        BY <3>1, <1>6
    <3> QED  BY <3>2, <3>3, <3>4
  <2> QED  BY <2>1, <2>2
<1> HIDE DEF n, m, s, u
<1>11. s = u
    BY <1>3, <1>5, <1>9, <1>10, SameSequence
<1> QED  BY <1>11 DEF s, u, q

\* A byte taken back was the last.
LEMMA RingErase ==
    ASSUME NEW B \in Nat \ {0}, NEW r \in 0..(B - 1), NEW w \in 0..(B - 1),
           NEW buf \in [0..(B - 1) -> Byte], r # w
    PROVE  LET v == IF w = 0 THEN B - 1 ELSE w - 1
           IN  Ring(buf, r, w, B) = Append(Ring(buf, r, v, B), buf[v])
<1> DEFINE v == IF w = 0 THEN B - 1 ELSE w - 1
<1>1. v \in 0..(B - 1)
    OBVIOUS
<1> DEFINE c == buf[v]
<1>2. c \in Byte
    BY <1>1
<1> HIDE DEF v, c
<1>3. w = IF v = B - 1 THEN 0 ELSE v + 1
    BY DEF v
<1>4. v \in 0..(B - 1) /\ c \in Byte /\ buf[v] = c
    BY <1>1, <1>2 DEF c
<1>5. PutIn(buf, r, v, B, c, buf, w)
    BY <1>3, <1>4 DEF PutIn
<1>6. Ring(buf, r, w, B) = Append(Ring(buf, r, v, B), c)
    BY <1>5, RingPut
<1> QED  BY <1>6 DEF v, c

-----------------------------------------------------------------------------
(* What the proofs speak of.                                                *)

Process == {"L", "R", "S"}
Name == {canRead(i) : i \in PipeId} \cup {canWrite(i) : i \in PipeId}
        \cup {buffer_sem, wait("L"), wait("R")}
Index == 0..(PIPE_BUFFER_SIZE - 1)
Place == 0..(BUFFER_SIZE - 1)
PipeRecord == [open : {TRUE}, buffer : [Index -> Byte], idxToRead : Index, idxToWrite : Index,
               waitingToRead : BOOLEAN, waitingToWrite : BOOLEAN,
               attached : Nat, readers : Nat, writers : Nat, exp_readers : Nat, exp_writers : Nat]
KbRecord == [buffer : [Place -> Byte], to_write : Place, to_read : Place, reading : BOOLEAN]
Kernels == [sems : [Name -> SemRecord(Process)], asleep : SUBSET Process,
            pipes : [PipeId -> {NoPipe} \cup PipeRecord], kb : KbRecord]

LineOf(k, n) == k.sems[n].blockedProcesses

\* The names that matter are different.
LEMMA Names ==
    /\ id \in PipeId /\ id = 2
    /\ {canRead(id), canWrite(id), buffer_sem, wait("L"), wait("R")} \subseteq Name
    /\ canRead(id) # canWrite(id) /\ canRead(id) # buffer_sem /\ canWrite(id) # buffer_sem
    /\ \A p \in {"L", "R"} : wait(p) \notin {canRead(id), canWrite(id), buffer_sem}
    /\ wait("L") # wait("R")
BY PipeAssumption DEF id, PipeId, FirstId, Name, canRead, canWrite, buffer_sem, wait

-----------------------------------------------------------------------------
(* The operations on semaphores.                                            *)

\* A record of the registry with one field changed.
LEMMA SemUpdate ==
    ASSUME NEW s \in SemRecord(Process)
    PROVE  /\ s.users \in Nat /\ s.value \in 0..UINT16_MAX /\ s.blockedProcesses \in Seq(Process)
           /\ \A u \in Nat : LET t == [s EXCEPT !.users = u] IN
                 /\ t \in SemRecord(Process)
                 /\ t.users = u /\ t.value = s.value /\ t.blockedProcesses = s.blockedProcesses
           /\ \A v \in 0..UINT16_MAX : LET t == [s EXCEPT !.value = v] IN
                 /\ t \in SemRecord(Process)
                 /\ t.users = s.users /\ t.value = v /\ t.blockedProcesses = s.blockedProcesses
           /\ \A q \in Seq(Process) : LET t == [s EXCEPT !.blockedProcesses = q] IN
                 /\ t \in SemRecord(Process)
                 /\ t.users = s.users /\ t.value = s.value /\ t.blockedProcesses = q
BY DEF SemRecord

\* The kernel with one semaphore changed.
Changed(k, n, t, a) == [k EXCEPT !.sems[n] = t, !.asleep = a]
LEMMA KernelUpdate ==
    ASSUME NEW k \in Kernels, NEW n \in Name, NEW t \in SemRecord(Process), NEW a \in SUBSET Process
    PROVE  /\ Changed(k, n, t, a) \in Kernels
           /\ Changed(k, n, t, a).pipes = k.pipes /\ Changed(k, n, t, a).kb = k.kb
           /\ Changed(k, n, t, a).asleep = a
           /\ \A m \in Name \ {n} : Changed(k, n, t, a).sems[m] = k.sems[m]
           /\ Changed(k, n, t, a).sems[n] = t
BY DEF Kernels, Changed

LEMMA KernelSame ==
    ASSUME NEW k \in Kernels, NEW n \in Name, NEW t
    PROVE  /\ [k EXCEPT !.sems[n] = t] = Changed(k, n, t, k.asleep)
           /\ k.asleep \in SUBSET Process /\ k.sems[n] \in SemRecord(Process)
BY DEF Kernels, Changed

\* A post wakes the first in line.
LEMMA PostFacts ==
    ASSUME NEW k \in Kernels, NEW n \in Name, NEW r, r = semPost(k, n)
    PROVE  /\ r \in Kernels /\ r.pipes = k.pipes /\ r.kb = k.kb
           /\ \A m \in Name \ {n} : r.sems[m] = k.sems[m]
           /\ r.sems[n].users = k.sems[n].users
           /\ k.sems[n].users > 0 /\ LineOf(k, n) # <<>> =>
                 /\ r.sems[n].value = k.sems[n].value
                 /\ LineOf(r, n) = Tail(LineOf(k, n)) /\ r.asleep = k.asleep \ {Head(LineOf(k, n))}
           /\ ~(k.sems[n].users > 0 /\ LineOf(k, n) # <<>>) =>
                 LineOf(r, n) = LineOf(k, n) /\ r.asleep = k.asleep
<1>1. PICK s \in SemRecord(Process) : s = k.sems[n]
    BY KernelSame
<1>2. s.users \in Nat /\ s.value \in 0..UINT16_MAX /\ s.blockedProcesses \in Seq(Process)
    BY SemUpdate
<1>3. CASE ~(s.users > 0)
    BY <1>1, <1>3 DEF semPost, is_semaphore_valid, LineOf
<1>4. CASE s.users > 0 /\ s.blockedProcesses = <<>>
  <2>1. PICK v \in 0..UINT16_MAX : v = (s.value + 1) % (UINT16_MAX + 1)
    <3>1. UINT16_MAX \in Nat
        BY SMT DEF UINT16_MAX
    <3>2. (s.value + 1) % (UINT16_MAX + 1) \in 0..UINT16_MAX
        BY <1>2, <3>1
    <3> QED  BY <3>2
  <2>2. PICK t : t = [s EXCEPT !.value = v]
      OBVIOUS
  <2>3. t \in SemRecord(Process) /\ t.users = s.users /\ t.blockedProcesses = s.blockedProcesses
      BY <2>2, SemUpdate
  <2>4. r = [k EXCEPT !.sems[n] = t]
      BY <1>1, <1>4, <2>1, <2>2 DEF semPost, is_semaphore_valid
  <2>5. r = Changed(k, n, t, k.asleep)
      BY <2>4, KernelSame
  <2>6. k.asleep \in SUBSET Process
      BY KernelSame
  <2>7. /\ r \in Kernels /\ r.pipes = k.pipes /\ r.kb = k.kb /\ r.asleep = k.asleep
        /\ \A m \in Name \ {n} : r.sems[m] = k.sems[m]
        /\ r.sems[n] = t
      BY <2>3, <2>5, <2>6, KernelUpdate
  <2> QED  BY <1>1, <1>4, <2>3, <2>7 DEF LineOf
<1>5. CASE s.users > 0 /\ s.blockedProcesses # <<>>
  <2>1. Tail(s.blockedProcesses) \in Seq(Process)
      BY <1>2, <1>5
  <2>2. PICK t : t = [s EXCEPT !.blockedProcesses = Tail(s.blockedProcesses)]
      OBVIOUS
  <2>3. t \in SemRecord(Process) /\ t.users = s.users /\ t.value = s.value
        /\ t.blockedProcesses = Tail(s.blockedProcesses)
      BY <2>1, <2>2, SemUpdate, ZenonT(40)
  <2>4. PICK a \in SUBSET Process : a = k.asleep \ {Head(s.blockedProcesses)}
      BY KernelSame
  <2>5. r = Changed(k, n, t, a)
      BY <1>1, <1>5, <2>2, <2>4 DEF Changed, semPost, is_semaphore_valid
  <2>6. /\ r \in Kernels /\ r.pipes = k.pipes /\ r.kb = k.kb /\ r.asleep = a
        /\ \A m \in Name \ {n} : r.sems[m] = k.sems[m]
        /\ r.sems[n] = t
      BY <2>3, <2>5, KernelUpdate
  <2> QED  BY <1>1, <1>5, <2>3, <2>4, <2>6 DEF LineOf
<1> QED  BY <1>3, <1>4, <1>5

\* It leaves the other semaphores alone.
LEMMA PostKeeps ==
    ASSUME NEW k \in Kernels, NEW n \in Name
    PROVE  /\ semPost(k, n) \in Kernels
           /\ semPost(k, n).pipes = k.pipes /\ semPost(k, n).kb = k.kb
           /\ semPost(k, n).sems[n].users = k.sems[n].users
           /\ \A m \in Name \ {n} : semPost(k, n).sems[m] = k.sems[m]
<1>1. PICK r : r = semPost(k, n)
    OBVIOUS
<1>2. r \in Kernels /\ r.pipes = k.pipes /\ r.kb = k.kb
    BY <1>1, PostFacts
<1>3. r.sems[n].users = k.sems[n].users
    BY <1>1, PostFacts
<1>4. \A m \in Name \ {n} : r.sems[m] = k.sems[m]
    BY <1>1, PostFacts
<1> QED  BY <1>1, <1>2, <1>3, <1>4

\* A wait takes a token or puts its caller to sleep.
LEMMA WaitFacts ==
    ASSUME NEW k \in Kernels, NEW n \in Name, NEW p \in Process, NEW r, r = semWait(k, n, p)
    PROVE  /\ r \in Kernels /\ r.pipes = k.pipes /\ r.kb = k.kb
           /\ \A m \in Name \ {n} : r.sems[m] = k.sems[m]
           /\ r.sems[n].users = k.sems[n].users
           /\ k.sems[n].users > 0 /\ k.sems[n].value = 0 =>
                 /\ r.sems[n].value = k.sems[n].value
                 /\ LineOf(r, n) = Append(LineOf(k, n), p) /\ r.asleep = k.asleep \cup {p}
           /\ ~(k.sems[n].users > 0 /\ k.sems[n].value = 0) =>
                 LineOf(r, n) = LineOf(k, n) /\ r.asleep = k.asleep
<1>1. PICK s \in SemRecord(Process) : s = k.sems[n]
    BY KernelSame
<1>2. s.users \in Nat /\ s.value \in 0..UINT16_MAX /\ s.blockedProcesses \in Seq(Process)
    BY SemUpdate
<1>3. CASE ~(s.users > 0)
    BY <1>1, <1>3 DEF semWait, is_semaphore_valid, LineOf
<1>4. CASE s.users > 0 /\ s.value # 0
  <2>1. PICK v \in 0..UINT16_MAX : v = s.value - 1
    <3>1. UINT16_MAX \in Nat
        BY SMT DEF UINT16_MAX
    <3>2. s.value - 1 \in 0..UINT16_MAX
        BY <1>2, <1>4, <3>1
    <3> QED  BY <3>2
  <2>2. PICK t : t = [s EXCEPT !.value = v]
      OBVIOUS
  <2>3. t \in SemRecord(Process) /\ t.users = s.users /\ t.blockedProcesses = s.blockedProcesses
      BY <2>2, SemUpdate
  <2>4. r = [k EXCEPT !.sems[n] = t]
      BY <1>1, <1>4, <2>1, <2>2 DEF semWait, is_semaphore_valid
  <2>5. r = Changed(k, n, t, k.asleep)
      BY <2>4, KernelSame
  <2>6. k.asleep \in SUBSET Process
      BY KernelSame
  <2>7. /\ r \in Kernels /\ r.pipes = k.pipes /\ r.kb = k.kb /\ r.asleep = k.asleep
        /\ \A m \in Name \ {n} : r.sems[m] = k.sems[m]
        /\ r.sems[n] = t
      BY <2>3, <2>5, <2>6, KernelUpdate
  <2> QED  BY <1>1, <1>4, <2>3, <2>7 DEF LineOf
<1>5. CASE s.users > 0 /\ s.value = 0
  <2>1. Append(s.blockedProcesses, p) \in Seq(Process)
      BY <1>2
  <2>2. PICK t : t = [s EXCEPT !.blockedProcesses = Append(s.blockedProcesses, p)]
      OBVIOUS
  <2>3. t \in SemRecord(Process) /\ t.users = s.users /\ t.value = s.value
        /\ t.blockedProcesses = Append(s.blockedProcesses, p)
      BY <2>1, <2>2, SemUpdate, ZenonT(40)
  <2>4. PICK a \in SUBSET Process : a = k.asleep \cup {p}
      BY KernelSame
  <2>5. r = Changed(k, n, t, a)
      BY <1>1, <1>5, <2>2, <2>4 DEF Changed, semWait, is_semaphore_valid
  <2>6. /\ r \in Kernels /\ r.pipes = k.pipes /\ r.kb = k.kb /\ r.asleep = a
        /\ \A m \in Name \ {n} : r.sems[m] = k.sems[m]
        /\ r.sems[n] = t
      BY <2>3, <2>5, KernelUpdate
  <2> QED  BY <1>1, <1>5, <2>3, <2>4, <2>6 DEF LineOf
<1> QED  BY <1>3, <1>4, <1>5

\* A first open makes a semaphore without tokens or waiters.
LEMMA OpenFacts ==
    ASSUME NEW k \in Kernels, NEW n \in Name, NEW r, r = semOpen(k, n, 0)
    PROVE  /\ r \in Kernels /\ r.pipes = k.pipes /\ r.kb = k.kb /\ r.asleep = k.asleep
           /\ \A m \in Name \ {n} : r.sems[m] = k.sems[m]
           /\ k.sems[n].users = 0 => r.sems[n] = [users |-> 1, value |-> 0, blockedProcesses |-> <<>>]
           /\ k.sems[n].users # 0 => LineOf(r, n) = LineOf(k, n)
<1>1. PICK s \in SemRecord(Process) : s = k.sems[n]
    BY KernelSame
<1>2. s.users \in Nat
    BY SemUpdate
<1>3. PICK t \in SemRecord(Process) :
         t = IF s.users > 0 THEN [s EXCEPT !.users = s.users + 1]
             ELSE [users |-> 1, value |-> 0, blockedProcesses |-> <<>>]
  <2>1. [users |-> 1, value |-> 0, blockedProcesses |-> <<>>] \in SemRecord(Process)
    <3>1. 1 \in Nat /\ 0 \in 0..UINT16_MAX /\ <<>> \in Seq(Process)
        BY DEF UINT16_MAX
    <3> QED  BY <3>1 DEF SemRecord
  <2>2. s.users + 1 \in Nat
      BY <1>2
  <2>3. [s EXCEPT !.users = s.users + 1] \in SemRecord(Process)
      BY <2>2, SemUpdate
  <2> QED  BY <2>1, <2>3
<1>4. r = [k EXCEPT !.sems[n] = t]
    BY <1>1, <1>3 DEF semOpen, is_semaphore_valid
<1>5. r = Changed(k, n, t, k.asleep)
    BY <1>4, KernelSame
<1>6. /\ r \in Kernels /\ r.pipes = k.pipes /\ r.kb = k.kb /\ r.asleep = k.asleep
      /\ \A m \in Name \ {n} : r.sems[m] = k.sems[m]
      /\ r.sems[n] = t
  <2>1. k.asleep \in SUBSET Process
      BY KernelSame
  <2> QED  BY <1>5, <2>1, KernelUpdate
<1>7. s.users = 0 => t = [users |-> 1, value |-> 0, blockedProcesses |-> <<>>]
    BY <1>3
<1>8. s.users # 0 => t.blockedProcesses = s.blockedProcesses
  <2>1. PICK u \in Nat : u = s.users + 1
      BY <1>2
  <2>2. s.users # 0 => t = [s EXCEPT !.users = u]
      BY <1>2, <1>3, <2>1
  <2>3. [s EXCEPT !.users = u].blockedProcesses = s.blockedProcesses
      BY SemUpdate
  <2> QED  BY <2>2, <2>3
<1> QED  BY <1>1, <1>6, <1>7, <1>8 DEF LineOf

\* The last close forgets the semaphore.
LEMMA CloseFacts ==
    ASSUME NEW k \in Kernels, NEW n \in Name, k.sems[n].users = 1, NEW r, r = semClose(k, n)
    PROVE  /\ r \in Kernels /\ r.pipes = k.pipes /\ r.kb = k.kb /\ r.asleep = k.asleep
           /\ \A m \in Name \ {n} : r.sems[m] = k.sems[m]
           /\ r.sems[n] = NoSem
<1>0. k.sems \in [Name -> SemRecord(Process)]
    BY DEF Kernels
<1>1. r = [k EXCEPT !.sems[n] = NoSem]
    BY DEF semClose, is_semaphore_valid
<1>2. NoSem \in SemRecord(Process)
    BY DEF SemRecord, UINT16_MAX, NoSem
<1> QED  BY <1>0, <1>1, <1>2 DEF Kernels

\* Striking off somebody who is not in line changes nothing.
LEMMA RemoveFacts ==
    ASSUME NEW k \in Kernels, NEW n \in Name, NEW p,
           \A i \in 1..Len(LineOf(k, n)) : LineOf(k, n)[i] # p
    PROVE  removeFromSemaphore(k, n, p) = k
<1>1. RemoveFirst(LineOf(k, n), p) = LineOf(k, n)
    BY DEF RemoveFirst
<1>2. k.sems \in [Name -> SemRecord(Process)] /\ k.sems[n] \in SemRecord(Process)
    BY DEF Kernels
<1>3. [k.sems[n] EXCEPT !.blockedProcesses = LineOf(k, n)] = k.sems[n]
    BY <1>2 DEF SemRecord, LineOf
<1>4. removeFromSemaphore(k, n, p) = [k EXCEPT !.sems[n].blockedProcesses = RemoveFirst(@, p)]
    BY DEF removeFromSemaphore
<1>5. [k.sems EXCEPT ![n] = k.sems[n]] = k.sems
    BY <1>2
<1> QED  BY <1>1, <1>3, <1>4, <1>5 DEF Kernels, LineOf

\* A pipe's semaphores have one user, so waking all of them is one post.
LEMMA WakeFacts ==
    ASSUME NEW k, NEW n, k.sems[n].users = 1
    PROVE  wake_all(k, n) = semPost(k, n)
<1> DEFINE Is(F) == F = [i \in 0..1 |-> IF i = 0 THEN k ELSE semPost(F[i - 1], n)]
           g == [i \in 0..1 |-> IF i = 0 THEN k ELSE semPost(k, n)]
           Posted == CHOOSE F : Is(F)
<1> HIDE DEF semPost
<1>1. wake_all(k, n) = Posted[1]
    BY DEF wake_all, PostTimes
<1>2. Is(g)
    OBVIOUS
<1>3. Is(Posted)
  <2> HIDE DEF Is, g
  <2> QED  BY <1>2
<1>4. Posted[0] = k /\ Posted[1] = semPost(Posted[0], n)
  <2> HIDE DEF Posted
  <2> QED  BY <1>3
<1> QED  BY <1>1, <1>4

-----------------------------------------------------------------------------
(* The operations on the pipe.                                              *)

SameRing(q, p) == q.buffer = p.buffer /\ q.idxToRead = p.idxToRead /\ q.idxToWrite = p.idxToWrite
SameFlags(q, p) == q.waitingToRead = p.waitingToRead /\ q.waitingToWrite = p.waitingToWrite
SameCounts(q, p) == /\ q.attached = p.attached /\ q.readers = p.readers /\ q.writers = p.writers
                    /\ q.exp_readers = p.exp_readers /\ q.exp_writers = p.exp_writers

\* The kernel with the pipe changed.
PipeSet(k, q) == [k EXCEPT !.pipes[id] = q]
OnlyPipe(r, k) == r \in Kernels /\ r.sems = k.sems /\ r.asleep = k.asleep /\ r.kb = k.kb
LEMMA PipeUpdate ==
    ASSUME NEW k \in Kernels, NEW q \in {NoPipe} \cup PipeRecord
    PROVE  OnlyPipe(PipeSet(k, q), k) /\ PipeSet(k, q).pipes[id] = q
BY Names DEF Kernels, PipeSet, OnlyPipe

\* The pipe is open or there is none.
LEMMA PipeIs ==
    ASSUME NEW k \in Kernels
    PROVE  /\ k.pipes[id] \in {NoPipe} \cup PipeRecord
           /\ getValidPipe(k, id) <=> k.pipes[id].open
           /\ k.pipes[id].open => k.pipes[id] \in PipeRecord
           /\ ~k.pipes[id].open => k.pipes[id] = NoPipe
<1>1. k.pipes[id] \in {NoPipe} \cup PipeRecord /\ id \in DOMAIN k.pipes
    BY Names DEF Kernels
<1>2. \A p \in PipeRecord : p.open = TRUE
    BY DEF PipeRecord
<1>3. NoPipe.open = FALSE
    BY DEF NoPipe
<1> QED  BY <1>1, <1>2, <1>3 DEF getValidPipe

\* The counts of a pipe that one end changes.
WithReaders(p, n, a, e) == [p EXCEPT !.readers = n, !.attached = a, !.exp_readers = e]
WithWriters(p, n, a, e) == [p EXCEPT !.writers = n, !.attached = a, !.exp_writers = e]
LEMMA CountUpdate ==
    ASSUME NEW p \in PipeRecord, NEW a \in Nat, NEW n \in Nat, NEW e \in Nat
    PROVE  /\ LET q == WithReaders(p, n, a, e) IN
              /\ q \in PipeRecord /\ SameRing(q, p) /\ SameFlags(q, p)
              /\ q.readers = n /\ q.attached = a /\ q.exp_readers = e
              /\ q.writers = p.writers /\ q.exp_writers = p.exp_writers
           /\ LET q == WithWriters(p, n, a, e) IN
              /\ q \in PipeRecord /\ SameRing(q, p) /\ SameFlags(q, p)
              /\ q.writers = n /\ q.attached = a /\ q.exp_writers = e
              /\ q.readers = p.readers /\ q.exp_readers = p.exp_readers
BY DEF PipeRecord, SameRing, SameFlags, WithReaders, WithWriters

\* One update of the pipe after another.
LEMMA PipeSetTwice ==
    ASSUME NEW k \in Kernels, NEW p, NEW q
    PROVE  PipeSet(PipeSet(k, p), q) = PipeSet(k, q) /\ PipeSet(k, p).pipes[id] = p
BY Names DEF Kernels, PipeSet

\* Attaching counts one more at its end, and one less to come.
LEMMA AttachFacts ==
    ASSUME NEW k \in Kernels, k.pipes[id].open
    PROVE  LET p == k.pipes[id]
               w == attachWriter(k, id)
               r == attachReader(k, id)
           IN  /\ OnlyPipe(w, k) /\ w.pipes[id] \in PipeRecord
               /\ SameRing(w.pipes[id], p) /\ SameFlags(w.pipes[id], p)
               /\ w.pipes[id].writers = p.writers + 1 /\ w.pipes[id].attached = p.attached + 1
               /\ w.pipes[id].exp_writers = (IF p.exp_writers > 0 THEN p.exp_writers - 1 ELSE p.exp_writers)
               /\ w.pipes[id].readers = p.readers /\ w.pipes[id].exp_readers = p.exp_readers
               /\ OnlyPipe(r, k) /\ r.pipes[id] \in PipeRecord
               /\ SameRing(r.pipes[id], p) /\ SameFlags(r.pipes[id], p)
               /\ r.pipes[id].readers = p.readers + 1 /\ r.pipes[id].attached = p.attached + 1
               /\ r.pipes[id].exp_readers = (IF p.exp_readers > 0 THEN p.exp_readers - 1 ELSE p.exp_readers)
               /\ r.pipes[id].writers = p.writers /\ r.pipes[id].exp_writers = p.exp_writers
<1>1. PICK p \in PipeRecord : p = k.pipes[id]
    BY PipeIs
<1>2. getValidPipe(k, id)
    BY PipeIs
<1>3. p.attached \in Nat /\ p.writers \in Nat /\ p.readers \in Nat /\ p.exp_writers \in Nat
      /\ p.exp_readers \in Nat
    BY DEF PipeRecord
<1>4. PICK a \in Nat, nw \in Nat, nr \in Nat : a = p.attached + 1 /\ nw = p.writers + 1 /\ nr = p.readers + 1
    BY <1>3
<1>5. PICK ew \in Nat : ew = IF p.exp_writers > 0 THEN p.exp_writers - 1 ELSE p.exp_writers
    BY <1>3
<1>6. PICK er \in Nat : er = IF p.exp_readers > 0 THEN p.exp_readers - 1 ELSE p.exp_readers
    BY <1>3
<1>7. PICK qw : qw = WithWriters(p, nw, a, ew)
    OBVIOUS
<1>8. PICK qr : qr = WithReaders(p, nr, a, er)
    OBVIOUS
<1>9. k.pipes \in [PipeId -> {NoPipe} \cup PipeRecord] /\ k = [k EXCEPT !.pipes = k.pipes]
    BY DEF Kernels
<1>10. attachWriter(k, id) = PipeSet(k, qw)
  <2>1. PICK q1 : q1 = [p EXCEPT !.writers = nw]
      OBVIOUS
  <2>2. PICK q2 : q2 = [q1 EXCEPT !.attached = a]
      OBVIOUS
  <2>3. q1.attached = p.attached /\ q2.exp_writers = p.exp_writers /\ qw = [q2 EXCEPT !.exp_writers = ew]
      BY <1>7, <2>1, <2>2 DEF PipeRecord, WithWriters
  <2>4. PICK k1 : k1 = PipeSet(k, q1)
      OBVIOUS
  <2>5. PICK k2 : k2 = PipeSet(k1, q2)
      OBVIOUS
  <2>6. k1.pipes[id] = q1 /\ k2 = PipeSet(k, q2) /\ k2.pipes[id] = q2 /\ PipeSet(k2, qw) = PipeSet(k, qw)
      BY <2>4, <2>5, PipeSetTwice
  <2>7. k1 = [k EXCEPT !.pipes[id].writers = nw]
      BY <1>1, <2>1, <2>4 DEF PipeSet
  <2>8. k2 = [k1 EXCEPT !.pipes[id].attached = a]
      BY <2>2, <2>5, <2>6 DEF PipeSet
  <2>9. PipeSet(k2, qw) = [k2 EXCEPT !.pipes[id].exp_writers = ew]
      BY <2>3, <2>6 DEF PipeSet
  <2>10. attachWriter(k, id) = [k EXCEPT !.pipes[id].writers = nw, !.pipes[id].attached = a, !.pipes[id].exp_writers = ew]
      BY <1>1, <1>2, <1>4, <1>5 DEF attachWriter
  <2> QED  BY <2>6, <2>7, <2>8, <2>9, <2>10
<1>11. attachReader(k, id) = PipeSet(k, qr)
  <2>1. PICK q1 : q1 = [p EXCEPT !.readers = nr]
      OBVIOUS
  <2>2. PICK q2 : q2 = [q1 EXCEPT !.attached = a]
      OBVIOUS
  <2>3. q1.attached = p.attached /\ q2.exp_readers = p.exp_readers /\ qr = [q2 EXCEPT !.exp_readers = er]
      BY <1>8, <2>1, <2>2 DEF PipeRecord, WithReaders
  <2>4. PICK k1 : k1 = PipeSet(k, q1)
      OBVIOUS
  <2>5. PICK k2 : k2 = PipeSet(k1, q2)
      OBVIOUS
  <2>6. k1.pipes[id] = q1 /\ k2 = PipeSet(k, q2) /\ k2.pipes[id] = q2 /\ PipeSet(k2, qr) = PipeSet(k, qr)
      BY <2>4, <2>5, PipeSetTwice
  <2>7. k1 = [k EXCEPT !.pipes[id].readers = nr]
      BY <1>1, <2>1, <2>4 DEF PipeSet
  <2>8. k2 = [k1 EXCEPT !.pipes[id].attached = a]
      BY <2>2, <2>5, <2>6 DEF PipeSet
  <2>9. PipeSet(k2, qr) = [k2 EXCEPT !.pipes[id].exp_readers = er]
      BY <2>3, <2>6 DEF PipeSet
  <2>10. attachReader(k, id) = [k EXCEPT !.pipes[id].readers = nr, !.pipes[id].attached = a, !.pipes[id].exp_readers = er]
      BY <1>1, <1>2, <1>4, <1>6 DEF attachReader
  <2> QED  BY <2>6, <2>7, <2>8, <2>9, <2>10
<1>12. /\ qw \in PipeRecord /\ SameRing(qw, p) /\ SameFlags(qw, p)
       /\ qw.writers = nw /\ qw.attached = a /\ qw.exp_writers = ew
       /\ qw.readers = p.readers /\ qw.exp_readers = p.exp_readers
  <2>1. WithWriters(p, nw, a, ew) \in PipeRecord
      BY CountUpdate
  <2>2. SameRing(WithWriters(p, nw, a, ew), p)
      BY CountUpdate
  <2>3. SameFlags(WithWriters(p, nw, a, ew), p)
      BY CountUpdate
  <2>4. /\ WithWriters(p, nw, a, ew).writers = nw /\ WithWriters(p, nw, a, ew).attached = a /\ WithWriters(p, nw, a, ew).exp_writers = ew
        /\ WithWriters(p, nw, a, ew).readers = p.readers /\ WithWriters(p, nw, a, ew).exp_readers = p.exp_readers
      BY CountUpdate
  <2> QED  BY <1>7, <2>1, <2>2, <2>3, <2>4
<1>13. /\ qr \in PipeRecord /\ SameRing(qr, p) /\ SameFlags(qr, p)
       /\ qr.readers = nr /\ qr.attached = a /\ qr.exp_readers = er
       /\ qr.writers = p.writers /\ qr.exp_writers = p.exp_writers
  <2>1. WithReaders(p, nr, a, er) \in PipeRecord
      BY CountUpdate
  <2>2. SameRing(WithReaders(p, nr, a, er), p)
      BY CountUpdate
  <2>3. SameFlags(WithReaders(p, nr, a, er), p)
      BY CountUpdate
  <2>4. /\ WithReaders(p, nr, a, er).readers = nr /\ WithReaders(p, nr, a, er).attached = a /\ WithReaders(p, nr, a, er).exp_readers = er
        /\ WithReaders(p, nr, a, er).writers = p.writers /\ WithReaders(p, nr, a, er).exp_writers = p.exp_writers
      BY CountUpdate
  <2> QED  BY <1>8, <2>1, <2>2, <2>3, <2>4
<1>14. OnlyPipe(PipeSet(k, qw), k) /\ PipeSet(k, qw).pipes[id] = qw
    BY <1>12, PipeUpdate
<1>15. OnlyPipe(PipeSet(k, qr), k) /\ PipeSet(k, qr).pipes[id] = qr
    BY <1>13, PipeUpdate
<1> HIDE DEF OnlyPipe
<1> QED  BY <1>1, <1>4, <1>5, <1>6, <1>10, <1>11, <1>12, <1>13, <1>14, <1>15

\* The next place of the ring is one of its places.
LEMMA NextIndex == ASSUME NEW i \in Index PROVE NEXT_IDX(i) \in Index
<1>1. PIPE_BUFFER_SIZE \in Nat \ {0}
    BY PipeAssumption
<1> QED  BY <1>1 DEF NEXT_IDX, Index

\* Reading takes one byte out of the ring.
LEMMA TakeFacts ==
    ASSUME NEW k \in Kernels, NEW p \in PipeRecord, k.pipes[id] = p, NEW r, r = readPipe_take(k, id)
    PROVE  /\ OnlyPipe(r, k)
           /\ r.pipes[id] \in PipeRecord
           /\ SameFlags(r.pipes[id], p) /\ SameCounts(r.pipes[id], p)
           /\ r.pipes[id].buffer = p.buffer /\ r.pipes[id].idxToWrite = p.idxToWrite
           /\ r.pipes[id].idxToRead = NEXT_IDX(p.idxToRead)
<1>1. PICK i \in Index : i = NEXT_IDX(p.idxToRead)
    BY NextIndex DEF PipeRecord
<1>2. PICK q : q = [p EXCEPT !.idxToRead = i]
    OBVIOUS
<1>3. /\ q \in PipeRecord /\ q.buffer = p.buffer /\ q.idxToWrite = p.idxToWrite
      /\ q.idxToRead = NEXT_IDX(p.idxToRead)
    BY <1>1, <1>2 DEF PipeRecord
<1>4. SameFlags(q, p)
    BY <1>2 DEF PipeRecord, SameFlags
<1>5. SameCounts(q, p)
    BY <1>2 DEF PipeRecord, SameCounts
<1>6. r = PipeSet(k, q)
    BY <1>1, <1>2 DEF PipeSet, readPipe_take
<1>7. OnlyPipe(r, k)
    BY <1>3, <1>6, PipeUpdate
<1>8. r.pipes[id] = q
    BY <1>3, <1>6, PipeUpdate
<1> QED  BY <1>3, <1>4, <1>5, <1>7, <1>8 DEF OnlyPipe

\* Writing puts one byte into it.
LEMMA PutFacts ==
    ASSUME NEW k \in Kernels, NEW p \in PipeRecord, k.pipes[id] = p, NEW c \in Byte,
           NEW r, r = writePipe_put(k, id, c)
    PROVE  /\ OnlyPipe(r, k)
           /\ r.pipes[id] \in PipeRecord
           /\ SameFlags(r.pipes[id], p) /\ SameCounts(r.pipes[id], p)
           /\ r.pipes[id].buffer = [p.buffer EXCEPT ![p.idxToWrite] = c]
           /\ r.pipes[id].idxToRead = p.idxToRead
           /\ r.pipes[id].idxToWrite = NEXT_IDX(p.idxToWrite)
<1>1. PICK i \in Index : i = NEXT_IDX(p.idxToWrite)
    BY NextIndex DEF PipeRecord
<1>2. PICK b \in [Index -> Byte] : b = [p.buffer EXCEPT ![p.idxToWrite] = c]
    BY DEF PipeRecord
<1>3. PICK q1 : q1 = [p EXCEPT !.buffer = b]
    OBVIOUS
<1>4. PICK q : q = [q1 EXCEPT !.idxToWrite = i]
    OBVIOUS
<1>5. q1 \in PipeRecord /\ q1.idxToWrite = p.idxToWrite /\ q1.buffer = b /\ q1.idxToRead = p.idxToRead
    BY <1>3 DEF PipeRecord
<1>6. q \in PipeRecord /\ q.buffer = b /\ q.idxToRead = p.idxToRead /\ q.idxToWrite = i
    BY <1>4, <1>5 DEF PipeRecord
<1>7. SameFlags(q, p)
    BY <1>3, <1>4 DEF PipeRecord, SameFlags
<1>8. SameCounts(q, p)
    BY <1>3, <1>4 DEF PipeRecord, SameCounts
<1>9. r = PipeSet(k, q)
  <2>1. r = [k EXCEPT !.pipes[id].buffer[p.idxToWrite] = c, !.pipes[id].idxToWrite = i]
      BY <1>1 DEF writePipe_put
  <2>2. PICK k1 : k1 = PipeSet(k, q1)
      OBVIOUS
  <2>3. k1.pipes[id] = q1 /\ PipeSet(k1, q) = PipeSet(k, q)
      BY <2>2, PipeSetTwice
  <2>4. k1 = [k EXCEPT !.pipes[id].buffer[p.idxToWrite] = c]
      BY <1>2, <1>3, <2>2 DEF PipeSet
  <2>5. PipeSet(k1, q) = [k1 EXCEPT !.pipes[id].idxToWrite = i]
      BY <1>4, <2>3 DEF PipeSet
  <2> QED  BY <2>1, <2>3, <2>4, <2>5
<1>10. OnlyPipe(r, k)
    BY <1>6, <1>9, PipeUpdate
<1>11. r.pipes[id] = q
    BY <1>6, <1>9, PipeUpdate
<1> QED  BY <1>1, <1>2, <1>6, <1>7, <1>8, <1>10, <1>11 DEF OnlyPipe

\* The flags of those who wait.
FlagRead(k, b) == [k EXCEPT !.pipes[id].waitingToRead = b]
FlagWrite(k, b) == [k EXCEPT !.pipes[id].waitingToWrite = b]
LEMMA FlagFacts ==
    ASSUME NEW k \in Kernels, NEW p \in PipeRecord, k.pipes[id] = p, NEW b \in BOOLEAN,
           NEW r, NEW w, r = FlagRead(k, b), w = FlagWrite(k, b)
    PROVE  /\ r \in Kernels /\ r.sems = k.sems /\ r.asleep = k.asleep /\ r.kb = k.kb
           /\ w \in Kernels /\ w.sems = k.sems /\ w.asleep = k.asleep /\ w.kb = k.kb
           /\ r.pipes[id] \in PipeRecord /\ SameRing(r.pipes[id], p) /\ SameCounts(r.pipes[id], p)
           /\ w.pipes[id] \in PipeRecord /\ SameRing(w.pipes[id], p) /\ SameCounts(w.pipes[id], p)
           /\ r.pipes[id].waitingToRead = b /\ r.pipes[id].waitingToWrite = p.waitingToWrite
           /\ w.pipes[id].waitingToRead = p.waitingToRead /\ w.pipes[id].waitingToWrite = b
<1>1. PICK qr : qr = [p EXCEPT !.waitingToRead = b]
    OBVIOUS
<1>2. PICK qw : qw = [p EXCEPT !.waitingToWrite = b]
    OBVIOUS
<1>3. /\ qr \in PipeRecord /\ qr.waitingToRead = b /\ qr.waitingToWrite = p.waitingToWrite
      /\ qw \in PipeRecord /\ qw.waitingToRead = p.waitingToRead /\ qw.waitingToWrite = b
    BY <1>1, <1>2 DEF PipeRecord
<1>4. SameRing(qr, p) /\ SameRing(qw, p)
    BY <1>1, <1>2 DEF PipeRecord, SameRing
<1>5. SameCounts(qr, p) /\ SameCounts(qw, p)
    BY <1>1, <1>2 DEF PipeRecord, SameCounts
<1>6. r = PipeSet(k, qr) /\ w = PipeSet(k, qw)
    BY <1>1, <1>2 DEF PipeSet, FlagRead, FlagWrite
<1>7. OnlyPipe(r, k)
    BY <1>3, <1>6, PipeUpdate
<1>8. OnlyPipe(w, k)
    BY <1>3, <1>6, PipeUpdate
<1>9. r.pipes[id] = qr /\ w.pipes[id] = qw
    BY <1>3, <1>6, PipeUpdate
<1> QED  BY <1>3, <1>4, <1>5, <1>7, <1>8, <1>9 DEF OnlyPipe

-----------------------------------------------------------------------------
(* Who waits where.                                                         *)

Writing == {"read", "loop", "take", "write", "put", "post"}
Reading == {"read", "awake", "post"}

\* A process that sleeps stands at the point of its program where it went to
\* sleep, and the lines hold nobody else.
InLine(k, n, p, here) == LineOf(k, n) = <<>> \/ (LineOf(k, n) = <<p>> /\ here /\ p \in k.asleep)
LinesOf(k, l, r) ==
    /\ InLine(k, buffer_sem, "L", l = "loop")
    /\ InLine(k, canRead(id), "R", r = "awake")
    /\ InLine(k, canWrite(id), "L", l = "put")
    /\ LineOf(k, wait("L")) \in Seq({"S"}) /\ LineOf(k, wait("R")) \in Seq({"S"})
    /\ "L" \in k.asleep => l \in {"loop", "put"}
    /\ "R" \in k.asleep => r = "awake"

\* The pipe's two semaphores live as long as it.
OpenedOf(k) ==
    IF k.pipes[id].open THEN k.sems[canRead(id)].users = 1 /\ k.sems[canWrite(id)].users = 1
    ELSE k.sems[canRead(id)] = NoSem /\ k.sems[canWrite(id)] = NoSem

\* An awake process is in no line, and may go anywhere.
LEMMA LinesMove ==
    ASSUME NEW k, NEW l, NEW r, LinesOf(k, l, r), NEW to
    PROVE  /\ "L" \notin k.asleep =>
                /\ LineOf(k, buffer_sem) = <<>> /\ LineOf(k, canWrite(id)) = <<>>
                /\ LinesOf(k, to, r)
           /\ "R" \notin k.asleep => LineOf(k, canRead(id)) = <<>> /\ LinesOf(k, l, to)
           /\ l \notin {"loop", "put"} => "L" \notin k.asleep
           /\ r # "awake" => "R" \notin k.asleep
BY DEF LinesOf, InLine

\* What does not touch lines or sleepers.
LEMMA LinesSame ==
    ASSUME NEW k, NEW l, NEW r, LinesOf(k, l, r), NEW h, h.asleep = k.asleep,
           \A n \in Name : LineOf(h, n) = LineOf(k, n)
    PROVE  LinesOf(h, l, r)
BY Names DEF LinesOf, InLine

\* The first of a line of one.
LEMMA Singles ==
    /\ \A p : Head(<<p>>) = p /\ Tail(<<p>>) = <<>> /\ <<p>> # <<>> /\ Append(<<>>, p) = <<p>>
    /\ \A s \in Seq({"S"}) : s # <<>> => Tail(s) \in Seq({"S"}) /\ Head(s) = "S"
    /\ \A s \in Seq({"S"}) : Append(s, "S") \in Seq({"S"})
<1>1. \A p : Head(<<p>>) = p /\ Tail(<<p>>) = <<>> /\ <<p>> # <<>> /\ Append(<<>>, p) = <<p>>
    OBVIOUS
<1>2. ASSUME NEW s \in Seq({"S"}), s # <<>> PROVE Tail(s) \in Seq({"S"}) /\ Head(s) = "S"
    BY <1>2
<1>3. \A s \in Seq({"S"}) : Append(s, "S") \in Seq({"S"})
    OBVIOUS
<1> QED  BY <1>1, <1>2, <1>3

\* A post keeps the lines in order.
LEMMA LinesPost ==
    ASSUME NEW k \in Kernels, NEW l, NEW r, LinesOf(k, l, r),
           NEW n \in {canRead(id), canWrite(id), buffer_sem, wait("L"), wait("R")}
    PROVE  LinesOf(semPost(k, n), l, r)
<1>1. PICK h : h = semPost(k, n)
    OBVIOUS
<1>2. n \in Name
    BY Names
<1>3. /\ \A m \in Name \ {n} : LineOf(h, m) = LineOf(k, m)
      /\ \/ LineOf(h, n) = LineOf(k, n) /\ h.asleep = k.asleep
         \/ LineOf(k, n) # <<>> /\ LineOf(h, n) = Tail(LineOf(k, n))
            /\ h.asleep = k.asleep \ {Head(LineOf(k, n))}
  <2>1. \A m \in Name \ {n} : h.sems[m] = k.sems[m]
      BY <1>1, <1>2, PostFacts
  <2>2. \/ LineOf(h, n) = LineOf(k, n) /\ h.asleep = k.asleep
        \/ LineOf(k, n) # <<>> /\ LineOf(h, n) = Tail(LineOf(k, n))
           /\ h.asleep = k.asleep \ {Head(LineOf(k, n))}
      BY <1>1, <1>2, PostFacts
  <2> QED  BY <2>1, <2>2 DEF LineOf
<1>4. CASE LineOf(h, n) = LineOf(k, n) /\ h.asleep = k.asleep
  <2>1. \A m \in Name : LineOf(h, m) = LineOf(k, m)
      BY <1>3, <1>4
  <2> QED  BY <1>1, <1>4, <2>1, LinesSame
<1>5. CASE LineOf(k, n) # <<>> /\ LineOf(h, n) = Tail(LineOf(k, n))
           /\ h.asleep = k.asleep \ {Head(LineOf(k, n))}
  <2>1. CASE n = buffer_sem
    <3>1. LineOf(k, n) = <<"L">> /\ l = "loop"
        BY <1>5, <2>1 DEF LinesOf, InLine
    <3>2. LineOf(h, n) = <<>> /\ h.asleep = k.asleep \ {"L"}
        BY <1>5, <3>1, Singles
    <3> QED  BY <1>1, <1>3, <2>1, <3>1, <3>2, Names DEF LinesOf, InLine
  <2>2. CASE n = canRead(id)
    <3>1. LineOf(k, n) = <<"R">>
        BY <1>5, <2>2 DEF LinesOf, InLine
    <3>2. LineOf(h, n) = <<>> /\ h.asleep = k.asleep \ {"R"}
        BY <1>5, <3>1, Singles
    <3> QED  BY <1>1, <1>3, <2>2, <3>1, <3>2, Names DEF LinesOf, InLine
  <2>3. CASE n = canWrite(id)
    <3>1. LineOf(k, n) = <<"L">> /\ l = "put"
        BY <1>5, <2>3 DEF LinesOf, InLine
    <3>2. LineOf(h, n) = <<>> /\ h.asleep = k.asleep \ {"L"}
        BY <1>5, <3>1, Singles
    <3> QED  BY <1>1, <1>3, <2>3, <3>1, <3>2, Names DEF LinesOf, InLine
  <2>4. CASE n \in {wait("L"), wait("R")}
    <3>1. LineOf(h, n) \in Seq({"S"}) /\ h.asleep = k.asleep \ {"S"}
        BY <1>5, <2>4, Singles DEF LinesOf
    <3> QED  BY <1>1, <1>3, <2>4, <3>1, Names DEF LinesOf, InLine
  <2> QED  BY <2>1, <2>2, <2>3, <2>4
<1> QED  BY <1>3, <1>4, <1>5

-----------------------------------------------------------------------------
(* The operations that end a use of the pipe.  They wake whoever waits and  *)
(* may delete the pipe, but only without a writer.                          *)

Settles(r, k) ==
    /\ r \in Kernels /\ r.kb = k.kb /\ OpenedOf(r)
    /\ \/ r.pipes[id] = NoPipe /\ (k.pipes[id] = NoPipe \/ k.pipes[id].writers = 0)
       \/ /\ k.pipes[id] \in PipeRecord /\ r.pipes[id] \in PipeRecord
          /\ SameRing(r.pipes[id], k.pipes[id]) /\ SameCounts(r.pipes[id], k.pipes[id])

\* An open pipe, and what is not one.
LEMMA OpenPipes ==
    /\ \A p \in PipeRecord : p.open = TRUE
    /\ NoPipe.open = FALSE /\ NoPipe \notin PipeRecord
    /\ \A p : SameRing(p, p) /\ SameCounts(p, p) /\ SameFlags(p, p)
<1>1. \A p \in PipeRecord : p.open = TRUE
    BY DEF PipeRecord
<1>2. NoPipe.open = FALSE
    BY DEF NoPipe
<1>3. \A p : SameRing(p, p) /\ SameCounts(p, p) /\ SameFlags(p, p)
    BY DEF SameRing, SameCounts, SameFlags
<1> QED  BY <1>1, <1>2, <1>3

LEMMA SettlesSame ==
    ASSUME NEW k \in Kernels, OpenedOf(k)
    PROVE  Settles(k, k)
<1>1. k.pipes[id] = NoPipe \/ k.pipes[id] \in PipeRecord
    BY PipeIs
<1>2. CASE k.pipes[id] = NoPipe
    BY <1>2 DEF Settles
<1>3. CASE k.pipes[id] \in PipeRecord
    BY <1>3, OpenPipes DEF Settles
<1> QED  BY <1>1, <1>2, <1>3

LEMMA SettlesTwice ==
    ASSUME NEW k, NEW h, NEW r, Settles(h, k), Settles(r, h)
    PROVE  Settles(r, k)
BY OpenPipes DEF Settles, SameRing, SameCounts

\* Deleting the pipe forgets both lines.
LEMMA DeleteFacts ==
    ASSUME NEW k \in Kernels, OpenedOf(k), k.pipes[id].open, NEW l, NEW r, LinesOf(k, l, r),
           k.pipes[id].writers = 0
    PROVE  Settles(deletePipe(k, id), k) /\ LinesOf(deletePipe(k, id), l, r)
<1>1. PICK h : h = PipeSet(k, NoPipe)
    OBVIOUS
<1>2. h \in Kernels /\ h.sems = k.sems /\ h.asleep = k.asleep /\ h.kb = k.kb /\ h.pipes[id] = NoPipe
    BY <1>1, PipeUpdate DEF OnlyPipe
<1>3. PICK g : g = semClose(h, canRead(id))
    OBVIOUS
<1>4. PICK d : d = semClose(g, canWrite(id))
    OBVIOUS
<1>5. deletePipe(k, id) = d
    BY <1>1, <1>3, <1>4 DEF deletePipe, PipeSet
<1>6. canRead(id) \in Name /\ canWrite(id) \in Name /\ canRead(id) # canWrite(id)
    BY Names
<1>7. h.sems[canRead(id)].users = 1 /\ h.sems[canWrite(id)].users = 1
    BY <1>2 DEF OpenedOf
<1>8. /\ g \in Kernels /\ g.pipes = h.pipes /\ g.kb = k.kb /\ g.asleep = k.asleep
      /\ g.sems[canRead(id)] = NoSem /\ \A m \in Name \ {canRead(id)} : g.sems[m] = h.sems[m]
    BY <1>2, <1>3, <1>6, <1>7, CloseFacts
<1>9. g.sems[canWrite(id)].users = 1
    BY <1>6, <1>7, <1>8
<1>10. /\ d \in Kernels /\ d.pipes = h.pipes /\ d.kb = k.kb /\ d.asleep = k.asleep
       /\ d.sems[canWrite(id)] = NoSem /\ \A m \in Name \ {canWrite(id)} : d.sems[m] = g.sems[m]
    BY <1>4, <1>6, <1>8, <1>9, CloseFacts
<1>11. Settles(d, k)
  <2>1. d.pipes[id] = NoPipe
      BY <1>2, <1>10
  <2>2. OpenedOf(d)
      BY <1>6, <1>8, <1>10, <2>1, OpenPipes DEF OpenedOf
  <2> QED  BY <1>10, <2>1, <2>2 DEF Settles
<1>12. LinesOf(d, l, r)
  <2>1. NoSem.blockedProcesses = <<>>
      BY DEF NoSem
  <2>2. LineOf(d, canRead(id)) = <<>> /\ LineOf(d, canWrite(id)) = <<>>
      BY <1>6, <1>8, <1>10, <2>1 DEF LineOf
  <2>3. \A m \in Name \ {canRead(id), canWrite(id)} : LineOf(d, m) = LineOf(k, m)
      BY <1>2, <1>8, <1>10 DEF LineOf
  <2> QED  BY <1>10, <2>2, <2>3, Names DEF LinesOf, InLine
<1> QED  BY <1>5, <1>11, <1>12

\* A post at the pipe.
LEMMA PipePost ==
    ASSUME NEW k \in Kernels, OpenedOf(k), k.pipes[id].open, NEW l, NEW r, LinesOf(k, l, r),
           NEW n \in {canRead(id), canWrite(id)}
    PROVE  /\ wake_all(k, n) = semPost(k, n)
           /\ semPost(k, n) \in Kernels /\ semPost(k, n).pipes = k.pipes
           /\ Settles(semPost(k, n), k) /\ OpenedOf(semPost(k, n))
           /\ LinesOf(semPost(k, n), l, r)
<1>1. PICK h : h = semPost(k, n)
    OBVIOUS
<1>2. n \in Name /\ canRead(id) \in Name /\ canWrite(id) \in Name
    BY Names
<1>3. k.sems[canRead(id)].users = 1 /\ k.sems[canWrite(id)].users = 1
    BY DEF OpenedOf
<1>4. k.sems[n].users = 1
    BY <1>3
<1>5. wake_all(k, n) = h
    BY <1>1, <1>4, WakeFacts
<1>6. /\ h \in Kernels /\ h.pipes = k.pipes /\ h.kb = k.kb /\ h.sems[n].users = k.sems[n].users
      /\ \A m \in Name \ {n} : h.sems[m] = k.sems[m]
    BY <1>1, <1>2, PostKeeps
<1>7. OpenedOf(h)
    BY <1>2, <1>3, <1>6 DEF OpenedOf
<1>8. Settles(h, k)
  <2>1. k.pipes[id] \in PipeRecord
      BY PipeIs
  <2> QED  BY <1>6, <1>7, <2>1, OpenPipes DEF Settles
<1>9. LinesOf(h, l, r)
    BY <1>1, LinesPost
<1> QED  BY <1>1, <1>5, <1>6, <1>7, <1>8, <1>9

LEMMA CloseWakeFacts ==
    ASSUME NEW k \in Kernels, OpenedOf(k), NEW l, NEW r, LinesOf(k, l, r)
    PROVE  Settles(closePipe_wake(k, id), k) /\ LinesOf(closePipe_wake(k, id), l, r)
<1>1. CASE getValidPipe(k, id) /\ k.pipes[id].attached <= 1
  <2>1. k.pipes[id].open
      BY <1>1, PipeIs
  <2>2. PICK h : h = semPost(k, canRead(id))
      OBVIOUS
  <2>3. wake_all(k, canRead(id)) = h /\ h \in Kernels /\ h.pipes = k.pipes
      BY <2>1, <2>2, PipePost
  <2>4. Settles(h, k)
      BY <2>1, <2>2, PipePost
  <2>5. OpenedOf(h)
      BY <2>1, <2>2, PipePost
  <2>6. LinesOf(h, l, r)
      BY <2>1, <2>2, PipePost
  <2>7. PICK g : g = semPost(h, canWrite(id))
      OBVIOUS
  <2>8. h.pipes[id].open
      BY <2>1, <2>3
  <2>9. wake_all(h, canWrite(id)) = g
      BY <2>3, <2>5, <2>6, <2>7, <2>8, PipePost
  <2>10. Settles(g, h)
      BY <2>3, <2>5, <2>6, <2>7, <2>8, PipePost
  <2>11. LinesOf(g, l, r)
      BY <2>3, <2>5, <2>6, <2>7, <2>8, PipePost
  <2>12. closePipe_wake(k, id) = g
      BY <1>1, <2>3, <2>9 DEF closePipe_wake
  <2> QED  BY <2>4, <2>10, <2>11, <2>12, SettlesTwice
<1>2. CASE ~(getValidPipe(k, id) /\ k.pipes[id].attached <= 1)
  <2>1. closePipe_wake(k, id) = k
      BY <1>2 DEF closePipe_wake
  <2> QED  BY <2>1, SettlesSame
<1> QED  BY <1>1, <1>2

\* The counts of an open pipe are those of the processes at its ends.
LEMMA CloseDeleteFacts ==
    ASSUME NEW k \in Kernels, OpenedOf(k), NEW l, NEW r, LinesOf(k, l, r),
           k.pipes[id].open => k.pipes[id].attached = k.pipes[id].readers + k.pipes[id].writers
    PROVE  Settles(closePipe_delete(k, id), k) /\ LinesOf(closePipe_delete(k, id), l, r)
<1>1. CASE getValidPipe(k, id) /\ k.pipes[id].attached = 0
  <2>1. k.pipes[id].open /\ k.pipes[id] \in PipeRecord
      BY <1>1, PipeIs
  <2>2. k.pipes[id].writers = 0
    <3>1. PICK p \in PipeRecord : p = k.pipes[id]
        BY <2>1
    <3>2. p.readers \in Nat /\ p.writers \in Nat
        BY DEF PipeRecord
    <3>3. p.attached = 0 /\ p.attached = p.readers + p.writers
        BY <1>1, <2>1, <3>1
    <3> QED  BY <3>1, <3>2, <3>3
  <2>3. closePipe_delete(k, id) = deletePipe(k, id)
      BY <1>1 DEF closePipe_delete
  <2> QED  BY <2>1, <2>2, <2>3, DeleteFacts
<1>2. CASE ~(getValidPipe(k, id) /\ k.pipes[id].attached = 0)
  <2>1. closePipe_delete(k, id) = k
      BY <1>2 DEF closePipe_delete
  <2> QED  BY <2>1, SettlesSame
<1> QED  BY <1>1, <1>2

LEMMA DeleteIfUnusedFacts ==
    ASSUME NEW k \in Kernels, OpenedOf(k), k.pipes[id].open, NEW l, NEW r, LinesOf(k, l, r)
    PROVE  Settles(DeleteIfUnused(k, id), k) /\ LinesOf(DeleteIfUnused(k, id), l, r)
<1>1. CASE DeleteIfUnused(k, id) = k
    BY <1>1, SettlesSame
<1>2. CASE k.pipes[id].writers = 0 /\ DeleteIfUnused(k, id) = deletePipe(k, id)
    BY <1>2, DeleteFacts
<1>3. \/ DeleteIfUnused(k, id) = k
      \/ k.pipes[id].writers = 0 /\ DeleteIfUnused(k, id) = deletePipe(k, id)
    BY DEF DeleteIfUnused
<1> QED  BY <1>1, <1>2, <1>3

\* The pipe with a flag cleared.
LEMMA ClearFacts ==
    ASSUME NEW k \in Kernels, OpenedOf(k), k.pipes[id].open, NEW l, NEW r, LinesOf(k, l, r),
           NEW h \in {FlagRead(k, FALSE), FlagWrite(k, FALSE)}
    PROVE  Settles(h, k) /\ OpenedOf(h) /\ LinesOf(h, l, r) /\ h.pipes[id].open
<1>1. PICK p \in PipeRecord : p = k.pipes[id]
    BY PipeIs
<1>2. PICK b \in BOOLEAN : b = FALSE
    OBVIOUS
<1>3. PICK hr, hw : hr = FlagRead(k, b) /\ hw = FlagWrite(k, b) /\ h \in {hr, hw}
    BY <1>2
<1>4. /\ h \in Kernels /\ h.sems = k.sems /\ h.asleep = k.asleep /\ h.kb = k.kb
      /\ h.pipes[id] \in PipeRecord
  <2>1. /\ hr \in Kernels /\ hr.sems = k.sems /\ hr.asleep = k.asleep /\ hr.kb = k.kb
        /\ hr.pipes[id] \in PipeRecord
      BY <1>3, <1>1, FlagFacts
  <2>2. /\ hw \in Kernels /\ hw.sems = k.sems /\ hw.asleep = k.asleep /\ hw.kb = k.kb
        /\ hw.pipes[id] \in PipeRecord
      BY <1>3, <1>1, FlagFacts
  <2> QED  BY <1>3, <2>1, <2>2
<1>5. SameRing(h.pipes[id], p)
    BY <1>3, <1>1, FlagFacts
<1>6. SameCounts(h.pipes[id], p)
    BY <1>3, <1>1, FlagFacts
<1>7. OpenedOf(h)
    BY <1>4, OpenPipes DEF OpenedOf
<1>8. Settles(h, k)
    BY <1>1, <1>4, <1>5, <1>6, <1>7 DEF Settles
<1>9. LinesOf(h, l, r)
    BY <1>4, LinesSame DEF LineOf
<1>10. h.pipes[id].open
    BY <1>4, OpenPipes
<1> QED  BY <1>7, <1>8, <1>9, <1>10

LEMMA DetachWakeFacts ==
    ASSUME NEW k \in Kernels, OpenedOf(k), NEW l, NEW r, LinesOf(k, l, r),
           NEW e \in {detachReader_wake(k, id), detachWriter_wake(k, id)}
    PROVE  Settles(e, k) /\ LinesOf(e, l, r)
<1>1. CASE ~getValidPipe(k, id)
  <2>1. e = k
      BY <1>1 DEF detachReader_wake, detachWriter_wake
  <2> QED  BY <2>1, SettlesSame
<1>2. CASE getValidPipe(k, id)
  <2>0. k.pipes[id].open
      BY <1>2, PipeIs
  <2>1. \/ e = DeleteIfUnused(k, id)
        \/ \E n \in {canRead(id), canWrite(id)}, h \in {FlagRead(k, FALSE), FlagWrite(k, FALSE)} :
              e = DeleteIfUnused(wake_all(h, n), id)
      BY <1>2 DEF detachReader_wake, detachWriter_wake, FlagRead, FlagWrite
  <2>2. CASE e = DeleteIfUnused(k, id)
      BY <2>0, <2>2, DeleteIfUnusedFacts
  <2>3. ASSUME NEW n \in {canRead(id), canWrite(id)}, NEW h \in {FlagRead(k, FALSE), FlagWrite(k, FALSE)},
               e = DeleteIfUnused(wake_all(h, n), id)
        PROVE  Settles(e, k) /\ LinesOf(e, l, r)
    <3>1. Settles(h, k)
        BY <2>0, ClearFacts
    <3>2. OpenedOf(h)
        BY <2>0, ClearFacts
    <3>3. LinesOf(h, l, r)
        BY <2>0, ClearFacts
    <3>4. h.pipes[id].open
        BY <2>0, ClearFacts
    <3>5. h \in Kernels
        BY <3>1 DEF Settles
    <3>6. PICK g : g = semPost(h, n)
        OBVIOUS
    <3>7. wake_all(h, n) = g /\ g \in Kernels /\ g.pipes = h.pipes
        BY <3>2, <3>3, <3>4, <3>5, <3>6, PipePost
    <3>8. Settles(g, h)
        BY <3>2, <3>3, <3>4, <3>5, <3>6, PipePost
    <3>9. OpenedOf(g)
        BY <3>2, <3>3, <3>4, <3>5, <3>6, PipePost
    <3>10. LinesOf(g, l, r)
        BY <3>2, <3>3, <3>4, <3>5, <3>6, PipePost
    <3>11. g.pipes[id].open
        BY <3>4, <3>7
    <3>12. Settles(e, g) /\ LinesOf(e, l, r)
        BY <2>3, <3>7, <3>9, <3>10, <3>11, DeleteIfUnusedFacts
    <3> QED  BY <3>1, <3>8, <3>12, SettlesTwice
  <2> QED  BY <2>1, <2>2, <2>3
<1> QED  BY <1>1, <1>2

-----------------------------------------------------------------------------
(* What the right command makes of its input, byte by byte.                 *)

Newlines(s) == Cardinality({i \in DOMAIN s : s[i] = NEW_LINE_CHAR})

\* wc counts one more newline at each newline.
LEMMA NewlinesAppend ==
    /\ Newlines(<<>>) = 0
    /\ \A s \in Seq(Byte) : Newlines(s) \in Nat
    /\ \A s \in Seq(Byte), c \in Byte :
          Newlines(Append(s, c)) = IF c = NEW_LINE_CHAR THEN Newlines(s) + 1 ELSE Newlines(s)
<1> DEFINE At(s) == {i \in DOMAIN s : s[i] = NEW_LINE_CHAR}
<1>1. Newlines(<<>>) = 0
  <2>1. At(<<>>) = {}
      OBVIOUS
  <2> QED  BY <2>1, FS_EmptySet DEF Newlines
<1>2. ASSUME NEW s \in Seq(Byte) PROVE IsFiniteSet(At(s)) /\ Newlines(s) \in Nat
  <2>1. IsFiniteSet(1..Len(s))
      BY FS_Interval
  <2>2. At(s) \in SUBSET (1..Len(s))
      OBVIOUS
  <2>3. IsFiniteSet(At(s))
      BY <2>1, <2>2, FS_Subset
  <2> HIDE DEF At
  <2>4. Cardinality(At(s)) \in Nat
      BY <2>3, FS_CardinalityType
  <2> QED  BY <2>3, <2>4 DEF Newlines, At
<1>3. ASSUME NEW s \in Seq(Byte), NEW c \in Byte
      PROVE  Newlines(Append(s, c)) = IF c = NEW_LINE_CHAR THEN Newlines(s) + 1 ELSE Newlines(s)
  <2> DEFINE n == Len(s) + 1
             t == Append(s, c)
  <2>1. n \in Nat /\ DOMAIN s = 1..Len(s) /\ DOMAIN t = 1..n /\ t[n] = c /\ \A i \in 1..Len(s) : t[i] = s[i]
      OBVIOUS
  <2>2. n \notin At(s)
      BY <2>1
  <2>3. CASE c = NEW_LINE_CHAR
    <3>1. At(t) = At(s) \cup {n}
        BY <2>1, <2>3
    <3> HIDE DEF At, n, t
    <3>2. Cardinality(At(s) \cup {n}) = Cardinality(At(s)) + 1
        BY <1>2, <2>2, FS_AddElement
    <3> QED  BY <2>3, <3>1, <3>2 DEF Newlines, At, t
  <2>4. CASE c # NEW_LINE_CHAR
    <3>1. At(t) = At(s)
        BY <2>1, <2>4
    <3> QED  BY <2>4, <3>1 DEF Newlines
  <2> QED  BY <2>3, <2>4
<1> QED  BY <1>1, <1>2, <1>3

\* filter's output, prefix by prefix.
Keeps(f, s) ==
    /\ f \in [0..Len(s) -> Seq(Byte)] /\ f[0] = <<>>
    /\ \A i \in 1..Len(s) : f[i] = IF IS_VOWEL(s[i]) THEN f[i - 1] ELSE Append(f[i - 1], s[i])
LEMMA KeepsExists ==
    ASSUME NEW s \in Seq(Byte)
    PROVE  \E f : Keeps(f, s) /\ WithoutVowels(s) = f[Len(s)]
<1> DEFINE L == Len(s)
           S == Seq(Byte)
           F == [i \in 1..L |-> [t \in S |-> IF IS_VOWEL(s[i]) THEN t ELSE Append(t, s[i])]]
           Is(f) == f = [i \in 0..L |-> IF i = 0 THEN <<>>
                                        ELSE IF IS_VOWEL(s[i]) THEN f[i - 1]
                                        ELSE Append(f[i - 1], s[i])]
           Kept == CHOOSE f : Is(f)
<1>1. L \in Nat /\ \A i \in 1..L : s[i] \in Byte
    OBVIOUS
<1>2. <<>> \in S /\ F \in Steps(L, S)
  <2>1. \A i \in 1..L, t \in S : Append(t, s[i]) \in S
      BY <1>1
  <2> HIDE DEF S, L
  <2> QED  BY <2>1 DEF Steps, S
<1>3. PICK g \in [0..L -> S] : Iterates(g, L, <<>>, F)
  <2> HIDE DEF F, S, L
  <2> QED  BY <1>1, <1>2, Recursion
<1>4. ASSUME NEW i \in 1..L PROVE g[i] = IF IS_VOWEL(s[i]) THEN g[i - 1] ELSE Append(g[i - 1], s[i])
  <2> HIDE DEF S, L
  <2>1. i - 1 \in 0..L /\ g[i - 1] \in S
      BY <1>1, <1>3
  <2> QED  BY <1>3, <2>1 DEF Iterates
<1>5. g[0] = <<>>
    BY <1>3 DEF Iterates
<1>6. Is(g)
  <2> HIDE DEF S, L
  <2>1. ASSUME NEW i \in 0..L
        PROVE  g[i] = IF i = 0 THEN <<>> ELSE IF IS_VOWEL(s[i]) THEN g[i - 1] ELSE Append(g[i - 1], s[i])
    <3>1. CASE i = 0
        BY <1>5, <3>1
    <3>2. CASE i # 0
      <4>1. i \in 1..L
          BY <1>1, <3>2
      <4> QED  BY <1>4, <3>2, <4>1
    <3> QED  BY <3>1, <3>2
  <2>2. g = [i \in 0..L |-> g[i]]
      BY <1>3
  <2> HIDE DEF Is
  <2>3. [i \in 0..L |-> g[i]] = [i \in 0..L |-> IF i = 0 THEN <<>> ELSE IF IS_VOWEL(s[i]) THEN g[i - 1]
                                                ELSE Append(g[i - 1], s[i])]
      BY <2>1
  <2> QED  BY <2>2, <2>3 DEF Is
<1>7. Is(Kept)
  <2> HIDE DEF Is
  <2> QED  BY <1>6
<1>8. WithoutVowels(s) = Kept[L]
    BY DEF WithoutVowels
<1> HIDE DEF Kept
<1>9. Kept[0] = <<>> /\ DOMAIN Kept = 0..L
    BY <1>1, <1>7
<1>10. \A i \in 1..L : Kept[i] = IF IS_VOWEL(s[i]) THEN Kept[i - 1] ELSE Append(Kept[i - 1], s[i])
  <2> HIDE DEF L
  <2>1. \A i \in 1..L : i \in 0..L /\ i # 0
      BY <1>1
  <2> QED  BY <1>7, <2>1
<1>11. Kept = [i \in 0..L |-> Kept[i]]
  <2> HIDE DEF L
  <2> QED  BY <1>7
<1>12. \A i \in 0..L : Kept[i] \in S
  <2> DEFINE Typed == {i \in Nat : i \in 0..L => Kept[i] \in S}
  <2>1. 0 \in Typed
      BY <1>2, <1>9
  <2>2. ASSUME NEW i \in Nat, i \in Typed PROVE i + 1 \in Typed
    <3>1. CASE i + 1 \in 1..L
      <4>1. i \in 0..L /\ i + 1 - 1 = i /\ s[i + 1] \in Byte /\ i + 1 \in Nat
          BY <1>1, <3>1
      <4>2. Kept[i] \in S
          BY <2>2, <4>1
      <4>3. Kept[i + 1] = IF IS_VOWEL(s[i + 1]) THEN Kept[i] ELSE Append(Kept[i], s[i + 1])
          BY <1>10, <3>1, <4>1
      <4>4. Append(Kept[i], s[i + 1]) \in S
          BY <4>1, <4>2
      <4>5. Kept[i + 1] \in S
        <5> HIDE DEF S
        <5> QED  BY <4>2, <4>3, <4>4
      <4> HIDE DEF S, L
      <4> QED  BY <4>1, <4>5
    <3>2. CASE i + 1 \notin 1..L
        BY <1>1, <3>2
    <3> QED  BY <3>1, <3>2
  <2> HIDE DEF Typed
  <2>3. Nat \subseteq Typed
      BY <2>1, <2>2, SetInduction
  <2> QED  BY <1>1, <2>3 DEF Typed
<1>13. Kept \in [0..L -> S]
  <2> HIDE DEF L, S
  <2> QED  BY <1>11, <1>12
<1> QED  BY <1>8, <1>9, <1>10, <1>13 DEF Keeps

\* filter keeps a byte unless it is a vowel.
LEMMA VowelsAppend ==
    /\ WithoutVowels(<<>>) = <<>>
    /\ \A s \in Seq(Byte), c \in Byte :
          WithoutVowels(Append(s, c)) =
             IF IS_VOWEL(c) THEN WithoutVowels(s) ELSE Append(WithoutVowels(s), c)
<1>1. WithoutVowels(<<>>) = <<>>
  <2>1. <<>> \in Seq(Byte) /\ Len(<<>>) = 0
      OBVIOUS
  <2>2. PICK f : Keeps(f, <<>>) /\ WithoutVowels(<<>>) = f[Len(<<>>)]
      BY <2>1, KeepsExists
  <2> QED  BY <2>1, <2>2 DEF Keeps
<1>2. ASSUME NEW s \in Seq(Byte), NEW c \in Byte
      PROVE  WithoutVowels(Append(s, c)) =
                IF IS_VOWEL(c) THEN WithoutVowels(s) ELSE Append(WithoutVowels(s), c)
  <2>0. PICK t \in Seq(Byte) : t = Append(s, c)
    <3>1. Append(s, c) \in Seq(Byte)
        OBVIOUS
    <3> QED  BY <3>1
  <2>1. PICK f : Keeps(f, s) /\ WithoutVowels(s) = f[Len(s)]
      BY KeepsExists
  <2>2. PICK g : Keeps(g, t) /\ WithoutVowels(t) = g[Len(t)]
      BY KeepsExists
  <2>3. PICK n \in Nat : n = Len(s)
      OBVIOUS
  <2>4. Len(t) = n + 1 /\ t[n + 1] = c /\ \A i \in 1..n : t[i] = s[i]
      BY <2>0, <2>3
  <2> DEFINE Agree == {i \in Nat : i \in 0..n => f[i] = g[i]}
  <2>5. 0 \in Agree
      BY <2>1, <2>2 DEF Keeps
  <2>6. ASSUME NEW i \in Nat, i \in Agree PROVE i + 1 \in Agree
    <3>1. CASE i + 1 \in 1..n
      <4>1. i \in 0..n /\ i + 1 - 1 = i /\ t[i + 1] = s[i + 1] /\ i + 1 \in 1..(n + 1) /\ i + 1 \in Nat
          BY <2>4, <3>1
      <4>2. f[i] = g[i]
          BY <2>6, <4>1
      <4>3. f[i + 1] = IF IS_VOWEL(s[i + 1]) THEN f[i] ELSE Append(f[i], s[i + 1])
          BY <2>1, <2>3, <3>1, <4>1 DEF Keeps
      <4>4. g[i + 1] = IF IS_VOWEL(t[i + 1]) THEN g[i] ELSE Append(g[i], t[i + 1])
          BY <2>2, <2>4, <4>1 DEF Keeps
      <4>5. f[i + 1] = g[i + 1]
          BY <4>1, <4>2, <4>3, <4>4
      <4> QED  BY <4>1, <4>5
    <3>2. CASE i + 1 \notin 1..n
        BY <3>2
    <3> QED  BY <3>1, <3>2
  <2> HIDE DEF Agree
  <2>7. Nat \subseteq Agree
      BY <2>5, <2>6, SetInduction
  <2>8. f[n] = g[n]
      BY <2>7 DEF Agree
  <2>9. g[n + 1] = IF IS_VOWEL(c) THEN g[n] ELSE Append(g[n], c)
    <3>1. n + 1 \in 1..Len(t) /\ n + 1 - 1 = n
        BY <2>4
    <3> QED  BY <2>2, <2>4, <3>1 DEF Keeps
  <2> QED  BY <2>0, <2>1, <2>2, <2>3, <2>4, <2>8, <2>9
<1> QED  BY <1>1, <1>2

-----------------------------------------------------------------------------
(* The keyboard's interrupt.                                                *)

\* What a key press leaves of the rest: it touches the keyboard's semaphore
\* only, and wakes nobody but its reader.
Beside(r, k, l) ==
    /\ r \in Kernels /\ r.pipes = k.pipes
    /\ \A m \in Name \ {buffer_sem} : r.sems[m] = k.sems[m]
    /\ r.asleep \subseteq k.asleep /\ ("R" \in k.asleep => "R" \in r.asleep)
    /\ l # "loop" /\ "L" \in k.asleep => "L" \in r.asleep

LEMMA BesideTwice ==
    ASSUME NEW k, NEW h, NEW r, NEW l, Beside(h, k, l), Beside(r, h, l)
    PROVE  Beside(r, k, l)
BY DEF Beside

KbSet(k, q) == [k EXCEPT !.kb = q]
LEMMA KbUpdate ==
    ASSUME NEW k \in Kernels, NEW q \in KbRecord, NEW l, NEW r, LinesOf(k, l, r)
    PROVE  Beside(KbSet(k, q), k, l) /\ LinesOf(KbSet(k, q), l, r) /\ KbSet(k, q).kb = q
<1>1. PICK h : h = KbSet(k, q)
    OBVIOUS
<1>2. h \in Kernels /\ h.pipes = k.pipes /\ h.sems = k.sems /\ h.asleep = k.asleep /\ h.kb = q
    BY <1>1 DEF Kernels, KbSet
<1>3. Beside(h, k, l)
    BY <1>2 DEF Beside
<1>4. LinesOf(h, l, r)
    BY <1>2, LinesSame DEF LineOf
<1> QED  BY <1>1, <1>2, <1>3, <1>4

LEMMA KbIs ==
    ASSUME NEW k \in Kernels
    PROVE  /\ k.kb \in KbRecord /\ k.kb.buffer \in [Place -> Byte]
           /\ k.kb.to_write \in Place /\ k.kb.to_read \in Place
           /\ BUFFER_SIZE \in Nat \ {0} /\ BUFFER_SIZE > 1
BY KeyboardAssumption DEF Kernels, KbRecord

\* The reader of the keyboard is woken at most.
LEMMA BufferPost ==
    ASSUME NEW k \in Kernels, NEW l, NEW r, LinesOf(k, l, r)
    PROVE  /\ Beside(semPost(k, buffer_sem), k, l) /\ semPost(k, buffer_sem).kb = k.kb
           /\ LinesOf(semPost(k, buffer_sem), l, r)
<1>1. PICK h : h = semPost(k, buffer_sem)
    OBVIOUS
<1>2. buffer_sem \in Name
    BY Names
<1>3. h \in Kernels /\ h.pipes = k.pipes /\ h.kb = k.kb /\ \A m \in Name \ {buffer_sem} : h.sems[m] = k.sems[m]
    BY <1>1, <1>2, PostKeeps
<1>4. \/ h.asleep = k.asleep
      \/ LineOf(k, buffer_sem) # <<>> /\ h.asleep = k.asleep \ {Head(LineOf(k, buffer_sem))}
    BY <1>1, <1>2, PostFacts
<1>5. LineOf(k, buffer_sem) # <<>> => Head(LineOf(k, buffer_sem)) = "L" /\ l = "loop"
    BY Singles DEF LinesOf, InLine
<1>6. h.asleep = k.asleep \/ (l = "loop" /\ h.asleep = k.asleep \ {"L"})
    BY <1>4, <1>5
<1>7. Beside(h, k, l)
    BY <1>3, <1>6 DEF Beside
<1>8. LinesOf(h, l, r)
    BY <1>1, LinesPost
<1> QED  BY <1>1, <1>3, <1>7, <1>8

\* A character goes into the ring at to_write.
LEMMA AddFacts ==
    ASSUME NEW k \in Kernels, NEW l, NEW r, LinesOf(k, l, r), NEW c \in Byte
    PROVE  /\ Beside(addCharToBuffer(k, c), k, l) /\ LinesOf(addCharToBuffer(k, c), l, r)
           /\ addCharToBuffer(k, c).kb \in KbRecord
           /\ addCharToBuffer(k, c).kb.buffer = [k.kb.buffer EXCEPT ![k.kb.to_write] = c]
           /\ addCharToBuffer(k, c).kb.to_write = (k.kb.to_write + 1) % BUFFER_SIZE
           /\ addCharToBuffer(k, c).kb.to_read = k.kb.to_read
<1>1. PICK q \in KbRecord : q = k.kb
    BY KbIs
<1>2. PICK w \in Place : w = (q.to_write + 1) % BUFFER_SIZE
  <2>1. q.to_write \in Place /\ BUFFER_SIZE \in Nat \ {0}
      BY KbIs DEF KbRecord
  <2>2. (q.to_write + 1) % BUFFER_SIZE \in Place
      BY <2>1 DEF Place
  <2> QED  BY <2>2
<1>3. PICK b \in [Place -> Byte] : b = [q.buffer EXCEPT ![q.to_write] = c]
    BY DEF KbRecord
<1>4. PICK q1 : q1 = [q EXCEPT !.buffer = b]
    OBVIOUS
<1>5. PICK q2 : q2 = [q1 EXCEPT !.to_write = w]
    OBVIOUS
<1>6. q2 \in KbRecord /\ q2.buffer = b /\ q2.to_write = w /\ q2.to_read = q.to_read
    BY <1>4, <1>5 DEF KbRecord
<1>7. PICK h : h = KbSet(k, q2)
    OBVIOUS
<1>8. [k EXCEPT !.kb.buffer[k.kb.to_write] = c, !.kb.to_write = INC_MOD(@, BUFFER_SIZE)] = h
  <2>1. PICK h1 : h1 = KbSet(k, q1)
      OBVIOUS
  <2>2. h1.kb = q1 /\ KbSet(h1, q2) = h
      BY <1>7, <2>1 DEF KbSet, Kernels
  <2>3. h1 = [k EXCEPT !.kb.buffer[k.kb.to_write] = c]
      BY <1>1, <1>3, <1>4, <2>1 DEF KbSet
  <2>4. KbSet(h1, q2) = [h1 EXCEPT !.kb.to_write = w]
      BY <1>5, <2>2 DEF KbSet
  <2>5. w = INC_MOD(k.kb.to_write, BUFFER_SIZE)
      BY <1>1, <1>2 DEF INC_MOD
  <2> QED  BY <2>2, <2>3, <2>4, <2>5
<1>9. Beside(h, k, l)
    BY <1>6, <1>7, KbUpdate
<1>10. LinesOf(h, l, r)
    BY <1>6, <1>7, KbUpdate
<1>11. h.kb = q2
    BY <1>6, <1>7, KbUpdate
<1>12. CASE k.kb.reading
  <2>1. addCharToBuffer(k, c) = semPost(h, buffer_sem)
      BY <1>8, <1>12 DEF addCharToBuffer
  <2>2. h \in Kernels
      BY <1>9 DEF Beside
  <2>3. Beside(semPost(h, buffer_sem), h, l)
      BY <1>10, <2>2, BufferPost
  <2>4. semPost(h, buffer_sem).kb = h.kb
      BY <1>10, <2>2, BufferPost
  <2>5. LinesOf(semPost(h, buffer_sem), l, r)
      BY <1>10, <2>2, BufferPost
  <2>6. Beside(semPost(h, buffer_sem), k, l)
      BY <1>9, <2>3, BesideTwice
  <2> QED  BY <1>1, <1>2, <1>3, <1>6, <1>11, <2>1, <2>4, <2>5, <2>6
<1>13. CASE ~k.kb.reading
  <2>1. addCharToBuffer(k, c) = h
      BY <1>8, <1>13 DEF addCharToBuffer
  <2> QED  BY <1>1, <1>2, <1>3, <1>6, <1>9, <1>10, <1>11, <2>1
<1> QED  BY <1>12, <1>13

\* The ring of the keyboard, and its length.
Held(q) == Ring(q.buffer, q.to_read, q.to_write, BUFFER_SIZE)
Length(q) == RingLen(q.to_read, q.to_write, BUFFER_SIZE)
LEMMA HeldIs ==
    ASSUME NEW q \in KbRecord
    PROVE  /\ Pending(q) = Held(q) /\ Held(q) \in Seq(Byte) /\ Len(Held(q)) = Length(q)
           /\ Length(q) \in 0..(BUFFER_SIZE - 1)
           /\ BufferEmpty(q) <=> Length(q) = 0
<1>1. q.buffer \in [Place -> Byte] /\ q.to_write \in Place /\ q.to_read \in Place
    BY DEF KbRecord
<1>2. BUFFER_SIZE \in Nat \ {0}
    BY KeyboardAssumption
<1>3. Pending(q) = Held(q)
    BY DEF Pending, Held, Ring
<1>4. Held(q) \in Seq(Byte) /\ Len(Held(q)) = Length(q) /\ Length(q) \in 0..(BUFFER_SIZE - 1)
    BY <1>1, <1>2, RingIs DEF Held, Length, Place
<1>5. BufferEmpty(q) <=> Length(q) = 0
    BY <1>1, <1>2 DEF BufferEmpty, Length, RingLen, Place
<1> QED  BY <1>3, <1>4, <1>5

\* One more character: the ring is longer by it, or has lost everything.
LEMMA HeldAdd ==
    ASSUME NEW q \in KbRecord, NEW t \in KbRecord, NEW c \in Byte,
           t.buffer = [q.buffer EXCEPT ![q.to_write] = c], t.to_read = q.to_read,
           t.to_write = (q.to_write + 1) % BUFFER_SIZE
    PROVE  /\ t.to_write # q.to_write
           /\ Length(t) = IF Length(q) = BUFFER_SIZE - 1 THEN 0 ELSE Length(q) + 1
           /\ Length(q) # BUFFER_SIZE - 1 => Held(t) = Append(Held(q), c)
<1>1. q.buffer \in [Place -> Byte] /\ q.to_write \in Place /\ q.to_read \in Place
    BY DEF KbRecord
<1>2. BUFFER_SIZE \in Nat \ {0} /\ BUFFER_SIZE > 1
    BY KeyboardAssumption
<1>3. PICK B \in Nat \ {0} : B = BUFFER_SIZE
    BY <1>2
<1>4. PICK w \in 0..(B - 1) : w = q.to_write
    BY <1>1, <1>3 DEF Place
<1>5. PICK r \in 0..(B - 1) : r = q.to_read
    BY <1>1, <1>3 DEF Place
<1>6. PICK v : v = (w + 1) % B
    OBVIOUS
<1>7. v = IF w = B - 1 THEN 0 ELSE w + 1
    BY <1>6, RingLength
<1>8. v # w /\ RingLen(r, v, B) = IF RingLen(r, w, B) = B - 1 THEN 0 ELSE RingLen(r, w, B) + 1
    BY <1>2, <1>3, <1>7 DEF RingLen
<1>9. Length(q) = RingLen(r, w, B) /\ Length(t) = RingLen(r, v, B)
    BY <1>3, <1>4, <1>5, <1>6 DEF Length
<1>10. ASSUME Length(q) # B - 1 PROVE Held(t) = Append(Held(q), c)
  <2>1. v # r /\ v \in 0..(B - 1)
      BY <1>7, <1>9, <1>10 DEF RingLen
  <2>2. PICK b \in [0..(B - 1) -> Byte] : b = q.buffer
      BY <1>1, <1>3 DEF Place
  <2>3. PICK d \in [0..(B - 1) -> Byte] : d = [b EXCEPT ![w] = c]
      BY <2>2
  <2>4. d[w] = c /\ \A i \in 0..(B - 1) : i # w => d[i] = b[i]
      BY <2>2, <2>3
  <2>5. PutIn(b, r, w, B, c, d, v)
      BY <1>7, <2>1, <2>4 DEF PutIn
  <2>6. Ring(d, r, v, B) = Append(Ring(b, r, w, B), c)
      BY <2>5, RingPut
  <2> QED  BY <1>3, <1>4, <1>5, <1>6, <2>2, <2>3, <2>6 DEF Held
<1> QED  BY <1>3, <1>4, <1>6, <1>8, <1>9, <1>10

\* A tabulator adds m spaces, one at least; a ring too short for them has
\* less in it than before.
Space == " "
Spaces(m) == [i \in 1..m |-> Space]
LEMMA SpaceIs == Space \in Byte
BY DEF Space, Byte

LEMMA SpacesFacts ==
    /\ Spaces(0) = <<>>
    /\ \A m \in Nat : Spaces(m) \in Seq(Byte) /\ Append(Spaces(m), Space) = Spaces(m + 1)
    /\ \A m \in Nat : \A s \in Seq(Byte) : s \o Spaces(m + 1) = Append(s \o Spaces(m), Space)
    /\ \A s \in Seq(Byte) : s \o Spaces(0) = s
<1>1. Spaces(0) = <<>>
    BY DEF Spaces
<1>2. PICK c \in Byte : c = Space
    BY SpaceIs
<1>3. ASSUME NEW m \in Nat PROVE Spaces(m) \in Seq(Byte) /\ Len(Spaces(m)) = m
    BY <1>2 DEF Spaces
<1>4. ASSUME NEW m \in Nat PROVE Append(Spaces(m), Space) = Spaces(m + 1)
  <2>1. m + 1 \in Nat
      OBVIOUS
  <2>2. PICK s \in Seq(Byte) : s = Spaces(m) /\ Len(s) = m
      BY <1>3
  <2>3. PICK t \in Seq(Byte) : t = Spaces(m + 1) /\ Len(t) = m + 1
      BY <1>3, <2>1
  <2>4. Append(s, c) \in Seq(Byte) /\ Len(Append(s, c)) = m + 1
        /\ (\A i \in 1..m : Append(s, c)[i] = s[i]) /\ Append(s, c)[m + 1] = c
      BY <2>2
  <2>5. \A i \in 1..(m + 1) : t[i] = c
      BY <1>2, <2>3 DEF Spaces
  <2>6. \A i \in 1..m : s[i] = c
      BY <1>2, <2>2 DEF Spaces
  <2>7. \A i \in 1..(m + 1) : Append(s, c)[i] = t[i]
      BY <2>4, <2>5, <2>6
  <2>8. Append(s, c) = t
      BY <2>3, <2>4, <2>7, SameSequence
  <2> QED  BY <1>2, <2>2, <2>3, <2>8
<1>5. ASSUME NEW m \in Nat, NEW s \in Seq(Byte)
      PROVE  s \o Spaces(m + 1) = Append(s \o Spaces(m), Space)
  <2>1. PICK t \in Seq(Byte) : t = Spaces(m)
      BY <1>3
  <2>2. s \o Append(t, c) = Append(s \o t, c)
      OBVIOUS
  <2> QED  BY <1>2, <1>4, <2>1, <2>2
<1>6. \A s \in Seq(Byte) : s \o <<>> = s
    OBVIOUS
<1> QED  BY <1>1, <1>3, <1>4, <1>5, <1>6

\* The ring t after m spaces more than q.
Spaced(t, q, m) ==
    /\ t \in KbRecord
    /\ Length(t) = IF Length(q) + m < BUFFER_SIZE THEN Length(q) + m ELSE Length(q) + m - BUFFER_SIZE
    /\ t.to_read = q.to_read
    /\ Length(q) + m < BUFFER_SIZE => Held(t) = Held(q) \o Spaces(m)

LEMMA SpacedAdd ==
    ASSUME NEW q \in KbRecord, NEW h, NEW t \in KbRecord, NEW m \in Nat, Spaced(h, q, m), m + 1 < BUFFER_SIZE,
           t.buffer = [h.buffer EXCEPT ![h.to_write] = Space], t.to_read = h.to_read,
           t.to_write = (h.to_write + 1) % BUFFER_SIZE
    PROVE  Spaced(t, q, m + 1)
<1>1. PICK c \in Byte : c = Space
    BY SpaceIs
<1>2. PICK B \in Nat \ {0} : B = BUFFER_SIZE
  <2>1. BUFFER_SIZE \in Nat \ {0}
      BY KeyboardAssumption
  <2> QED  BY <2>1
<1>3. PICK a \in 0..(B - 1) : a = Length(q)
    BY <1>2, HeldIs
<1>4. PICK b \in 0..(B - 1) : b = Length(h)
    BY <1>2, HeldIs DEF Spaced
<1>5. h \in KbRecord /\ b = (IF a + m < B THEN a + m ELSE a + m - B)
    BY <1>2, <1>3, <1>4 DEF Spaced
<1>6. Length(t) = IF b = B - 1 THEN 0 ELSE b + 1
    BY <1>1, <1>2, <1>4, <1>5, HeldAdd
<1>7. b # B - 1 => Held(t) = Append(Held(h), c)
    BY <1>1, <1>2, <1>4, <1>5, HeldAdd
<1>8. Length(t) = IF a + (m + 1) < B THEN a + (m + 1) ELSE a + (m + 1) - B
    BY <1>2, <1>5, <1>6
<1>9. ASSUME a + (m + 1) < B PROVE Held(t) = Held(q) \o Spaces(m + 1)
  <2>1. a + m < B /\ b # B - 1
      BY <1>5, <1>9
  <2>2. Held(h) = Held(q) \o Spaces(m)
      BY <1>2, <1>3, <2>1 DEF Spaced
  <2>3. Held(q) \in Seq(Byte)
      BY HeldIs
  <2> QED  BY <1>1, <1>7, <2>1, <2>2, <2>3, SpacesFacts
<1> QED  BY <1>2, <1>3, <1>8, <1>9 DEF Spaced

LEMMA AddSpacesFacts ==
    ASSUME NEW k \in Kernels, NEW l, NEW r, LinesOf(k, l, r), NEW n \in 1..TAB_SIZE
    PROVE  /\ Beside(AddSpaces(k, n), k, l) /\ LinesOf(AddSpaces(k, n), l, r)
           /\ \E m \in 1..n : Spaced(AddSpaces(k, n).kb, k.kb, m)
<1>1. PICK c \in Byte : c = Space
    BY SpaceIs
<1>2. n \in Nat \ {0} /\ n < BUFFER_SIZE /\ BUFFER_SIZE \in Nat
    BY KeyboardAssumption
<1> DEFINE S == {h \in Kernels : LinesOf(h, l, r)}
           F == [i \in 1..n |-> [h \in S |-> IF i > 1 /\ BUFFER_IS_FULL(h.kb) THEN h
                                             ELSE addCharToBuffer(h, Space)]]
           Is(f) == f = [i \in 0..n |-> IF i = 0 THEN k
                                        ELSE IF i > 1 /\ BUFFER_IS_FULL(f[i - 1].kb) THEN f[i - 1]
                                        ELSE addCharToBuffer(f[i - 1], Space)]
           Added == CHOOSE f : Is(f)
<1>3. k \in S
    OBVIOUS
<1>4. ASSUME NEW h \in S PROVE addCharToBuffer(h, Space) \in S
  <2>1. Beside(addCharToBuffer(h, c), h, l)
      BY AddFacts
  <2>2. LinesOf(addCharToBuffer(h, c), l, r)
      BY AddFacts
  <2> QED  BY <1>1, <2>1, <2>2 DEF Beside
<1>5. F \in Steps(n, S)
  <2> HIDE DEF S
  <2> QED  BY <1>4 DEF Steps
<1>6. PICK g \in [0..n -> S] : Iterates(g, n, k, F)
  <2> HIDE DEF S, F
  <2> QED  BY <1>2, <1>3, <1>5, Recursion
<1>7. ASSUME NEW i \in 1..n
      PROVE  g[i] = IF i > 1 /\ BUFFER_IS_FULL(g[i - 1].kb) THEN g[i - 1] ELSE addCharToBuffer(g[i - 1], Space)
  <2> HIDE DEF S
  <2>1. i - 1 \in 0..n /\ g[i - 1] \in S
      BY <1>2, <1>6
  <2> QED  BY <1>6, <2>1 DEF Iterates
<1>8. g[0] = k
    BY <1>6 DEF Iterates
<1>9. Is(g)
  <2> HIDE DEF S
  <2>1. ASSUME NEW i \in 0..n
        PROVE  g[i] = IF i = 0 THEN k ELSE IF i > 1 /\ BUFFER_IS_FULL(g[i - 1].kb) THEN g[i - 1]
                      ELSE addCharToBuffer(g[i - 1], Space)
    <3>1. CASE i = 0
        BY <1>8, <3>1
    <3>2. CASE i # 0
      <4>1. i \in 1..n
          BY <1>2, <3>2
      <4> QED  BY <1>7, <3>2, <4>1
    <3> QED  BY <3>1, <3>2
  <2>2. g = [i \in 0..n |-> g[i]]
      BY <1>6
  <2> HIDE DEF Is
  <2>3. [i \in 0..n |-> g[i]] = [i \in 0..n |-> IF i = 0 THEN k
                                  ELSE IF i > 1 /\ BUFFER_IS_FULL(g[i - 1].kb) THEN g[i - 1]
                                  ELSE addCharToBuffer(g[i - 1], Space)]
      BY <2>1
  <2> QED  BY <2>2, <2>3 DEF Is
<1>10. Is(Added)
  <2> HIDE DEF Is
  <2> QED  BY <1>9
<1>11. AddSpaces(k, n) = Added[n]
    BY DEF AddSpaces, Space
<1> HIDE DEF Added
<1>12. Added[0] = k
    BY <1>2, <1>10
<1>13. ASSUME NEW i \in 1..n
       PROVE  Added[i] = IF i > 1 /\ BUFFER_IS_FULL(Added[i - 1].kb) THEN Added[i - 1]
                         ELSE addCharToBuffer(Added[i - 1], Space)
  <2>1. i \in 0..n /\ i # 0
      BY <1>2
  <2> QED  BY <1>10, <2>1
<1> DEFINE Holds(i) == /\ Added[i] \in S /\ Beside(Added[i], k, l)
                       /\ \E m \in 0..i : (i > 0 => m > 0) /\ Spaced(Added[i].kb, k.kb, m)
           Held2 == {i \in Nat : i \in 0..n => Holds(i)}
<1>14. 0 \in Held2
  <2>1. Beside(k, k, l)
      BY DEF Beside
  <2>2. Spaced(k.kb, k.kb, 0)
    <3>1. k.kb \in KbRecord
        BY KbIs
    <3>2. Held(k.kb) \in Seq(Byte) /\ Length(k.kb) \in 0..(BUFFER_SIZE - 1)
        BY <3>1, HeldIs
    <3>3. Held(k.kb) \o Spaces(0) = Held(k.kb)
        BY <3>2, SpacesFacts
    <3> QED  BY <1>2, <3>1, <3>2, <3>3 DEF Spaced
  <2>3. Holds(0)
    <3> HIDE DEF S
    <3> QED  BY <1>3, <1>12, <2>1, <2>2
  <2> QED  BY <2>3
<1>15. ASSUME NEW i \in Nat, i \in Held2 PROVE i + 1 \in Held2
  <2>1. CASE i + 1 \in 1..n
    <3>1. i \in 0..n /\ i + 1 - 1 = i /\ i + 1 \in Nat
        BY <2>1
    <3>2. Holds(i)
        BY <1>15, <3>1
    <3>3. PICK h : h = Added[i]
        OBVIOUS
    <3>4. PICK m \in 0..i : (i > 0 => m > 0) /\ Spaced(h.kb, k.kb, m)
        BY <3>2, <3>3
    <3>5. h \in Kernels /\ LinesOf(h, l, r)
        BY <3>2, <3>3
    <3>6. Beside(h, k, l)
        BY <3>2, <3>3
    <3>7. Added[i + 1] = IF i + 1 > 1 /\ BUFFER_IS_FULL(h.kb) THEN h ELSE addCharToBuffer(h, Space)
        BY <1>13, <2>1, <3>1, <3>3
    <3>8. CASE i + 1 > 1 /\ BUFFER_IS_FULL(h.kb)
      <4>1. Added[i + 1] = h /\ m > 0 /\ m \in 0..(i + 1)
          BY <3>1, <3>4, <3>7, <3>8
      <4>2. Holds(i + 1)
          BY <3>4, <3>5, <3>6, <4>1
      <4> QED  BY <3>1, <4>2
    <3>9. CASE ~(i + 1 > 1 /\ BUFFER_IS_FULL(h.kb))
      <4>1. PICK t : t = addCharToBuffer(h, c)
          OBVIOUS
      <4>2. Added[i + 1] = t
          BY <1>1, <3>7, <3>9, <4>1
      <4>3. LinesOf(t, l, r) /\ t.kb \in KbRecord
          BY <3>5, <4>1, AddFacts
      <4>4. Beside(t, h, l)
          BY <3>5, <4>1, AddFacts
      <4>5. Beside(t, k, l)
          BY <3>6, <4>4, BesideTwice
      <4>6. t \in Kernels
          BY <4>5 DEF Beside
      <4>7. /\ t.kb.buffer = [h.kb.buffer EXCEPT ![h.kb.to_write] = Space]
            /\ t.kb.to_write = (h.kb.to_write + 1) % BUFFER_SIZE
            /\ t.kb.to_read = h.kb.to_read
          BY <1>1, <3>5, <4>1, AddFacts
      <4>8. Spaced(t.kb, k.kb, m + 1)
        <5>1. k.kb \in KbRecord /\ m \in Nat /\ m + 1 < BUFFER_SIZE
            BY <1>2, <2>1, KbIs
        <5> QED  BY <3>4, <4>3, <4>7, <5>1, SpacedAdd
      <4>9. m + 1 \in 0..(i + 1) /\ m + 1 > 0
          OBVIOUS
      <4>10. Holds(i + 1)
          BY <4>2, <4>3, <4>5, <4>6, <4>8, <4>9
      <4> QED  BY <3>1, <4>10
    <3> QED  BY <3>8, <3>9
  <2>2. CASE i + 1 \notin 1..n
      BY <1>2, <2>2
  <2> QED  BY <2>1, <2>2
<1>16. Nat \subseteq Held2
  <2> HIDE DEF Held2
  <2> QED  BY <1>14, <1>15, SetInduction
<1>17. Holds(n)
  <2> HIDE DEF Holds
  <2> QED  BY <1>2, <1>16
<1>18. PICK m \in 0..n : m > 0 /\ Spaced(Added[n].kb, k.kb, m)
    BY <1>2, <1>17
<1>19. m \in 1..n
    BY <1>2, <1>18
<1> QED  BY <1>11, <1>17, <1>18, <1>19

\* What a key does to a ring q that is not full.
Added(t, q, c) ==
    /\ t \in KbRecord /\ c \in Byte /\ t.to_write # q.to_write
    /\ Length(t) = IF Length(q) = BUFFER_SIZE - 1 THEN 0 ELSE Length(q) + 1
    /\ Length(q) # BUFFER_SIZE - 1 => Held(t) = Append(Held(q), c)
Erased(t, q) ==
    /\ t \in KbRecord /\ t.to_write # q.to_write
    /\ \E c \in Byte : Held(q) = Append(Held(t), c)
KeyDoes(key, t, q) ==
    \/ t = q
    \/ key = BACKSPACE_KEY /\ Erased(t, q)
    \/ key = TABULATOR_KEY /\ \E m \in 1..TAB_SIZE : Spaced(t, q, m)
    \/ key \notin {BACKSPACE_KEY, TABULATOR_KEY} /\ Added(t, q, IF key = CTRL_D THEN EOF ELSE key)

LEMMA Keys == /\ BACKSPACE_KEY # TABULATOR_KEY /\ BACKSPACE_KEY # CTRL_D /\ TABULATOR_KEY # CTRL_D
              /\ EOF \in Byte
BY DEF BACKSPACE_KEY, TABULATOR_KEY, CTRL_D, Byte

LEMMA AddedFacts ==
    ASSUME NEW k \in Kernels, NEW l, NEW r, LinesOf(k, l, r), NEW c \in Byte
    PROVE  Added(addCharToBuffer(k, c).kb, k.kb, c)
<1>1. PICK q \in KbRecord : q = k.kb
    BY KbIs
<1>2. PICK t \in KbRecord : t = addCharToBuffer(k, c).kb
    BY AddFacts
<1>3. t.buffer = [q.buffer EXCEPT ![q.to_write] = c]
    BY <1>1, <1>2, AddFacts
<1>4. t.to_write = (q.to_write + 1) % BUFFER_SIZE
    BY <1>1, <1>2, AddFacts
<1>5. t.to_read = q.to_read
    BY <1>1, <1>2, AddFacts
<1>6. /\ t.to_write # q.to_write
      /\ Length(t) = IF Length(q) = BUFFER_SIZE - 1 THEN 0 ELSE Length(q) + 1
      /\ Length(q) # BUFFER_SIZE - 1 => Held(t) = Append(Held(q), c)
    BY <1>3, <1>4, <1>5, HeldAdd
<1> QED  BY <1>1, <1>2, <1>6 DEF Added

LEMMA EraseFacts ==
    ASSUME NEW k \in Kernels, NEW l, NEW r, LinesOf(k, l, r)
    PROVE  /\ Beside(Erase(k), k, l) /\ LinesOf(Erase(k), l, r)
           /\ Erase(k).kb = k.kb \/ Erased(Erase(k).kb, k.kb)
<1>1. PICK q \in KbRecord : q = k.kb
    BY KbIs
<1>2. CASE BufferEmpty(q)
  <2>1. Erase(k) = k
      BY <1>1, <1>2 DEF Erase
  <2>2. Beside(k, k, l)
      BY DEF Beside
  <2> QED  BY <2>1, <2>2
<1>3. CASE ~BufferEmpty(q)
  <2>0. BUFFER_SIZE \in Nat \ {0} /\ BUFFER_SIZE > 1
      BY KeyboardAssumption
  <2>1. PICK B \in Nat \ {0} : B = BUFFER_SIZE /\ B > 1
      BY <2>0
  <2>2. PICK w \in 0..(B - 1) : w = q.to_write
      BY <2>1 DEF KbRecord, Place
  <2>3. PICK o \in 0..(B - 1) : o = q.to_read
      BY <2>1 DEF KbRecord, Place
  <2>4. PICK b \in [0..(B - 1) -> Byte] : b = q.buffer
      BY <2>1 DEF KbRecord, Place
  <2>5. PICK v \in 0..(B - 1) : v = IF w = 0 THEN B - 1 ELSE w - 1
      OBVIOUS
  <2>6. v # w /\ SUB_MOD(q.to_write, 1, BUFFER_SIZE) = v
      BY <2>1, <2>2, <2>5 DEF SUB_MOD
  <2>7. PICK t : t = [q EXCEPT !.to_write = v]
      OBVIOUS
  <2>8. t \in KbRecord /\ t.to_write = v /\ t.to_read = o /\ t.buffer = b
      BY <2>1, <2>3, <2>4, <2>7 DEF KbRecord, Place
  <2>9. Erase(k) = KbSet(k, t)
      BY <1>1, <1>3, <2>6, <2>7 DEF Erase, KbSet
  <2>10. Beside(Erase(k), k, l)
      BY <2>8, <2>9, KbUpdate
  <2>11. LinesOf(Erase(k), l, r)
      BY <2>8, <2>9, KbUpdate
  <2>12. Erase(k).kb = t
      BY <2>8, <2>9, KbUpdate
  <2>13. o # w
      BY <1>3, <2>2, <2>3 DEF BufferEmpty
  <2>14. Ring(b, o, w, B) = Append(Ring(b, o, v, B), b[v])
      BY <2>5, <2>13, RingErase
  <2>15. Held(q) = Append(Held(t), b[v]) /\ b[v] \in Byte
      BY <2>1, <2>2, <2>3, <2>4, <2>8, <2>14 DEF Held
  <2>16. Erased(t, q)
      BY <2>2, <2>6, <2>8, <2>15 DEF Erased
  <2> QED  BY <1>1, <2>10, <2>11, <2>12, <2>16
<1> QED  BY <1>2, <1>3

LEMMA PressFacts ==
    ASSUME NEW k \in Kernels, NEW l, NEW r, LinesOf(k, l, r), NEW key \in Byte, NEW n \in 1..TAB_SIZE,
           NEW h, h = keyboardHandler(k, key, n)
    PROVE  /\ Beside(h, k, l) /\ LinesOf(h, l, r)
           /\ BUFFER_IS_FULL(k.kb) \/ KeyDoes(key, h.kb, k.kb)
<1>1. CASE h = k
  <2>1. Beside(k, k, l)
      BY DEF Beside
  <2> QED  BY <1>1, <2>1 DEF KeyDoes
<1>2. CASE h = [k EXCEPT !.kb.to_read = 0, !.kb.to_write = 0] /\ BUFFER_IS_FULL(k.kb)
  <2>1. PICK q \in KbRecord : q = k.kb
      BY KbIs
  <2>2. 0 \in Place
      BY KeyboardAssumption DEF Place
  <2>3. PICK q1 : q1 = [q EXCEPT !.to_read = 0]
      OBVIOUS
  <2>4. PICK q2 : q2 = [q1 EXCEPT !.to_write = 0]
      OBVIOUS
  <2>5. q2 \in KbRecord
      BY <2>2, <2>3, <2>4 DEF KbRecord
  <2>6. h = KbSet(k, q2)
    <3>1. PICK h1 : h1 = KbSet(k, q1)
        OBVIOUS
    <3>2. h1.kb = q1 /\ KbSet(h1, q2) = KbSet(k, q2)
        BY <3>1 DEF KbSet, Kernels
    <3>3. h1 = [k EXCEPT !.kb.to_read = 0]
        BY <2>1, <2>3, <3>1 DEF KbSet
    <3>4. KbSet(h1, q2) = [h1 EXCEPT !.kb.to_write = 0]
        BY <2>4, <3>2 DEF KbSet
    <3> QED  BY <1>2, <3>2, <3>3, <3>4
  <2>7. Beside(h, k, l)
      BY <2>5, <2>6, KbUpdate
  <2>8. LinesOf(h, l, r)
      BY <2>5, <2>6, KbUpdate
  <2> QED  BY <1>2, <2>7, <2>8
<1>3. ASSUME NEW c \in Byte, h = addCharToBuffer(k, c)
      PROVE  Beside(h, k, l) /\ LinesOf(h, l, r) /\ Added(h.kb, k.kb, c)
  <2>1. Beside(addCharToBuffer(k, c), k, l)
      BY AddFacts
  <2>2. LinesOf(addCharToBuffer(k, c), l, r)
      BY AddFacts
  <2>3. Added(addCharToBuffer(k, c).kb, k.kb, c)
      BY AddedFacts
  <2> QED  BY <1>3, <2>1, <2>2, <2>3
<1>4. CASE key = BACKSPACE_KEY /\ h = Erase(k)
  <2>1. Beside(h, k, l)
      BY <1>4, EraseFacts
  <2>2. LinesOf(h, l, r)
      BY <1>4, EraseFacts
  <2>3. h.kb = k.kb \/ Erased(h.kb, k.kb)
      BY <1>4, EraseFacts
  <2> QED  BY <1>4, <2>1, <2>2, <2>3 DEF KeyDoes
<1>5. CASE key = TABULATOR_KEY /\ h = AddSpaces(k, n)
  <2>1. Beside(h, k, l)
      BY <1>5, AddSpacesFacts
  <2>2. LinesOf(h, l, r)
      BY <1>5, AddSpacesFacts
  <2>3. PICK m \in 1..n : Spaced(h.kb, k.kb, m)
      BY <1>5, AddSpacesFacts
  <2>4. m \in 1..TAB_SIZE
      BY KeyboardAssumption
  <2> QED  BY <1>5, <2>1, <2>2, <2>3, <2>4 DEF KeyDoes
<1>6. \/ h = k
      \/ h = [k EXCEPT !.kb.to_read = 0, !.kb.to_write = 0] /\ BUFFER_IS_FULL(k.kb)
      \/ key = CTRL_D /\ h = addCharToBuffer(k, EOF)
      \/ key = BACKSPACE_KEY /\ h = Erase(k)
      \/ key = TABULATOR_KEY /\ h = AddSpaces(k, n)
      \/ key \notin {CTRL_D, BACKSPACE_KEY, TABULATOR_KEY} /\ h = addCharToBuffer(k, key)
    BY DEF keyboardHandler
<1>7. CASE key = CTRL_D /\ h = addCharToBuffer(k, EOF)
  <2>1. Beside(h, k, l) /\ LinesOf(h, l, r) /\ Added(h.kb, k.kb, EOF)
      BY <1>3, <1>7, Keys
  <2> QED  BY <1>7, <2>1, Keys DEF KeyDoes
<1>8. CASE key \notin {CTRL_D, BACKSPACE_KEY, TABULATOR_KEY} /\ h = addCharToBuffer(k, key)
  <2>1. Beside(h, k, l) /\ LinesOf(h, l, r) /\ Added(h.kb, k.kb, key)
      BY <1>3, <1>8
  <2> QED  BY <1>8, <2>1 DEF KeyDoes
<1> QED  BY <1>1, <1>2, <1>4, <1>5, <1>6, <1>7, <1>8

-----------------------------------------------------------------------------
(* The inductive invariant.                                                 *)

ThePipe == Kernel.pipes[id]
RingOf(p) == Ring(p.buffer, p.idxToRead, p.idxToWrite, PIPE_BUFFER_SIZE)
Good == ~killed /\ ~stray /\ right # "failed"

Types ==
    /\ Kernel \in Kernels
    /\ left \in {"none", "failed", "gone"} \cup Writing \cup Exiting
    /\ right \in {"none", "failed", "gone"} \cup Reading \cup Exiting
    /\ shell \in {"prompt", "left", "right", "waitL", "inL", "waitR", "inR", "close", "close2"}
    /\ hand \in Byte /\ lines \in Nat
    /\ read \in Seq(Byte) /\ sent \in Seq(Byte) /\ received \in Seq(Byte)

\* The shell creates the pipe, the left command and the right one in this order.
Ordered ==
    /\ nextId = FirstId =>
         shell = "prompt" /\ left = "none" /\ right = "none" /\ sent = <<>> /\ ~ThePipe.open
    /\ shell = "left" => left = "none" /\ right = "none" /\ nextId # FirstId /\ ThePipe.open
    /\ shell = "right" => left # "none" /\ right = "none" /\ nextId # FirstId
    /\ shell \notin {"left", "right"} /\ nextId # FirstId => left # "none" /\ right # "none"

\* The pipe counts the processes at its ends, and lives while there is a writer.
IsOne(b) == IF b THEN 1 ELSE 0
CountsOf(p, l, r) ==
    /\ p.writers = IsOne(l \in Writing \cup {"detach"})
    /\ p.readers = IsOne(r \in Reading \cup {"detach"})
    /\ p.attached = p.readers + p.writers
Counted ==
    /\ ThePipe.open => CountsOf(ThePipe, left, right)
    /\ left \in Writing \cup {"detach"} => ThePipe.open

Opened == OpenedOf(Kernel)
Lines == LinesOf(Kernel, left, right)

\* While the left command writes no token is left over, whoever has asked to be
\* woken is in line, and whoever has been woken finds what it waited for.
Empty(p) == p.idxToRead = p.idxToWrite
Full(p) == p.idxToWrite = PREVIOUS_IDX(p.idxToRead)
WokenOf(k, l, r) ==
    /\ k.sems[canRead(id)].value = 0 /\ k.sems[canWrite(id)].value = 0
    /\ k.pipes[id].waitingToRead => LineOf(k, canRead(id)) = <<"R">>
    /\ k.pipes[id].waitingToWrite => LineOf(k, canWrite(id)) = <<"L">>
    /\ r = "awake" /\ "R" \notin k.asleep => ~Empty(k.pipes[id])
    /\ l = "put" /\ "L" \notin k.asleep => ~Full(k.pipes[id])
Woken == Good /\ left \in Writing \cup {"none"} /\ ThePipe.open => WokenOf(Kernel, left, right)

\* The right command has printed what it has to.
Printing ==
    /\ right = "none" => received = <<>> /\ lines = 0 /\ screen = <<>>
    /\ right \in Reading => lines = Newlines(received)
    /\ right \in Reading /\ line.right = "filter" => screen = WithoutVowels(received)
AllRead == received = sent /\ (line.right = "filter" => screen = Append(WithoutVowels(sent), NEW_LINE_CHAR))
Ended == Good /\ right \in Exiting \cup {"gone"} => AllRead /\ left \notin Writing

\* No byte is lost, doubled or out of order.
Delivered == Good /\ ThePipe.open => sent = received \o RingOf(ThePipe)
Typed == /\ ~broken => typed = read \o Held(Kernel.kb)
         /\ ~broken /\ left = "take" => Length(Kernel.kb) # 0

Inv == /\ Types /\ Ordered /\ Counted /\ Opened /\ Lines /\ Woken
       /\ Printing /\ Ended /\ Delivered /\ Typed

\* The kernel after a step.
LEMMA SetIs == ASSUME NEW k \in Kernels, Set(k) PROVE Kernel' = k
BY DEF Set, Kernels, Kernel

LEMMA KernelStays == ASSUME UNCHANGED kernel PROVE Kernel' = Kernel
BY DEF kernel, Kernel

LEMMA KernelFields ==
    /\ Kernel.sems = sems /\ Kernel.asleep = asleep /\ Kernel.pipes = pipes /\ Kernel.kb = kb
    /\ PipeEmpty(Kernel, id) <=> Empty(ThePipe)
    /\ PipeFull(Kernel, id) <=> Full(ThePipe)
BY DEF Kernel, PipeEmpty, PipeFull, Empty, Full, ThePipe

\* The pipe, as the invariant knows it.
LEMMA InvPipe ==
    ASSUME Inv
    PROVE  /\ Kernel \in Kernels /\ OpenedOf(Kernel) /\ LinesOf(Kernel, left, right)
           /\ ThePipe \in {NoPipe} \cup PipeRecord /\ ThePipe = Kernel.pipes[id]
           /\ ThePipe.open => ThePipe \in PipeRecord
           /\ ~ThePipe.open => ThePipe = NoPipe
           /\ getValidPipe(Kernel, id) <=> ThePipe.open
BY PipeIs DEF Inv, Types, Opened, Lines, ThePipe

\* A step that leaves the keyboard's ring alone.
LEMMA TypedSame ==
    ASSUME Typed, UNCHANGED <<typed, read, broken>>, Kernel'.kb = Kernel.kb, left' = "take" => left = "take"
    PROVE  Typed'
BY DEF Typed

\* A step that neither writes, nor reads, nor prints.
Placed == /\ left \in {"none", "failed", "gone"} \cup Writing \cup Exiting
          /\ right \in {"none", "failed", "gone"} \cup Reading \cup Exiting
          /\ shell \in {"prompt", "left", "right", "waitL", "inL", "waitR", "inR", "close", "close2"}
          /\ hand \in Byte
SameHistory == UNCHANGED <<line, lines, screen, typed, read, broken, sent, received, stray>>
LEMMA FrameStep ==
    ASSUME Inv, NEW k \in Kernels, Set(k), k.kb = Kernel.kb, OpenedOf(k), LinesOf(k, left', right'),
           \/ k.pipes[id] = NoPipe /\ left' \notin Writing \cup {"detach"}
           \/ /\ k.pipes[id] \in PipeRecord /\ ThePipe \in PipeRecord
              /\ SameRing(k.pipes[id], ThePipe) /\ CountsOf(k.pipes[id], left', right'),
           SameHistory, Placed', Good' => Good,
           right' \in Exiting \cup {"gone"} /\ Good' => right \in Exiting \cup {"gone"},
           left' \in Writing => left \in Writing \/ right' = "none",
           left' = "take" => left = "take",
           Ordered', Woken', Printing'
    PROVE  Inv'
<1>1. Kernel' = k
    BY SetIs
<1>2. Types'
  <2>1. Kernel' \in Kernels
      BY <1>1
  <2>2. Types
      BY DEF Inv
  <2> QED  BY <2>1, <2>2 DEF Types, Placed, SameHistory
<1>3. ThePipe' = k.pipes[id]
    BY <1>1 DEF ThePipe
<1>4. Counted'
  <2>1. CASE k.pipes[id] = NoPipe /\ left' \notin Writing \cup {"detach"}
      BY <1>3, <2>1, OpenPipes DEF Counted
  <2>2. CASE k.pipes[id] \in PipeRecord /\ CountsOf(k.pipes[id], left', right')
      BY <1>3, <2>2, OpenPipes DEF Counted
  <2> QED  BY <2>1, <2>2
<1>5. Opened'
    BY <1>1 DEF Opened
<1>6. Lines'
    BY <1>1 DEF Lines
<1>7. Ended'
  <2>1. Ended
      BY DEF Inv
  <2>2. AllRead => AllRead'
      BY DEF AllRead, SameHistory
  <2>3. right' \in Exiting \cup {"gone"} => right' # "none"
      BY DEF Exiting
  <2> QED  BY <2>1, <2>2, <2>3 DEF Ended, SameHistory
<1>8. Delivered'
  <2>1. Delivered
      BY DEF Inv
  <2>2. CASE k.pipes[id] = NoPipe
      BY <1>3, <2>2, OpenPipes DEF Delivered
  <2>3. CASE k.pipes[id] \in PipeRecord /\ ThePipe \in PipeRecord /\ SameRing(k.pipes[id], ThePipe)
    <3>1. ThePipe.open
        BY <2>3, OpenPipes
    <3>2. RingOf(ThePipe') = RingOf(ThePipe)
        BY <1>3, <2>3 DEF RingOf, SameRing
    <3> QED  BY <2>1, <3>1, <3>2 DEF Delivered, SameHistory
  <2> QED  BY <2>2, <2>3
<1>9. Typed'
  <2>1. Typed
      BY DEF Inv
  <2> QED  BY <1>1, <2>1, TypedSame DEF SameHistory
<1> QED  BY <1>2, <1>4, <1>5, <1>6, <1>7, <1>8, <1>9 DEF Inv

-----------------------------------------------------------------------------
(* The steps of the shell.                                                  *)

LEMMA WokenSame ==
    ASSUME NEW k, NEW h, NEW l, NEW r, NEW l2, NEW r2, WokenOf(k, l, r),
           h.pipes[id] = k.pipes[id], h.sems[canRead(id)] = k.sems[canRead(id)],
           h.sems[canWrite(id)] = k.sems[canWrite(id)],
           l2 = "put" /\ "L" \notin h.asleep => l = "put" /\ "L" \notin k.asleep,
           r2 = "awake" /\ "R" \notin h.asleep => r = "awake" /\ "R" \notin k.asleep
    PROVE  WokenOf(h, l2, r2)
BY DEF WokenOf, LineOf

\* The kernel but for the semaphores of the processes.
Aside(h, k) == /\ h \in Kernels /\ h.kb = k.kb /\ h.pipes = k.pipes
               /\ h.sems[canRead(id)] = k.sems[canRead(id)] /\ h.sems[canWrite(id)] = k.sems[canWrite(id)]
LEMMA AsideOpened ==
    ASSUME NEW k \in Kernels, OpenedOf(k), NEW h, Aside(h, k)
    PROVE  OpenedOf(h)
BY DEF Aside, OpenedOf

LEMMA WaitForFacts ==
    ASSUME NEW k \in Kernels, NEW l, NEW r, LinesOf(k, l, r), NEW p \in {"L", "R"},
           NEW h, h = semWait(k, wait(p), "S")
    PROVE  Aside(h, k) /\ LinesOf(h, l, r) /\ h.asleep \subseteq k.asleep \cup {"S"} /\ k.asleep \subseteq h.asleep
<1>1. wait(p) \in Name /\ wait(p) \notin {canRead(id), canWrite(id), buffer_sem}
    BY Names
<1>2. "S" \in Process
    BY DEF Process
<1>3. PICK n \in Name : n = wait(p)
    BY <1>1
<1>4. h \in Kernels /\ h.pipes = k.pipes /\ h.kb = k.kb
    BY <1>2, <1>3, WaitFacts
<1>5. \A m \in Name \ {n} : h.sems[m] = k.sems[m]
    BY <1>2, <1>3, WaitFacts
<1>6. \/ LineOf(h, n) = Append(LineOf(k, n), "S") /\ h.asleep = k.asleep \cup {"S"}
      \/ LineOf(h, n) = LineOf(k, n) /\ h.asleep = k.asleep
    BY <1>2, <1>3, WaitFacts
<1>7. Aside(h, k)
    BY <1>1, <1>3, <1>4, <1>5, Names DEF Aside
<1>8. LineOf(k, n) \in Seq({"S"})
    BY <1>3 DEF LinesOf
<1>9. LineOf(h, n) \in Seq({"S"}) /\ (h.asleep = k.asleep \/ h.asleep = k.asleep \cup {"S"})
    BY <1>6, <1>8, Singles
<1>10. \A m \in Name \ {n} : LineOf(h, m) = LineOf(k, m)
    BY <1>5 DEF LineOf
<1>11. LinesOf(h, l, r)
    BY <1>1, <1>3, <1>9, <1>10, Names DEF LinesOf, InLine
<1> QED  BY <1>7, <1>9, <1>11

\* A step of the shell alone, and of the processes' semaphores.
LEMMA AsideStep ==
    ASSUME Inv, NEW k, Aside(k, Kernel), Set(k), LinesOf(k, left, right), SameHistory,
           "L" \in Kernel.asleep => "L" \in k.asleep, "R" \in Kernel.asleep => "R" \in k.asleep,
           UNCHANGED <<nextId, left, right, hand, killed>>,
           shell \notin {"prompt", "left", "right"},
           shell' \in {"waitL", "inL", "waitR", "inR", "close", "close2", "prompt"}
    PROVE  Inv'
<1>1. k \in Kernels /\ k.kb = Kernel.kb /\ k.pipes[id] = ThePipe
    BY DEF Aside, ThePipe
<1>2. OpenedOf(k)
    BY InvPipe, AsideOpened
<1>3. Types /\ Ordered /\ Counted /\ Woken /\ Printing
    BY DEF Inv
<1>4. Placed'
    BY <1>3 DEF Placed, Types
<1>5. Good' <=> Good
    BY DEF Good, SameHistory
<1>6. Kernel' = k
    BY <1>1, SetIs
<1>7. ThePipe' = ThePipe
    BY <1>1, <1>6 DEF ThePipe
<1>8. Ordered'
    BY <1>3, <1>7 DEF Ordered, SameHistory
<1>9. Woken'
  <2>1. ASSUME Good, left \in Writing \cup {"none"}, ThePipe.open PROVE WokenOf(k, left, right)
    <3>1. WokenOf(Kernel, left, right)
        BY <1>3, <2>1 DEF Woken
    <3> QED  BY <3>1, WokenSame DEF Aside
  <2> QED  BY <1>5, <1>6, <1>7, <2>1 DEF Woken
<1>10. Printing'
    BY <1>3 DEF Printing, SameHistory
<1>11. \/ ThePipe = NoPipe /\ left \notin Writing \cup {"detach"}
       \/ /\ ThePipe \in PipeRecord
          /\ SameRing(ThePipe, ThePipe) /\ CountsOf(ThePipe, left, right)
  <2>1. CASE ThePipe = NoPipe
      BY <1>3, <2>1, OpenPipes DEF Counted
  <2>2. CASE ThePipe \in PipeRecord
      BY <1>3, <2>2, OpenPipes DEF Counted
  <2> QED  BY <2>1, <2>2, InvPipe
<1>12. LinesOf(k, left', right')
    OBVIOUS
<1>13. \/ k.pipes[id] = NoPipe /\ left' \notin Writing \cup {"detach"}
       \/ /\ k.pipes[id] \in PipeRecord /\ ThePipe \in PipeRecord
          /\ SameRing(k.pipes[id], ThePipe) /\ CountsOf(k.pipes[id], left', right')
    BY <1>1, <1>11
<1> QED  BY <1>1, <1>2, <1>4, <1>5, <1>8, <1>9, <1>10, <1>12, <1>13, FrameStep

LEMMA WaitPidStep ==
    ASSUME Inv, \/ waitPid("L", left, "waitL", "inL", "waitR")
                \/ waitPid("R", right, "waitR", "inR", "close")
    PROVE  Inv'
<1>1. Kernel \in Kernels /\ LinesOf(Kernel, left, right)
    BY InvPipe
<1>2. SameHistory /\ UNCHANGED <<nextId, left, right, hand, killed>>
    BY DEF waitPid, SameHistory, keys
<1>3. shell \notin {"prompt", "left", "right"} /\ shell' \in {"waitL", "inL", "waitR", "inR", "close"}
    BY DEF waitPid
<1>4. UNCHANGED kernel \/ \E p \in {"L", "R"} : Set(semWait(Kernel, wait(p), "S"))
    BY DEF waitPid
<1>5. CASE UNCHANGED kernel
  <2>1. Set(Kernel)
      BY <1>5 DEF Set, Kernel, kernel
  <2>2. Aside(Kernel, Kernel)
      BY <1>1 DEF Aside
  <2> QED  BY <1>1, <1>2, <1>3, <2>1, <2>2, AsideStep
<1>6. ASSUME NEW p \in {"L", "R"}, Set(semWait(Kernel, wait(p), "S")) PROVE Inv'
  <2>1. PICK k : k = semWait(Kernel, wait(p), "S")
      OBVIOUS
  <2>2. Aside(k, Kernel)
      BY <1>1, <2>1, WaitForFacts
  <2>3. LinesOf(k, left, right)
      BY <1>1, <2>1, WaitForFacts
  <2>4. Kernel.asleep \subseteq k.asleep
      BY <1>1, <2>1, WaitForFacts
  <2>5. Set(k)
      BY <1>6, <2>1
  <2> QED  BY <1>2, <1>3, <2>2, <2>3, <2>4, <2>5, AsideStep
<1> QED  BY <1>4, <1>5, <1>6

\* A step of a process that is leaving.
Moves ==
    /\ left # "none" /\ left' # "none"
    /\ right' = "none" <=> right = "none"
    /\ right' = "failed" <=> right = "failed"
    /\ left' \in Writing \cup {"detach"} <=> left \in Writing \cup {"detach"}
    /\ right' \in Reading \cup {"detach"} <=> right \in Reading \cup {"detach"}
    /\ left' \in Writing => left' = left
    /\ right' \in Reading => right' = right
    /\ right' \in Exiting \cup {"gone"} => right \in Exiting \cup {"gone"}
    /\ shell' = shell \/ (shell \notin {"left", "right"} /\ shell' \notin {"left", "right"})
LEMMA SettleStep ==
    ASSUME Inv, NEW k, Settles(k, Kernel), LinesOf(k, left', right'), Set(k), SameHistory,
           UNCHANGED <<nextId, hand, killed>>, Placed', Moves, ~(Good /\ left' \in Writing)
    PROVE  Inv'
<1>1. k \in Kernels /\ k.kb = Kernel.kb /\ OpenedOf(k)
    BY DEF Settles
<1>2. Ordered /\ Counted /\ Printing
    BY DEF Inv
<1>3. Good' <=> Good
    BY DEF Good, SameHistory, Moves
<1>4. Ordered'
    BY <1>2 DEF Ordered, Moves
<1>5. Woken'
    BY <1>3 DEF Woken, Moves
<1>6. Printing'
    BY <1>2 DEF Printing, Moves, SameHistory
<1>7. CountsOf(ThePipe, left, right) => CountsOf(ThePipe, left', right')
    BY DEF CountsOf, Moves
<1>8. \/ k.pipes[id] = NoPipe /\ left' \notin Writing \cup {"detach"}
      \/ /\ k.pipes[id] \in PipeRecord /\ ThePipe \in PipeRecord
         /\ SameRing(k.pipes[id], ThePipe) /\ CountsOf(k.pipes[id], left', right')
  <2>1. CASE k.pipes[id] = NoPipe /\ (ThePipe = NoPipe \/ ThePipe.writers = 0)
    <3>1. left \in Writing \cup {"detach"} => ThePipe.open /\ ThePipe.writers = 1
        BY <1>2 DEF Counted, CountsOf, IsOne
    <3>2. left \notin Writing \cup {"detach"}
        BY <2>1, <3>1, OpenPipes
    <3> QED  BY <2>1, <3>2 DEF Moves
  <2>2. CASE /\ ThePipe \in PipeRecord /\ k.pipes[id] \in PipeRecord
             /\ SameRing(k.pipes[id], ThePipe) /\ SameCounts(k.pipes[id], ThePipe)
    <3>1. CountsOf(ThePipe, left', right')
        BY <1>2, <1>7, <2>2, OpenPipes DEF Counted
    <3>2. CountsOf(k.pipes[id], left', right')
        BY <2>2, <3>1 DEF CountsOf, SameCounts
    <3> QED  BY <2>2, <3>2
  <2> QED  BY <2>1, <2>2 DEF Settles, ThePipe
<1>9. right' \in Exiting \cup {"gone"} /\ Good' => right \in Exiting \cup {"gone"}
    BY DEF Moves
<1>10. (left' \in Writing => left \in Writing) /\ (left' = "take" => left = "take")
    BY DEF Moves, Writing
<1> QED  BY <1>1, <1>3, <1>4, <1>5, <1>6, <1>8, <1>9, <1>10, FrameStep

\* The shell's closePipe: a writer whose reader has ended well has ended too.
LEMMA PipeCloseStep == ASSUME Inv, pipeClose PROVE Inv'
<1>1. Kernel \in Kernels /\ LinesOf(Kernel, left, right) /\ OpenedOf(Kernel)
    BY InvPipe
<1>2. SameHistory /\ UNCHANGED <<nextId, left, right, hand, killed>>
    BY DEF pipeClose, SameHistory, keys
<1>3. shell \in {"close", "close2"} /\ shell' \in {"close2", "prompt"}
    BY DEF pipeClose
<1>4. Types /\ Ordered /\ Counted /\ Ended
    BY DEF Inv
<1>5. left # "none" /\ right # "none"
    BY <1>3, <1>4 DEF Ordered
<1>6. Placed'
    BY <1>2, <1>3, <1>4 DEF Placed, Types
<1>7. Moves
    BY <1>2, <1>3, <1>5 DEF Moves
<1>8. ThePipe.open => ThePipe.attached = ThePipe.readers + ThePipe.writers
    BY <1>4 DEF Counted, CountsOf
<1>9. ASSUME Good, left \in Writing PROVE ThePipe.open /\ ThePipe.attached = 2
  <2>1. ThePipe.open /\ ThePipe.writers = 1
      BY <1>4, <1>9 DEF Counted, CountsOf, IsOne
  <2>2. right \notin Exiting \cup {"gone"}
      BY <1>4, <1>9 DEF Ended
  <2>3. right \in Reading
      BY <1>4, <1>5, <1>9, <2>2 DEF Types, Good
  <2>4. ThePipe.readers = 1
      BY <1>4, <2>1, <2>3 DEF Counted, CountsOf, IsOne
  <2> QED  BY <1>8, <2>1, <2>4
<1>10. CASE Good /\ left \in Writing
  <2>1. closePipe_wake(Kernel, id) = Kernel /\ closePipe_delete(Kernel, id) = Kernel
      BY <1>9, <1>10 DEF closePipe_wake, closePipe_delete, ThePipe
  <2>2. Set(Kernel)
      BY <2>1 DEF pipeClose
  <2>3. Aside(Kernel, Kernel)
      BY <1>1 DEF Aside
  <2> QED  BY <1>1, <1>2, <1>3, <2>2, <2>3, AsideStep
<1>11. CASE ~(Good /\ left \in Writing)
  <2>1. CASE Set(closePipe_wake(Kernel, id))
    <3>1. PICK k : k = closePipe_wake(Kernel, id)
        OBVIOUS
    <3>2. Settles(k, Kernel) /\ LinesOf(k, left, right)
        BY <1>1, <3>1, CloseWakeFacts
    <3>3. Set(k) /\ LinesOf(k, left', right') /\ ~(Good /\ left' \in Writing)
        BY <1>2, <1>11, <2>1, <3>1, <3>2
    <3> QED  BY <1>2, <1>6, <1>7, <3>2, <3>3, SettleStep
  <2>2. CASE Set(closePipe_delete(Kernel, id))
    <3>1. PICK k : k = closePipe_delete(Kernel, id)
        OBVIOUS
    <3>2. Settles(k, Kernel) /\ LinesOf(k, left, right)
        BY <1>1, <1>8, <3>1, CloseDeleteFacts DEF ThePipe
    <3>3. Set(k) /\ LinesOf(k, left', right') /\ ~(Good /\ left' \in Writing)
        BY <1>2, <1>11, <2>2, <3>1, <3>2
    <3> QED  BY <1>2, <1>6, <1>7, <3>2, <3>3, SettleStep
  <2>3. CASE Set(closePipe_delete(closePipe_wake(Kernel, id), id))
    <3>1. PICK k : k = closePipe_wake(Kernel, id)
        OBVIOUS
    <3>2. Settles(k, Kernel) /\ LinesOf(k, left, right)
        BY <1>1, <3>1, CloseWakeFacts
    <3>3. k \in Kernels /\ OpenedOf(k)
        BY <3>2 DEF Settles
    <3>4. k.pipes[id].open => k.pipes[id].attached = k.pipes[id].readers + k.pipes[id].writers
        BY <1>8, <3>2, OpenPipes DEF Settles, SameCounts, ThePipe
    <3>5. PICK h : h = closePipe_delete(k, id)
        OBVIOUS
    <3>6. Settles(h, k) /\ LinesOf(h, left, right)
        BY <3>2, <3>3, <3>4, <3>5, CloseDeleteFacts
    <3>7. Settles(h, Kernel)
        BY <3>2, <3>6, SettlesTwice
    <3>8. Set(h) /\ LinesOf(h, left', right') /\ ~(Good /\ left' \in Writing)
        BY <1>2, <1>11, <2>3, <3>1, <3>5, <3>6
    <3> QED  BY <1>2, <1>6, <1>7, <3>7, <3>8, SettleStep
  <2> QED  BY <2>1, <2>2, <2>3 DEF pipeClose
<1> QED  BY <1>10, <1>11

-----------------------------------------------------------------------------
(* The steps of a process that ends.                                        *)

\* A process that is awake is in neither line of the pipe.
LEMMA LeaveFacts ==
    ASSUME NEW k \in Kernels, NEW l, NEW r, LinesOf(k, l, r), NEW p,
           (p = "L" /\ l \notin {"loop", "put"}) \/ (p = "R" /\ r # "awake")
    PROVE  LeaveLines(k, id, p) = k
<1>1. canRead(id) \in Name /\ canWrite(id) \in Name
    BY Names
<1>2. \A i \in 1..Len(LineOf(k, canRead(id))) : LineOf(k, canRead(id))[i] # p
    BY DEF LinesOf, InLine
<1>3. \A i \in 1..Len(LineOf(k, canWrite(id))) : LineOf(k, canWrite(id))[i] # p
    BY DEF LinesOf, InLine
<1>4. removeFromSemaphore(k, canRead(id), p) = k
    BY <1>1, <1>2, RemoveFacts
<1>5. removeFromSemaphore(k, canWrite(id), p) = k
    BY <1>1, <1>3, RemoveFacts
<1> QED  BY <1>4, <1>5 DEF LeaveLines

\* Detaching counts one less.
LEMMA DetachFacts ==
    ASSUME NEW k \in Kernels, NEW p \in PipeRecord, k.pipes[id] = p, NEW pid, LeaveLines(k, id, pid) = k,
           p.attached = p.readers + p.writers, NEW h,
           \/ h = detachWriter(k, id, pid) /\ p.writers = 1
           \/ h = detachReader(k, id, pid) /\ p.readers = 1
    PROVE  /\ OnlyPipe(h, k) /\ h.pipes[id] \in PipeRecord /\ SameRing(h.pipes[id], p)
           /\ h.pipes[id].attached = h.pipes[id].readers + h.pipes[id].writers
           /\ h = detachWriter(k, id, pid) /\ p.writers = 1 =>
                h.pipes[id].writers = 0 /\ h.pipes[id].readers = p.readers
           /\ h = detachReader(k, id, pid) /\ p.readers = 1 =>
                h.pipes[id].readers = 0 /\ h.pipes[id].writers = p.writers
<1>1. getValidPipe(k, id)
    BY PipeIs, OpenPipes
<1>2. p.readers \in Nat /\ p.writers \in Nat /\ p.attached \in Nat
    BY DEF PipeRecord
<1>3. ASSUME h = detachWriter(k, id, pid), p.writers = 1
      PROVE  /\ OnlyPipe(h, k) /\ h.pipes[id] \in PipeRecord /\ SameRing(h.pipes[id], p)
             /\ h.pipes[id].attached = h.pipes[id].readers + h.pipes[id].writers
             /\ h.pipes[id].writers = 0 /\ h.pipes[id].readers = p.readers
  <2>1. PICK a \in Nat : a = p.attached - 1 /\ a = p.readers
      BY <1>2, <1>3
  <2>2. h = [k EXCEPT !.pipes[id].writers = 0, !.pipes[id].attached = a]
    <3>1. p.writers - 1 = 0
        BY <1>3
    <3>2. k.pipes[id].writers # 0
        BY <1>3
    <3>3. h = [LeaveLines(k, id, pid) EXCEPT !.pipes[id].writers = @ - 1, !.pipes[id].attached = @ - 1]
        BY <1>1, <1>3, <3>2 DEF detachWriter
    <3>4. h = [k EXCEPT !.pipes[id].writers = @ - 1, !.pipes[id].attached = @ - 1]
        BY Zenon, <3>3
    <3> QED  BY <2>1, <3>1, <3>4
  <2>3. PICK q1 : q1 = [p EXCEPT !.writers = 0]
      OBVIOUS
  <2>4. PICK q : q = [q1 EXCEPT !.attached = a]
      OBVIOUS
  <2>5. q \in PipeRecord /\ q.attached = a /\ q.writers = 0 /\ q.readers = p.readers
      BY <2>3, <2>4 DEF PipeRecord
  <2>6. SameRing(q, p)
      BY <2>3, <2>4 DEF PipeRecord, SameRing
  <2>7. h = PipeSet(k, q)
    <3>1. PICK k1 : k1 = PipeSet(k, q1)
        OBVIOUS
    <3>2. k1.pipes[id] = q1 /\ PipeSet(k1, q) = PipeSet(k, q)
        BY <3>1, PipeSetTwice
    <3>3. k1 = [k EXCEPT !.pipes[id].writers = 0]
        BY <2>3, <3>1 DEF PipeSet
    <3>4. PipeSet(k1, q) = [k1 EXCEPT !.pipes[id].attached = a]
        BY <2>4, <3>2 DEF PipeSet
    <3> QED  BY <2>2, <3>2, <3>3, <3>4
  <2>8. OnlyPipe(h, k)
      BY <2>5, <2>7, PipeUpdate
  <2>9. h.pipes[id] = q
      BY <2>5, <2>7, PipeUpdate
  <2> QED  BY <1>2, <2>1, <2>5, <2>6, <2>8, <2>9
<1>4. ASSUME h = detachReader(k, id, pid), p.readers = 1
      PROVE  /\ OnlyPipe(h, k) /\ h.pipes[id] \in PipeRecord /\ SameRing(h.pipes[id], p)
             /\ h.pipes[id].attached = h.pipes[id].readers + h.pipes[id].writers
             /\ h.pipes[id].readers = 0 /\ h.pipes[id].writers = p.writers
  <2>1. PICK a \in Nat : a = p.attached - 1 /\ a = p.writers
      BY <1>2, <1>4
  <2>2. h = [k EXCEPT !.pipes[id].readers = 0, !.pipes[id].attached = a]
    <3>1. p.readers - 1 = 0
        BY <1>4
    <3>2. k.pipes[id].readers # 0
        BY <1>4
    <3>3. h = [LeaveLines(k, id, pid) EXCEPT !.pipes[id].readers = @ - 1, !.pipes[id].attached = @ - 1]
        BY <1>1, <1>4, <3>2 DEF detachReader
    <3>4. h = [k EXCEPT !.pipes[id].readers = @ - 1, !.pipes[id].attached = @ - 1]
        BY Zenon, <3>3
    <3> QED  BY <2>1, <3>1, <3>4
  <2>3. PICK q1 : q1 = [p EXCEPT !.readers = 0]
      OBVIOUS
  <2>4. PICK q : q = [q1 EXCEPT !.attached = a]
      OBVIOUS
  <2>5. q \in PipeRecord /\ q.attached = a /\ q.readers = 0 /\ q.writers = p.writers
      BY <2>3, <2>4 DEF PipeRecord
  <2>6. SameRing(q, p)
      BY <2>3, <2>4 DEF PipeRecord, SameRing
  <2>7. h = PipeSet(k, q)
    <3>1. PICK k1 : k1 = PipeSet(k, q1)
        OBVIOUS
    <3>2. k1.pipes[id] = q1 /\ PipeSet(k1, q) = PipeSet(k, q)
        BY <3>1, PipeSetTwice
    <3>3. k1 = [k EXCEPT !.pipes[id].readers = 0]
        BY <2>3, <3>1 DEF PipeSet
    <3>4. PipeSet(k1, q) = [k1 EXCEPT !.pipes[id].attached = a]
        BY <2>4, <3>2 DEF PipeSet
    <3> QED  BY <2>2, <3>2, <3>3, <3>4
  <2>8. OnlyPipe(h, k)
      BY <2>5, <2>7, PipeUpdate
  <2>9. h.pipes[id] = q
      BY <2>5, <2>7, PipeUpdate
  <2> QED  BY <1>2, <2>1, <2>5, <2>6, <2>8, <2>9
<1>5. CASE h = detachWriter(k, id, pid) /\ p.writers = 1 /\ ~(h = detachReader(k, id, pid) /\ p.readers = 1)
    BY <1>3, <1>5
<1>6. CASE h = detachReader(k, id, pid) /\ p.readers = 1 /\ ~(h = detachWriter(k, id, pid) /\ p.writers = 1)
    BY <1>4, <1>6
<1>7. CASE h = detachReader(k, id, pid) /\ p.readers = 1 /\ h = detachWriter(k, id, pid) /\ p.writers = 1
    BY <1>3, <1>4, <1>7
<1> QED  BY <1>5, <1>6, <1>7


\* The last post of a process wakes the shell, and leaves the pipe alone.
LEMMA LastPost ==
    ASSUME NEW k \in Kernels, OpenedOf(k), NEW p \in {"L", "R"}
    PROVE  Settles(semPost(k, wait(p)), k)
<1>1. PICK n \in Name : n = wait(p)
    BY Names
<1>2. PICK h : h = semPost(k, n)
    OBVIOUS
<1>3. h \in Kernels /\ h.pipes = k.pipes /\ h.kb = k.kb /\ \A m \in Name \ {n} : h.sems[m] = k.sems[m]
    BY <1>2, PostKeeps
<1>4. h.sems[canRead(id)] = k.sems[canRead(id)] /\ h.sems[canWrite(id)] = k.sems[canWrite(id)]
    BY <1>1, <1>3, Names
<1>5. OpenedOf(h)
    BY <1>3, <1>4 DEF OpenedOf
<1>6. Settles(h, k)
  <2>1. CASE k.pipes[id] = NoPipe
      BY <1>3, <1>5, <2>1 DEF Settles
  <2>2. CASE k.pipes[id] \in PipeRecord
      BY <1>3, <1>5, <2>2, OpenPipes DEF Settles
  <2> QED  BY <2>1, <2>2, PipeIs
<1> QED  BY <1>1, <1>2, <1>6

LEMMA LeftDetaches == ASSUME Inv, left_exit, left = "detach" PROVE Inv'
<1>1. Kernel \in Kernels /\ LinesOf(Kernel, left, right) /\ OpenedOf(Kernel)
    BY InvPipe
<1>2. SameHistory /\ UNCHANGED <<nextId, shell, right, hand, killed>> /\ left' = "wake"
      /\ Set(detachWriter(Kernel, id, "L"))
    BY DEF left_exit, SameHistory, keys, ExitOf
<1>3. Types /\ Ordered /\ Counted /\ Printing /\ Ended
    BY DEF Inv
<1>4. left # "none"
    BY <1>3 DEF Ordered
<1>5. LeaveLines(Kernel, id, "L") = Kernel
    BY <1>1, LeaveFacts
<1>6. Placed'
    BY <1>2, <1>3 DEF Placed, Types, Exiting
<1>7. Good' => Good
    BY <1>2 DEF Good, SameHistory
<1>8. LinesOf(Kernel, left', right')
  <2>1. "L" \notin Kernel.asleep
      BY <1>1, LinesMove
  <2> QED  BY <1>1, <1>2, <2>1, LinesMove
<1>9. Ordered'
    BY <1>2, <1>3, <1>4 DEF Ordered, SameHistory
<1>10. Woken'
    BY <1>2, <1>3, <1>4, <1>7 DEF Woken, Ended, Writing, Exiting
<1>11. Printing'
    BY <1>2, <1>3 DEF Printing, SameHistory, Reading
<1>12. PICK k : k = detachWriter(Kernel, id, "L")
    OBVIOUS
<1>13. /\ k \in Kernels /\ k.kb = Kernel.kb /\ k.sems = Kernel.sems /\ k.asleep = Kernel.asleep
       /\ \/ k.pipes[id] = NoPipe /\ ThePipe = NoPipe /\ left' \notin Writing \cup {"detach"}
          \/ /\ k.pipes[id] \in PipeRecord /\ ThePipe \in PipeRecord
             /\ SameRing(k.pipes[id], ThePipe) /\ CountsOf(k.pipes[id], left', right')
  <2>1. CASE ThePipe.open
    <3>1. PICK p \in PipeRecord : p = ThePipe /\ p = Kernel.pipes[id]
        BY <2>1, InvPipe
    <3>2. CountsOf(p, left, right)
        BY <1>3, <2>1, <3>1 DEF Counted
    <3>3. p.writers = 1 /\ p.attached = p.readers + p.writers
        BY <3>2 DEF CountsOf, IsOne
    <3>4. OnlyPipe(k, Kernel)
        BY <1>1, <1>5, <1>12, <3>1, <3>3, DetachFacts
    <3>5. k.pipes[id] \in PipeRecord /\ SameRing(k.pipes[id], p)
        BY <1>1, <1>5, <1>12, <3>1, <3>3, DetachFacts
    <3>6. /\ k.pipes[id].attached = k.pipes[id].readers + k.pipes[id].writers
          /\ k.pipes[id].writers = 0 /\ k.pipes[id].readers = p.readers
        BY <1>1, <1>5, <1>12, <3>1, <3>3, DetachFacts
    <3>7. CountsOf(k.pipes[id], left', right')
        BY <1>2, <3>2, <3>6 DEF CountsOf, IsOne, Writing, Reading
    <3> QED  BY <3>1, <3>4, <3>5, <3>7 DEF OnlyPipe
  <2>2. CASE ~ThePipe.open
    <3>1. k = Kernel
        BY <1>12, <2>2, InvPipe DEF detachWriter
    <3>2. left' \notin Writing \cup {"detach"}
        BY <1>2, <1>3, <2>2 DEF Counted, Writing
    <3> QED  BY <1>1, <2>2, <3>1, <3>2, InvPipe
  <2> QED  BY <2>1, <2>2
<1>14. OpenedOf(k)
  <2>1. k.pipes[id].open <=> ThePipe.open
      BY <1>13, OpenPipes
  <2> QED  BY <1>1, <1>13, <2>1 DEF OpenedOf, ThePipe
<1>15. LinesOf(k, left', right')
    BY <1>8, <1>13, LinesSame DEF LineOf
<1>16. right' \in Exiting \cup {"gone"} => right \in Exiting \cup {"gone"}
    BY <1>2 DEF Exiting
<1>17. (left' \in Writing => left \in Writing) /\ (left' = "take" => left = "take")
    BY <1>2 DEF Writing
<1>18. Set(k)
    BY <1>2, <1>12
<1> QED  BY <1>2, <1>6, <1>7, <1>9, <1>10, <1>11, <1>13, <1>14, <1>15, <1>16, <1>17, <1>18, FrameStep

LEMMA LeftExitStep == ASSUME Inv, left_exit PROVE Inv'
<1>1. Kernel \in Kernels /\ LinesOf(Kernel, left, right) /\ OpenedOf(Kernel)
    BY InvPipe
<1>2. CASE left = "detach"
    BY <1>2, LeftDetaches
<1>3. CASE left \in {"wake", "close", "close2", "last"}
  <2>1. SameHistory /\ UNCHANGED <<nextId, shell, right, hand, killed>>
        /\ left' \in {"close", "close2", "last", "gone"}
      BY <1>3 DEF left_exit, SameHistory, keys, ExitOf
  <2>2. Types /\ Ordered /\ Counted /\ Ended
      BY DEF Inv
  <2>3. left # "none"
      BY <1>3, <2>2 DEF Ordered
  <2>4. Placed'
      BY <2>1, <2>2 DEF Placed, Types, Exiting
  <2>5. Moves
      BY <1>3, <2>1, <2>3 DEF Moves, Writing, Reading, Exiting
  <2>6. ~(Good /\ left' \in Writing)
      BY <1>3, <2>1, <2>2 DEF Ended, Writing, Exiting
  <2>7. LinesOf(Kernel, left', right')
    <3>1. "L" \notin Kernel.asleep
        BY <1>1, <1>3, LinesMove
    <3> QED  BY <1>1, <2>1, <3>1, LinesMove
  <2>8. ThePipe.open => ThePipe.attached = ThePipe.readers + ThePipe.writers
      BY <2>2 DEF Counted, CountsOf
  <2>9. PICK k : k = ExitOf("L", left).k /\ Set(k)
      BY DEF left_exit
  <2>10. Settles(k, Kernel) /\ LinesOf(k, left', right')
    <3>1. CASE left = "wake"
      <4>1. k = detachWriter_wake(Kernel, id)
          BY <2>9, <3>1 DEF ExitOf
      <4> QED  BY <1>1, <2>7, <4>1, DetachWakeFacts
    <3>2. CASE left = "close"
      <4>1. k = closePipe_wake(Kernel, id)
          BY <2>9, <3>2 DEF ExitOf
      <4> QED  BY <1>1, <2>7, <4>1, CloseWakeFacts
    <3>3. CASE left = "close2"
      <4>1. k = closePipe_delete(Kernel, id)
          BY <2>9, <3>3 DEF ExitOf
      <4> QED  BY <1>1, <2>7, <2>8, <4>1, CloseDeleteFacts DEF ThePipe
    <3>4. CASE left = "last"
      <4>1. k = semPost(Kernel, wait("L"))
          BY <2>9, <3>4 DEF ExitOf
      <4>2. Settles(k, Kernel)
          BY <1>1, <4>1, LastPost
      <4>3. LinesOf(k, left', right')
          BY <1>1, <2>7, <4>1, LinesPost
      <4> QED  BY <4>2, <4>3
    <3> QED  BY <1>3, <3>1, <3>2, <3>3, <3>4
  <2> QED  BY <2>1, <2>4, <2>5, <2>6, <2>9, <2>10, SettleStep
<1> QED  BY <1>2, <1>3 DEF left_exit, Exiting

LEMMA RightDetaches == ASSUME Inv, right_exit, right = "detach" PROVE Inv'
<1>1. Kernel \in Kernels /\ LinesOf(Kernel, left, right) /\ OpenedOf(Kernel)
    BY InvPipe
<1>2. SameHistory /\ UNCHANGED <<nextId, shell, left, hand, killed>> /\ right' = "wake"
      /\ Set(detachReader(Kernel, id, "R"))
    BY DEF right_exit, SameHistory, keys, ExitOf
<1>3. Types /\ Ordered /\ Counted /\ Printing /\ Ended
    BY DEF Inv
<1>4. left # "none"
    BY <1>3 DEF Ordered
<1>5. LeaveLines(Kernel, id, "R") = Kernel
    BY <1>1, LeaveFacts
<1>6. Placed'
    BY <1>2, <1>3 DEF Placed, Types, Exiting
<1>7. Good' => Good
    BY <1>2 DEF Good, SameHistory
<1>8. LinesOf(Kernel, left', right')
  <2>1. "R" \notin Kernel.asleep
      BY <1>1, LinesMove
  <2> QED  BY <1>1, <1>2, <2>1, LinesMove
<1>9. Ordered'
    BY <1>2, <1>3, <1>4 DEF Ordered, SameHistory
<1>10. Woken'
    BY <1>2, <1>3, <1>4, <1>7 DEF Woken, Ended, Writing, Exiting
<1>11. Printing'
    BY <1>2, <1>3 DEF Printing, SameHistory, Reading
<1>12. PICK k : k = detachReader(Kernel, id, "R")
    OBVIOUS
<1>13. /\ k \in Kernels /\ k.kb = Kernel.kb /\ k.sems = Kernel.sems /\ k.asleep = Kernel.asleep
       /\ \/ k.pipes[id] = NoPipe /\ ThePipe = NoPipe /\ left' \notin Writing \cup {"detach"}
          \/ /\ k.pipes[id] \in PipeRecord /\ ThePipe \in PipeRecord
             /\ SameRing(k.pipes[id], ThePipe) /\ CountsOf(k.pipes[id], left', right')
  <2>1. CASE ThePipe.open
    <3>1. PICK p \in PipeRecord : p = ThePipe /\ p = Kernel.pipes[id]
        BY <2>1, InvPipe
    <3>2. CountsOf(p, left, right)
        BY <1>3, <2>1, <3>1 DEF Counted
    <3>3. p.readers = 1 /\ p.attached = p.readers + p.writers
        BY <3>2 DEF CountsOf, IsOne
    <3>4. OnlyPipe(k, Kernel)
        BY <1>1, <1>5, <1>12, <3>1, <3>3, DetachFacts
    <3>5. k.pipes[id] \in PipeRecord /\ SameRing(k.pipes[id], p)
        BY <1>1, <1>5, <1>12, <3>1, <3>3, DetachFacts
    <3>6. /\ k.pipes[id].attached = k.pipes[id].readers + k.pipes[id].writers
          /\ k.pipes[id].readers = 0 /\ k.pipes[id].writers = p.writers
        BY <1>1, <1>5, <1>12, <3>1, <3>3, DetachFacts
    <3>7. CountsOf(k.pipes[id], left', right')
        BY <1>2, <3>2, <3>6 DEF CountsOf, IsOne, Writing, Reading
    <3> QED  BY <3>1, <3>4, <3>5, <3>7 DEF OnlyPipe
  <2>2. CASE ~ThePipe.open
    <3>1. k = Kernel
        BY <1>12, <2>2, InvPipe DEF detachReader
    <3>2. left' \notin Writing \cup {"detach"}
        BY <1>2, <1>3, <2>2 DEF Counted, Writing
    <3> QED  BY <1>1, <2>2, <3>1, <3>2, InvPipe
  <2> QED  BY <2>1, <2>2
<1>14. OpenedOf(k)
  <2>1. k.pipes[id].open <=> ThePipe.open
      BY <1>13, OpenPipes
  <2> QED  BY <1>1, <1>13, <2>1 DEF OpenedOf, ThePipe
<1>15. LinesOf(k, left', right')
    BY <1>8, <1>13, LinesSame DEF LineOf
<1>16. right' \in Exiting \cup {"gone"} => right \in Exiting \cup {"gone"}
    BY <1>2 DEF Exiting
<1>17. (left' \in Writing => left \in Writing) /\ (left' = "take" => left = "take")
    BY <1>2 DEF Writing
<1>18. Set(k)
    BY <1>2, <1>12
<1> QED  BY <1>2, <1>6, <1>7, <1>9, <1>10, <1>11, <1>13, <1>14, <1>15, <1>16, <1>17, <1>18, FrameStep

LEMMA RightExitStep == ASSUME Inv, right_exit PROVE Inv'
<1>1. Kernel \in Kernels /\ LinesOf(Kernel, left, right) /\ OpenedOf(Kernel)
    BY InvPipe
<1>2. CASE right = "detach"
    BY <1>2, RightDetaches
<1>3. CASE right \in {"wake", "close", "close2", "last"}
  <2>1. SameHistory /\ UNCHANGED <<nextId, shell, left, hand, killed>>
        /\ right' \in {"close", "close2", "last", "gone"}
      BY <1>3 DEF right_exit, SameHistory, keys, ExitOf
  <2>2. Types /\ Ordered /\ Counted /\ Ended
      BY DEF Inv
  <2>3. left # "none"
      BY <1>3, <2>2 DEF Ordered
  <2>4. Placed'
      BY <2>1, <2>2 DEF Placed, Types, Exiting
  <2>5. Moves
      BY <1>3, <2>1, <2>3 DEF Moves, Writing, Reading, Exiting
  <2>6. ~(Good /\ left' \in Writing)
      BY <1>3, <2>1, <2>2 DEF Ended, Writing, Exiting
  <2>7. LinesOf(Kernel, left', right')
    <3>1. "R" \notin Kernel.asleep
        BY <1>1, <1>3, LinesMove
    <3> QED  BY <1>1, <2>1, <3>1, LinesMove
  <2>8. ThePipe.open => ThePipe.attached = ThePipe.readers + ThePipe.writers
      BY <2>2 DEF Counted, CountsOf
  <2>9. PICK k : k = ExitOf("R", right).k /\ Set(k)
      BY DEF right_exit
  <2>10. Settles(k, Kernel) /\ LinesOf(k, left', right')
    <3>1. CASE right = "wake"
      <4>1. k = detachReader_wake(Kernel, id)
          BY <2>9, <3>1 DEF ExitOf
      <4> QED  BY <1>1, <2>7, <4>1, DetachWakeFacts
    <3>2. CASE right = "close"
      <4>1. k = closePipe_wake(Kernel, id)
          BY <2>9, <3>2 DEF ExitOf
      <4> QED  BY <1>1, <2>7, <4>1, CloseWakeFacts
    <3>3. CASE right = "close2"
      <4>1. k = closePipe_delete(Kernel, id)
          BY <2>9, <3>3 DEF ExitOf
      <4> QED  BY <1>1, <2>7, <2>8, <4>1, CloseDeleteFacts DEF ThePipe
    <3>4. CASE right = "last"
      <4>1. k = semPost(Kernel, wait("R"))
          BY <2>9, <3>4 DEF ExitOf
      <4>2. Settles(k, Kernel)
          BY <1>1, <4>1, LastPost
      <4>3. LinesOf(k, left', right')
          BY <1>1, <2>7, <4>1, LinesPost
      <4> QED  BY <4>2, <4>3
    <3> QED  BY <1>3, <3>1, <3>2, <3>3, <3>4
  <2> QED  BY <2>1, <2>4, <2>5, <2>6, <2>9, <2>10, SettleStep
<1> QED  BY <1>2, <1>3 DEF right_exit, Exiting

\* Ctrl+C: nothing is promised any more.
LEMMA KillStep == ASSUME Inv, kill_foreground_processes PROVE Inv'
<1>1. Kernel \in Kernels /\ LinesOf(Kernel, left, right) /\ OpenedOf(Kernel)
    BY InvPipe
<1>2. SameHistory /\ UNCHANGED <<nextId, shell, left, hand>> /\ right \in Reading /\ right' = "detach" /\ killed'
    BY DEF kill_foreground_processes, SameHistory, keys, Reading
<1>3. Types /\ Ordered /\ Counted /\ Printing
    BY DEF Inv
<1>4. Placed'
    BY <1>2, <1>3 DEF Placed, Types, Exiting
<1>5. ~Good'
    BY <1>2 DEF Good
<1>6. LinesOf(Kernel, left', right')
  <2>1. "R" \notin Kernel.asleep
      BY KernelFields DEF kill_foreground_processes
  <2> QED  BY <1>1, <1>2, <2>1, LinesMove
<1>7. Set(Kernel)
    BY DEF kill_foreground_processes, kernel, Set, Kernel
<1>8. ThePipe' = ThePipe
    BY <1>1, <1>7, SetIs DEF ThePipe
<1>9. Ordered'
    BY <1>2, <1>3, <1>8 DEF Ordered, SameHistory, Reading
<1>10. Woken'
    BY <1>5 DEF Woken
<1>11. Printing'
    BY <1>2, <1>3 DEF Printing, SameHistory, Reading
<1>12. \/ Kernel.pipes[id] = NoPipe /\ left' \notin Writing \cup {"detach"}
       \/ /\ Kernel.pipes[id] \in PipeRecord /\ ThePipe \in PipeRecord
          /\ SameRing(Kernel.pipes[id], ThePipe) /\ CountsOf(Kernel.pipes[id], left', right')
  <2>1. CASE ThePipe = NoPipe
    <3>1. left \notin Writing \cup {"detach"}
        BY <1>3, <2>1, OpenPipes DEF Counted
    <3> QED  BY <1>2, <2>1, <3>1 DEF ThePipe
  <2>2. CASE ThePipe \in PipeRecord
    <3>1. CountsOf(ThePipe, left, right)
        BY <1>3, <2>2, OpenPipes DEF Counted
    <3>2. CountsOf(ThePipe, left', right')
        BY <1>2, <3>1 DEF CountsOf, Reading
    <3> QED  BY <2>2, <3>2, OpenPipes DEF ThePipe
  <2> QED  BY <2>1, <2>2, InvPipe
<1> QED  BY <1>1, <1>2, <1>4, <1>5, <1>6, <1>7, <1>9, <1>10, <1>11, <1>12, FrameStep

-----------------------------------------------------------------------------
(* The key presses.                                                         *)

LEMMA JoinFacts ==
    /\ \A s, u \in Seq(Byte), c \in Byte :
          /\ Front(s \o Append(u, c)) = s \o u
          /\ (s \o u) \o <<c>> = s \o Append(u, c)
    /\ \A s, u, v \in Seq(Byte) : (s \o u) \o v = s \o (u \o v)
<1>1. ASSUME NEW s \in Seq(Byte), NEW u \in Seq(Byte), NEW c \in Byte
      PROVE  Front(s \o Append(u, c)) = s \o u
  <2>1. PICK t \in Seq(Byte) : t = s \o Append(u, c)
    <3>1. Append(u, c) \in Seq(Byte)
        OBVIOUS
    <3>2. s \o Append(u, c) \in Seq(Byte)
        BY <3>1
    <3> QED  BY <3>2
  <2>2. /\ Len(t) = Len(s) + Len(u) + 1 /\ Len(t) - 1 \in Nat
        /\ \A i \in 1..(Len(s) + Len(u)) : t[i] = (s \o u)[i]
      BY <2>1
  <2>3. PICK f \in Seq(Byte) : f = SubSeq(t, 1, Len(t) - 1)
    <3>1. \A i \in 1..(Len(t) - 1) : t[i] \in Byte
        BY <2>2
    <3>2. SubSeq(t, 1, Len(t) - 1) \in Seq(Byte)
        BY <2>2, <3>1
    <3> QED  BY <3>2
  <2>4. Len(f) = Len(s) + Len(u) /\ \A i \in 1..Len(f) : f[i] = t[i]
      BY <2>2, <2>3
  <2>5. s \o u \in Seq(Byte) /\ Len(s \o u) = Len(s) + Len(u)
      OBVIOUS
  <2>6. f = s \o u
      BY <2>2, <2>4, <2>5, SameSequence
  <2> QED  BY <2>1, <2>3, <2>6 DEF Front
<1>2. \A s, u \in Seq(Byte), c \in Byte : (s \o u) \o <<c>> = s \o Append(u, c)
    BY SMTT(40)
<1>3. \A s, u, v \in Seq(Byte) : (s \o u) \o v = s \o (u \o v)
    OBVIOUS
<1> QED  BY <1>1, <1>2, <1>3

\* What the user has typed and what the ring holds change alike.
LEMMA PressTyped ==
    ASSUME Inv, NEW key \in Byte, NEW k \in Kernels, Set(k),
           BUFFER_IS_FULL(Kernel.kb) \/ KeyDoes(key, k.kb, Kernel.kb),
           broken' = (broken \/ Loses(key, k)), typed' = TypedAfter(key, k), UNCHANGED <<left, read>>
    PROVE  Typed'
<1>1. SUFFICES ASSUME ~broken, ~Loses(key, k)
               PROVE  typed' = read \o Held(k.kb) /\ (left = "take" => Length(k.kb) # 0)
    BY SetIs DEF Typed
<1>2. PICK q \in KbRecord : q = Kernel.kb /\ q = kb
    BY InvPipe, KbIs, KernelFields
<1>3. PICK t \in KbRecord : t = k.kb
    BY KbIs
<1>4. /\ read \in Seq(Byte) /\ typed = read \o Held(q) /\ (left = "take" => Length(q) # 0)
    BY <1>1, <1>2 DEF Inv, Types, Typed
<1>5. /\ Pending(q) = Held(q) /\ Held(q) \in Seq(Byte) /\ Len(Held(q)) = Length(q)
      /\ Length(q) \in 0..(BUFFER_SIZE - 1)
    BY HeldIs
<1>6. /\ Pending(t) = Held(t) /\ Held(t) \in Seq(Byte) /\ Len(Held(t)) = Length(t)
      /\ Length(t) \in 0..(BUFFER_SIZE - 1)
    BY HeldIs
<1>7. /\ ~BUFFER_IS_FULL(q) /\ (key # BACKSPACE_KEY => Length(t) >= Length(q))
      /\ (key = BACKSPACE_KEY => left # "take")
    BY <1>1, <1>2, <1>3, <1>5, <1>6 DEF Loses
<1>8. BUFFER_SIZE \in Nat \ {0} /\ BUFFER_SIZE > 1
    BY KeyboardAssumption
<1>9. CASE t = q
  <2>1. typed' = typed
      BY <1>2, <1>3, <1>9 DEF TypedAfter
  <2> QED  BY <1>3, <1>4, <1>9, <2>1
<1>10. CASE key = BACKSPACE_KEY /\ Erased(t, q)
  <2>1. typed' = Front(typed)
      BY <1>2, <1>3, <1>10 DEF TypedAfter, Erased
  <2>2. PICK c \in Byte : Held(q) = Append(Held(t), c)
      BY <1>10 DEF Erased
  <2>3. typed' = Front(read \o Append(Held(t), c))
      BY <1>4, <2>1, <2>2
  <2>4. Front(read \o Append(Held(t), c)) = read \o Held(t)
      BY <1>4, <1>6, JoinFacts
  <2> QED  BY <1>3, <1>7, <1>10, <2>3, <2>4
<1>11. ASSUME key = TABULATOR_KEY, NEW m \in 1..TAB_SIZE, Spaced(t, q, m)
       PROVE  typed' = read \o Held(t) /\ (left = "take" => Length(t) # 0)
  <2>1. TAB_SIZE \in Nat
      BY KeyboardAssumption
  <2>2. m \in Nat /\ m > 0
      BY <1>11, <2>1
  <2>3. Length(q) + m < BUFFER_SIZE /\ Length(t) = Length(q) + m
    <3>1. Length(t) >= Length(q)
        BY <1>7, <1>11, Keys
    <3>2. m < BUFFER_SIZE
        BY <1>11, <2>1, <1>8, KeyboardAssumption
    <3> QED  BY <1>5, <1>6, <1>8, <1>11, <2>2, <3>1, <3>2 DEF Spaced
  <2>4. Held(t) = Held(q) \o Spaces(m) /\ t.to_read = q.to_read
      BY <1>11, <2>3 DEF Spaced
  <2>5. t.to_write # q.to_write
      BY <1>5, <2>2, <2>3, <2>4 DEF Length
  <2>6. typed' = typed \o Spaces(m)
    <3>1. Len(Pending(k.kb)) - Len(Pending(kb)) = m
        BY <1>2, <1>3, <1>5, <1>6, <2>2, <2>3
    <3>2. typed' = typed \o [i \in 1..(Len(Pending(k.kb)) - Len(Pending(kb))) |-> " "]
        BY <1>2, <1>3, <1>11, <2>5, Keys DEF TypedAfter
    <3> QED  BY <3>1, <3>2 DEF Spaces, Space
  <2>7. Spaces(m) \in Seq(Byte)
      BY <2>2, SpacesFacts
  <2>8. typed' = read \o (Held(q) \o Spaces(m))
      BY <1>4, <1>5, <2>6, <2>7, JoinFacts
  <2> QED  BY <1>5, <2>2, <2>3, <2>4, <2>8
<1>12. ASSUME key \notin {BACKSPACE_KEY, TABULATOR_KEY}, NEW c \in Byte,
              c = (IF key = CTRL_D THEN EOF ELSE key), Added(t, q, c)
       PROVE  typed' = read \o Held(t) /\ (left = "take" => Length(t) # 0)
  <2>1. Length(q) # BUFFER_SIZE - 1
      BY <1>7, <1>8, <1>12 DEF Added
  <2>2. Held(t) = Append(Held(q), c) /\ Length(t) = Length(q) + 1
      BY <1>12, <2>1 DEF Added
  <2>3. typed' = typed \o <<c>>
      BY <1>2, <1>3, <1>12 DEF TypedAfter, Added
  <2>4. typed' = read \o Append(Held(q), c)
      BY <1>4, <1>5, <2>3, JoinFacts
  <2> QED  BY <1>5, <2>2, <2>4
<1>13. key \notin {BACKSPACE_KEY, TABULATOR_KEY} => (IF key = CTRL_D THEN EOF ELSE key) \in Byte
    BY Keys
<1>14. KeyDoes(key, t, q)
    BY <1>2, <1>3, <1>7
<1> QED  BY <1>3, <1>9, <1>10, <1>11, <1>12, <1>13, <1>14 DEF KeyDoes

LEMMA PressStep ==
    ASSUME Inv, NEW key \in Key, NEW n \in 1..TAB_SIZE, Press(key, n)
    PROVE  Inv'
<1>1. Kernel \in Kernels /\ LinesOf(Kernel, left, right) /\ OpenedOf(Kernel)
    BY InvPipe
<1>2. key \in Byte
    BY PipelineAssumption DEF Byte
<1>3. PICK k : k = keyboardHandler(Kernel, key, n)
    OBVIOUS
<1>4. Set(k) /\ broken' = (broken \/ Loses(key, k)) /\ typed' = TypedAfter(key, k)
      /\ UNCHANGED <<nextId, shell, left, right, line, hand, lines, screen, read, sent, received, stray, killed>>
    BY <1>3 DEF Press
<1>5. Beside(k, Kernel, left)
    BY <1>1, <1>2, <1>3, PressFacts
<1>6. LinesOf(k, left, right)
    BY <1>1, <1>2, <1>3, PressFacts
<1>7. BUFFER_IS_FULL(Kernel.kb) \/ KeyDoes(key, k.kb, Kernel.kb)
    BY <1>1, <1>2, <1>3, PressFacts
<1>8. /\ k \in Kernels /\ k.pipes = Kernel.pipes
      /\ k.sems[canRead(id)] = Kernel.sems[canRead(id)] /\ k.sems[canWrite(id)] = Kernel.sems[canWrite(id)]
      /\ ("R" \in Kernel.asleep => "R" \in k.asleep)
      /\ (left # "loop" /\ "L" \in Kernel.asleep => "L" \in k.asleep)
    BY <1>5, Names DEF Beside
<1>9. Kernel' = k
    BY <1>4, <1>8, SetIs
<1>10. ThePipe' = ThePipe
    BY <1>8, <1>9 DEF ThePipe
<1>11. Types /\ Ordered /\ Counted /\ Woken /\ Printing /\ Ended /\ Delivered
    BY DEF Inv
<1>12. Types'
    BY <1>4, <1>8, <1>9, <1>11 DEF Types
<1>13. Ordered' /\ Counted' /\ Printing'
    BY <1>4, <1>10, <1>11 DEF Ordered, Counted, Printing
<1>14. Opened' /\ Lines'
  <2>1. OpenedOf(k)
      BY <1>1, <1>8 DEF OpenedOf
  <2> QED  BY <1>4, <1>6, <1>9, <2>1 DEF Opened, Lines
<1>15. Good' = Good
    BY <1>4 DEF Good
<1>16. Woken'
  <2>1. ASSUME Good, left \in Writing \cup {"none"}, ThePipe.open PROVE WokenOf(k, left, right)
    <3>1. WokenOf(Kernel, left, right)
        BY <1>11, <2>1 DEF Woken
    <3>2. (left = "put" /\ "L" \notin k.asleep => "L" \notin Kernel.asleep)
          /\ ("R" \notin k.asleep => "R" \notin Kernel.asleep)
        BY <1>8
    <3> QED  BY <1>8, <3>1, <3>2, WokenSame
  <2> QED  BY <1>4, <1>9, <1>10, <1>15, <2>1 DEF Woken
<1>17. Ended'
  <2>1. AllRead => AllRead'
      BY <1>4 DEF AllRead
  <2> QED  BY <1>4, <1>11, <1>15, <2>1 DEF Ended
<1>18. Delivered'
    BY <1>4, <1>10, <1>11, <1>15 DEF Delivered
<1>19. Typed'
    BY <1>2, <1>4, <1>7, <1>8, PressTyped
<1> QED  BY <1>12, <1>13, <1>14, <1>16, <1>17, <1>18, <1>19 DEF Inv

-----------------------------------------------------------------------------
(* The shell creates the pipe and the two processes.                        *)

LEMMA NewPipeIs ==
    /\ NewPipe \in PipeRecord /\ RingOf(NewPipe) = <<>> /\ CountsOf(NewPipe, "none", "none")
    /\ NewPipe.waitingToRead = FALSE /\ NewPipe.waitingToWrite = FALSE
<1>1. PICK B \in Nat \ {0} : B = PIPE_BUFFER_SIZE
    BY PipeAssumption
<1>2. PICK b \in [0..(B - 1) -> Byte] : b = [i \in 0..(B - 1) |-> "nul"]
  <2>1. "nul" \in Byte
      BY DEF Byte
  <2> QED  BY <2>1
<1>3. 0 \in 0..(B - 1) /\ 0 \in Nat /\ 1 \in Nat
    BY <1>1
<1>4. NewPipe = [open |-> TRUE, buffer |-> b, idxToRead |-> 0, idxToWrite |-> 0,
                 waitingToRead |-> FALSE, waitingToWrite |-> FALSE,
                 attached |-> 0, readers |-> 0, writers |-> 0, exp_readers |-> 1, exp_writers |-> 1]
    BY <1>1, <1>2 DEF NewPipe
<1>5. NewPipe \in PipeRecord
    BY <1>1, <1>3, <1>4 DEF PipeRecord, Index
<1>6. RingOf(NewPipe) = Ring(b, 0, 0, B)
    BY <1>1, <1>4 DEF RingOf
<1>7. Ring(b, 0, 0, B) \in Seq(Byte) /\ Len(Ring(b, 0, 0, B)) = RingLen(0, 0, B)
    BY <1>3, RingIs
<1>8. Ring(b, 0, 0, B) = <<>>
    BY <1>7 DEF RingLen
<1>9. NewPipe.waitingToRead = FALSE /\ NewPipe.waitingToWrite = FALSE
    BY <1>4
<1>10. NewPipe.writers = 0 /\ NewPipe.readers = 0 /\ NewPipe.attached = 0
    BY <1>4
<1>11. CountsOf(NewPipe, "none", "none")
    BY <1>10 DEF CountsOf, IsOne, Writing, Reading
<1> QED  BY <1>5, <1>6, <1>8, <1>9, <1>11

\* A semaphore opened for the first time.
LEMMA FirstOpen ==
    ASSUME NEW k \in Kernels, NEW n \in Name, k.sems[n] = NoSem
    PROVE  LET h == semOpen(k, n, 0) IN
           /\ h \in Kernels /\ h.pipes = k.pipes /\ h.kb = k.kb /\ h.asleep = k.asleep
           /\ \A m \in Name \ {n} : h.sems[m] = k.sems[m]
           /\ h.sems[n].users = 1 /\ h.sems[n].value = 0 /\ LineOf(h, n) = <<>>
<1>1. PICK h : h = semOpen(k, n, 0)
    OBVIOUS
<1>2. h \in Kernels /\ h.pipes = k.pipes /\ h.kb = k.kb /\ h.asleep = k.asleep
    BY <1>1, OpenFacts
<1>3. \A m \in Name \ {n} : h.sems[m] = k.sems[m]
    BY <1>1, OpenFacts
<1>4. k.sems[n].users = 0
    BY DEF NoSem
<1>5. h.sems[n] = [users |-> 1, value |-> 0, blockedProcesses |-> <<>>]
    BY <1>1, <1>4, OpenFacts
<1>6. h.sems[n].users = 1 /\ h.sems[n].value = 0 /\ LineOf(h, n) = <<>>
    BY <1>5 DEF LineOf
<1> QED  BY <1>1, <1>2, <1>3, <1>6

\* A new pipe is empty, and nobody waits at it.
LEMMA CreateFacts ==
    ASSUME NEW k \in Kernels, k.pipes[id] = NoPipe, OpenedOf(k), NEW l, NEW r, LinesOf(k, l, r),
           l # "put", r # "awake", NEW h, h = createPipe(k, id)
    PROVE  /\ h \in Kernels /\ h.kb = k.kb /\ h.pipes[id] = NewPipe
           /\ OpenedOf(h) /\ LinesOf(h, l, r) /\ WokenOf(h, l, r)
<1>1. PICK k1 : k1 = PipeSet(k, NewPipe)
    OBVIOUS
<1>2. PICK R \in Name : R = canRead(id)
    BY Names
<1>3. PICK W \in Name : W = canWrite(id) /\ W # R
    BY <1>2, Names
<1>4. k1 \in Kernels /\ k1.sems = k.sems /\ k1.asleep = k.asleep /\ k1.kb = k.kb
    BY <1>1, NewPipeIs, PipeUpdate DEF OnlyPipe
<1>5. k1.pipes[id] = NewPipe
    BY <1>1, NewPipeIs, PipeUpdate
<1>6. k1.sems[R] = NoSem /\ k1.sems[W] = NoSem
  <2>1. ~k.pipes[id].open
      BY OpenPipes
  <2> QED  BY <1>2, <1>3, <1>4, <2>1 DEF OpenedOf
<1>7. PICK k2 : k2 = semOpen(k1, R, 0)
    OBVIOUS
<1>8. k2 \in Kernels /\ k2.pipes = k1.pipes /\ k2.kb = k1.kb /\ k2.asleep = k1.asleep
    BY <1>4, <1>6, <1>7, FirstOpen
<1>9. (\A m \in Name \ {R} : k2.sems[m] = k1.sems[m]) /\ k2.sems[R].users = 1 /\ k2.sems[R].value = 0
      /\ LineOf(k2, R) = <<>>
    BY <1>4, <1>6, <1>7, FirstOpen
<1>10. h = semOpen(k2, W, 0)
    BY <1>1, <1>2, <1>3, <1>7 DEF createPipe, PipeSet
<1>11. k2.sems[W] = NoSem
    BY <1>3, <1>6, <1>9
<1>12. h \in Kernels /\ h.pipes = k2.pipes /\ h.kb = k2.kb /\ h.asleep = k2.asleep
    BY <1>8, <1>10, <1>11, FirstOpen
<1>13. (\A m \in Name \ {W} : h.sems[m] = k2.sems[m]) /\ h.sems[W].users = 1 /\ h.sems[W].value = 0
       /\ LineOf(h, W) = <<>>
    BY <1>8, <1>10, <1>11, FirstOpen
<1>14. h.sems[R] = k2.sems[R] /\ \A m \in Name \ {R, W} : h.sems[m] = k.sems[m]
    BY <1>3, <1>4, <1>9, <1>13
<1>15. h.pipes[id] = NewPipe /\ NewPipe.open
    BY <1>5, <1>8, <1>12, NewPipeIs, OpenPipes
<1>16. OpenedOf(h)
    BY <1>2, <1>3, <1>9, <1>13, <1>14, <1>15 DEF OpenedOf
<1>17. LineOf(h, R) = <<>> /\ \A m \in Name \ {R, W} : LineOf(h, m) = LineOf(k, m)
    BY <1>9, <1>14 DEF LineOf
<1>18. h.asleep = k.asleep
    BY <1>4, <1>8, <1>12
<1>19. LinesOf(h, l, r)
  <2>1. LineOf(h, canRead(id)) = <<>> /\ LineOf(h, canWrite(id)) = <<>>
      BY <1>2, <1>3, <1>13, <1>17
  <2>2. /\ LineOf(h, buffer_sem) = LineOf(k, buffer_sem)
        /\ LineOf(h, wait("L")) = LineOf(k, wait("L")) /\ LineOf(h, wait("R")) = LineOf(k, wait("R"))
      BY <1>2, <1>3, <1>17, Names
  <2> QED  BY <1>18, <2>1, <2>2 DEF LinesOf, InLine
<1>20. WokenOf(h, l, r)
    BY <1>2, <1>3, <1>9, <1>13, <1>14, <1>15, NewPipeIs DEF WokenOf
<1> QED  BY <1>4, <1>8, <1>12, <1>15, <1>16, <1>19, <1>20

LEMMA PipeOpenStep == ASSUME Inv, pipeOpen PROVE Inv'
<1>1. Kernel \in Kernels /\ LinesOf(Kernel, left, right) /\ OpenedOf(Kernel)
    BY InvPipe
<1>2. Types /\ Ordered /\ Printing /\ Typed
    BY DEF Inv
<1>3. /\ nextId = id /\ nextId' = nextId + 1 /\ shell' = "left" /\ Set(createPipe(Kernel, id))
      /\ UNCHANGED <<left, right, hand, lines, screen, keys, sent, received, stray, killed>>
    BY DEF pipeOpen, id
<1>4. left = "none" /\ right = "none" /\ sent = <<>> /\ ~ThePipe.open
    BY <1>2, <1>3 DEF Ordered, id
<1>5. received = <<>> /\ lines = 0 /\ screen = <<>>
    BY <1>2, <1>4 DEF Printing
<1>6. PICK k : k = createPipe(Kernel, id)
    OBVIOUS
<1>7. Kernel.pipes[id] = NoPipe
    BY <1>4, InvPipe
<1>8. k \in Kernels /\ k.kb = Kernel.kb /\ k.pipes[id] = NewPipe
    BY <1>1, <1>4, <1>6, <1>7, CreateFacts
<1>9. OpenedOf(k)
    BY <1>1, <1>4, <1>6, <1>7, CreateFacts
<1>10. LinesOf(k, left, right)
    BY <1>1, <1>4, <1>6, <1>7, CreateFacts
<1>11. WokenOf(k, left, right)
    BY <1>1, <1>4, <1>6, <1>7, CreateFacts
<1>12. Kernel' = k
    BY <1>3, <1>6, <1>8, SetIs
<1>13. ThePipe' = NewPipe /\ ThePipe'.open
    BY <1>8, <1>12, NewPipeIs, OpenPipes DEF ThePipe
<1>14. Types'
    BY <1>2, <1>3, <1>8, <1>12 DEF Types, keys
<1>15. Ordered'
  <2>1. nextId' # FirstId
      BY <1>3, Names DEF id
  <2> QED  BY <1>3, <1>4, <1>13, <2>1 DEF Ordered
<1>16. Counted'
    BY <1>3, <1>4, <1>13, NewPipeIs DEF Counted
<1>17. Opened' /\ Lines' /\ Woken'
    BY <1>3, <1>9, <1>10, <1>11, <1>12 DEF Opened, Lines, Woken
<1>18. Printing' /\ Ended'
    BY <1>3, <1>4, <1>5 DEF Printing, Ended, Reading, Exiting
<1>19. Delivered'
  <2>1. <<>> = <<>> \o <<>>
      OBVIOUS
  <2> QED  BY <1>3, <1>4, <1>5, <1>13, <2>1, NewPipeIs DEF Delivered
<1>20. Typed'
    BY <1>2, <1>3, <1>4, <1>8, <1>12, TypedSame DEF keys
<1> QED  BY <1>14, <1>15, <1>16, <1>17, <1>18, <1>19, <1>20 DEF Inv

\* The semaphore a process' end is waited for at.
LEMMA OpenWaitFacts ==
    ASSUME NEW k \in Kernels, NEW l, NEW r, LinesOf(k, l, r), NEW p \in {"L", "R"},
           NEW h, h = semOpen(k, wait(p), 0)
    PROVE  Aside(h, k) /\ LinesOf(h, l, r) /\ h.asleep = k.asleep
<1>1. wait(p) \in Name /\ wait(p) \notin {canRead(id), canWrite(id), buffer_sem}
    BY Names
<1>2. PICK n \in Name : n = wait(p)
    BY <1>1
<1>3. h \in Kernels /\ h.pipes = k.pipes /\ h.kb = k.kb /\ h.asleep = k.asleep
    BY <1>2, OpenFacts
<1>4. \A m \in Name \ {n} : h.sems[m] = k.sems[m]
    BY <1>2, OpenFacts
<1>5. \/ h.sems[n] = [users |-> 1, value |-> 0, blockedProcesses |-> <<>>]
      \/ LineOf(h, n) = LineOf(k, n)
    BY <1>2, OpenFacts
<1>6. LineOf(h, n) = <<>> \/ LineOf(h, n) = LineOf(k, n)
    BY <1>5 DEF LineOf
<1>7. Aside(h, k)
    BY <1>1, <1>2, <1>3, <1>4, Names DEF Aside
<1>8. LineOf(h, n) \in Seq({"S"})
  <2>1. <<>> \in Seq({"S"})
      OBVIOUS
  <2>2. LineOf(k, n) \in Seq({"S"})
      BY <1>2 DEF LinesOf
  <2> QED  BY <1>6, <2>1, <2>2
<1>9. \A m \in Name \ {n} : LineOf(h, m) = LineOf(k, m)
    BY <1>4 DEF LineOf
<1>10. LinesOf(h, l, r)
    BY <1>1, <1>2, <1>3, <1>8, <1>9, Names DEF LinesOf, InLine
<1> QED  BY <1>3, <1>7, <1>10

\* A pipe that only counts differently.
LEMMA CountedKeeps ==
    ASSUME NEW k \in Kernels, OpenedOf(k), k.pipes[id] \in PipeRecord, NEW l, NEW r, LinesOf(k, l, r),
           NEW h, OnlyPipe(h, k), h.pipes[id] \in PipeRecord,
           SameRing(h.pipes[id], k.pipes[id]), SameFlags(h.pipes[id], k.pipes[id])
    PROVE  /\ OpenedOf(h) /\ LinesOf(h, l, r)
           /\ WokenOf(k, l, r) => WokenOf(h, l, r)
<1>1. h.sems = k.sems /\ h.asleep = k.asleep /\ h.pipes[id].open /\ k.pipes[id].open
    BY OpenPipes DEF OnlyPipe
<1>2. OpenedOf(h)
    BY <1>1 DEF OpenedOf
<1>3. LinesOf(h, l, r)
    BY <1>1, LinesSame DEF LineOf
<1>4. WokenOf(k, l, r) => WokenOf(h, l, r)
  <2>1. /\ Empty(h.pipes[id]) <=> Empty(k.pipes[id])
        /\ Full(h.pipes[id]) <=> Full(k.pipes[id])
      BY DEF SameRing, Empty, Full
  <2>2. /\ h.pipes[id].waitingToRead <=> k.pipes[id].waitingToRead
        /\ h.pipes[id].waitingToWrite <=> k.pipes[id].waitingToWrite
      BY DEF SameFlags
  <2> QED  BY <1>1, <2>1, <2>2 DEF WokenOf, LineOf
<1> QED  BY <1>2, <1>3, <1>4

LEMMA CreateLeftStep == ASSUME Inv, createLeft PROVE Inv'
<1>1. Kernel \in Kernels /\ LinesOf(Kernel, left, right) /\ OpenedOf(Kernel)
    BY InvPipe
<1>2. Types /\ Ordered /\ Counted /\ Woken /\ Printing
    BY DEF Inv
<1>3. SameHistory /\ UNCHANGED <<nextId, right, killed>> /\ shell = "left" /\ shell' = "right"
    BY DEF createLeft, SameHistory, keys
<1>4. left = "none" /\ right = "none" /\ nextId # FirstId /\ ThePipe.open
    BY <1>2, <1>3 DEF Ordered
<1>5. Good' <=> Good
    BY <1>3 DEF Good, SameHistory
<1>6. Printing'
    BY <1>2, <1>3 DEF Printing, SameHistory
<1>7. PICK p \in PipeRecord : p = ThePipe /\ p = Kernel.pipes[id]
    BY <1>4, InvPipe
<1>8. CountsOf(p, "none", "none")
    BY <1>2, <1>4, <1>7 DEF Counted
<1>9. "L" \notin Kernel.asleep
    BY <1>1, <1>4, LinesMove
<1>10. right' = "none" /\ (right' \in Exiting \cup {"gone"} => right \in Exiting \cup {"gone"})
    BY <1>3, <1>4
<1>11. CASE left' = "failed" /\ UNCHANGED <<kernel, hand>>
  <2>1. Set(Kernel)
      BY <1>11 DEF Set, Kernel, kernel
  <2>2. LinesOf(Kernel, left', right')
      BY <1>1, <1>3, <1>9, LinesMove
  <2>3. CountsOf(p, left', right')
      BY <1>8, <1>10, <1>11 DEF CountsOf, IsOne, Writing
  <2>4. Placed'
      BY <1>2, <1>3, <1>11 DEF Placed, Types
  <2>5. Ordered'
      BY <1>3, <1>4, <1>11 DEF Ordered
  <2>6. Woken' /\ left' \notin Writing /\ left' # "take"
      BY <1>11 DEF Woken, Writing
  <2>7. SameRing(p, p)
      BY DEF SameRing
  <2> QED  BY <1>1, <1>3, <1>5, <1>6, <1>7, <1>10, <2>1, <2>2, <2>3, <2>4, <2>5, <2>6, <2>7, FrameStep
<1>12. CASE /\ Set(attachWriter(semOpen(Kernel, wait("L"), 0), id))
            /\ left' = (IF line.left = "cat" THEN "read" ELSE "write")
            /\ hand' = (IF line.left = "cat" THEN "nul" ELSE Head(Printed))
  <2>1. PICK h : h = semOpen(Kernel, wait("L"), 0)
      OBVIOUS
  <2>2. Aside(h, Kernel) /\ LinesOf(h, left, right) /\ h.asleep = Kernel.asleep
      BY <1>1, <2>1, OpenWaitFacts
  <2>3. h \in Kernels /\ h.kb = Kernel.kb /\ h.pipes[id] = p
      BY <1>7, <2>2 DEF Aside
  <2>4. OpenedOf(h)
      BY <1>1, <2>2, AsideOpened
  <2>5. h.pipes[id].open
      BY <2>3, OpenPipes
  <2>6. PICK k : k = attachWriter(h, id)
      OBVIOUS
  <2>7. OnlyPipe(k, h)
      BY <2>3, <2>5, <2>6, AttachFacts
  <2>8. k.pipes[id] \in PipeRecord /\ SameRing(k.pipes[id], p) /\ SameFlags(k.pipes[id], p)
      BY <2>3, <2>5, <2>6, AttachFacts
  <2>9. k.pipes[id].writers = p.writers + 1 /\ k.pipes[id].attached = p.attached + 1
        /\ k.pipes[id].readers = p.readers
      BY <2>3, <2>5, <2>6, AttachFacts
  <2>10. left' \in {"read", "write"}
      BY <1>12
  <2>11. CountsOf(k.pipes[id], left', right')
      BY <1>8, <1>10, <2>9, <2>10 DEF CountsOf, IsOne, Writing, Reading
  <2>12. LinesOf(h, left', right')
      BY <1>3, <1>9, <2>2, LinesMove
  <2>13. OpenedOf(k)
      BY <2>3, <2>4, <2>7, <2>8, <2>12, CountedKeeps
  <2>14. LinesOf(k, left', right')
      BY <2>3, <2>4, <2>7, <2>8, <2>12, CountedKeeps
  <2>15. k \in Kernels /\ k.kb = Kernel.kb
      BY <2>3, <2>7 DEF OnlyPipe
  <2>16. Set(k)
      BY <1>12, <2>1, <2>6
  <2>17. Kernel' = k /\ ThePipe' = k.pipes[id] /\ ThePipe'.open
      BY <2>8, <2>15, <2>16, SetIs, OpenPipes DEF ThePipe
  <2>18. hand' \in Byte
    <3>1. Head(Printed) \in STRING
        BY PipelineAssumption
    <3> QED  BY <1>12, <3>1 DEF Byte
  <2>19. Placed'
      BY <1>2, <1>3, <2>10, <2>18 DEF Placed, Types, Writing
  <2>20. Ordered'
      BY <1>3, <1>4, <2>10 DEF Ordered
  <2>21. Woken'
    <3>1. ASSUME Good PROVE WokenOf(k, left', right')
      <4>1. WokenOf(Kernel, left, right)
          BY <1>2, <1>4, <3>1 DEF Woken
      <4>2. WokenOf(h, left', right')
          BY <1>10, <2>2, <2>10, <4>1, WokenSame DEF Aside
      <4> QED  BY <2>3, <2>4, <2>7, <2>8, <2>12, <4>2, CountedKeeps
    <3> QED  BY <1>5, <2>17, <3>1 DEF Woken
  <2>22. left' # "take"
      BY <2>10
  <2> QED  BY <1>3, <1>5, <1>6, <1>7, <1>10, <2>8, <2>11, <2>13, <2>14, <2>15, <2>16, <2>19, <2>20, <2>21,
              <2>22, FrameStep
<1> QED  BY <1>11, <1>12 DEF createLeft

LEMMA CreateRightStep == ASSUME Inv, createRight PROVE Inv'
<1>1. Kernel \in Kernels /\ LinesOf(Kernel, left, right) /\ OpenedOf(Kernel)
    BY InvPipe
<1>2. Types /\ Ordered /\ Counted /\ Woken /\ Printing
    BY DEF Inv
<1>3. SameHistory /\ UNCHANGED <<nextId, left, hand, killed>> /\ shell = "right" /\ shell' \in {"waitL", "close"}
    BY DEF createRight, SameHistory, keys
<1>4. left # "none" /\ right = "none" /\ nextId # FirstId
    BY <1>2, <1>3 DEF Ordered
<1>5. received = <<>> /\ lines = 0 /\ screen = <<>>
    BY <1>2, <1>4 DEF Printing
<1>6. Good' => Good
    BY <1>3, <1>4 DEF Good, SameHistory
<1>7. "R" \notin Kernel.asleep
    BY <1>1, <1>4, LinesMove
<1>8. right' \in {"read", "failed"}
    BY DEF createRight
<1>9. Placed'
    BY <1>2, <1>3, <1>8 DEF Placed, Types, Reading
<1>10. Ordered'
    BY <1>3, <1>4, <1>8 DEF Ordered
<1>11. Printing'
    BY <1>3, <1>5, <1>8, NewlinesAppend, VowelsAppend DEF Printing, SameHistory, Reading
<1>12. right' \notin Exiting \cup {"gone"}
    BY <1>8 DEF Exiting
<1>13. (left' \in Writing => left \in Writing) /\ (left' = "take" => left = "take")
    BY <1>3
<1>14. CASE right' = "failed" /\ UNCHANGED kernel
  <2>1. Set(Kernel)
      BY <1>14 DEF Set, Kernel, kernel
  <2>2. LinesOf(Kernel, left', right')
      BY <1>1, <1>3, <1>7, LinesMove
  <2>3. Woken'
      BY <1>14 DEF Woken, Good
  <2>4. \/ Kernel.pipes[id] = NoPipe /\ left' \notin Writing \cup {"detach"}
        \/ /\ Kernel.pipes[id] \in PipeRecord /\ ThePipe \in PipeRecord
           /\ SameRing(Kernel.pipes[id], ThePipe) /\ CountsOf(Kernel.pipes[id], left', right')
    <3>1. CASE ThePipe = NoPipe
        BY <1>2, <1>3, <3>1, OpenPipes DEF Counted, ThePipe
    <3>2. CASE ThePipe \in PipeRecord
      <4>1. CountsOf(ThePipe, left, right)
          BY <1>2, <3>2, OpenPipes DEF Counted
      <4>2. CountsOf(ThePipe, left', right')
          BY <1>3, <1>4, <1>14, <4>1 DEF CountsOf, IsOne, Reading
      <4> QED  BY <3>2, <4>2, OpenPipes DEF ThePipe
    <3> QED  BY <3>1, <3>2, InvPipe
  <2> QED  BY <1>1, <1>3, <1>6, <1>9, <1>10, <1>11, <1>12, <1>13, <2>1, <2>2, <2>3, <2>4, FrameStep
<1>15. CASE Set(attachReader(semOpen(Kernel, wait("R"), 0), id)) /\ right' = "read"
  <2>1. PICK h : h = semOpen(Kernel, wait("R"), 0)
      OBVIOUS
  <2>2. Aside(h, Kernel) /\ LinesOf(h, left, right) /\ h.asleep = Kernel.asleep
      BY <1>1, <2>1, OpenWaitFacts
  <2>3. h \in Kernels /\ h.kb = Kernel.kb /\ h.pipes[id] = ThePipe
      BY <2>2 DEF Aside, ThePipe
  <2>4. OpenedOf(h)
      BY <1>1, <2>2, AsideOpened
  <2>5. LinesOf(h, left', right')
      BY <1>3, <1>7, <2>2, LinesMove
  <2>6. PICK k : k = attachReader(h, id)
      OBVIOUS
  <2>7. Set(k)
      BY <1>15, <2>1, <2>6
  <2>8. CASE ~ThePipe.open
    <3>1. k = h
        BY <2>3, <2>6, <2>8, PipeIs DEF attachReader
    <3>2. k.pipes[id] = NoPipe /\ left' \notin Writing \cup {"detach"}
        BY <1>2, <1>3, <2>3, <2>8, <3>1, InvPipe DEF Counted
    <3>3. Woken'
        BY <1>4, <1>3, <3>2 DEF Woken
    <3> QED  BY <1>3, <1>6, <1>9, <1>10, <1>11, <1>12, <1>13, <2>3, <2>4, <2>5, <2>7, <3>1, <3>2, <3>3,
                FrameStep
  <2>9. CASE ThePipe.open
    <3>1. PICK p \in PipeRecord : p = ThePipe /\ p = h.pipes[id]
        BY <2>3, <2>9, InvPipe
    <3>2. h.pipes[id].open
        BY <2>3, <2>9
    <3>3. OnlyPipe(k, h)
        BY <2>3, <2>6, <3>2, AttachFacts
    <3>4. k.pipes[id] \in PipeRecord /\ SameRing(k.pipes[id], p) /\ SameFlags(k.pipes[id], p)
        BY <2>3, <2>6, <3>1, <3>2, AttachFacts
    <3>5. k.pipes[id].readers = p.readers + 1 /\ k.pipes[id].attached = p.attached + 1
          /\ k.pipes[id].writers = p.writers
        BY <2>3, <2>6, <3>1, <3>2, AttachFacts
    <3>6. CountsOf(p, left, "none")
        BY <1>2, <1>4, <2>9, <3>1 DEF Counted
    <3>7. p.writers \in Nat
        BY DEF PipeRecord
    <3>8. CountsOf(k.pipes[id], left', right')
        BY <1>3, <1>15, <3>5, <3>6, <3>7 DEF CountsOf, IsOne, Reading
    <3>9. OpenedOf(k)
        BY <2>3, <2>4, <2>5, <3>1, <3>3, <3>4, CountedKeeps
    <3>10. LinesOf(k, left', right')
        BY <2>3, <2>4, <2>5, <3>1, <3>3, <3>4, CountedKeeps
    <3>11. k \in Kernels /\ k.kb = Kernel.kb
        BY <2>3, <3>3 DEF OnlyPipe
    <3>12. Kernel' = k
        BY <2>7, <3>11, SetIs
    <3>13. Woken'
      <4>1. ASSUME Good, left \in Writing \cup {"none"} PROVE WokenOf(k, left', right')
        <5>1. WokenOf(Kernel, left, right)
            BY <1>2, <2>9, <4>1 DEF Woken
        <5>2. WokenOf(h, left', right')
            BY <1>3, <1>15, <2>2, <5>1, WokenSame DEF Aside
        <5> QED  BY <2>3, <2>4, <2>5, <3>1, <3>3, <3>4, <5>2, CountedKeeps
      <4> QED  BY <1>3, <1>6, <3>12, <4>1 DEF Woken
    <3> QED  BY <1>3, <1>6, <1>9, <1>10, <1>11, <1>12, <1>13, <2>7, <3>1, <3>4, <3>8, <3>9, <3>10, <3>11, <3>13,
                FrameStep
  <2> QED  BY <2>8, <2>9
<1> QED  BY <1>14, <1>15 DEF createRight

-----------------------------------------------------------------------------
(* The left command reads the keyboard.                                     *)

LEMMA ReadStep ==
    ASSUME Inv, NEW k \in Kernels, Set(k), k.pipes = Kernel.pipes,
           k.sems[canRead(id)] = Kernel.sems[canRead(id)], k.sems[canWrite(id)] = Kernel.sems[canWrite(id)],
           LinesOf(k, left', right), "R" \in Kernel.asleep => "R" \in k.asleep,
           left \in {"read", "loop", "take"}, left' \in {"loop", "take", "write", "detach"},
           hand' \in Byte, read' \in Seq(Byte), Typed',
           UNCHANGED <<nextId, shell, right, line, lines, screen, sent, received, stray, killed>>
    PROVE  Inv'
<1>1. Types /\ Ordered /\ Counted /\ Opened /\ Woken /\ Printing /\ Ended /\ Delivered
    BY DEF Inv
<1>2. Kernel' = k
    BY SetIs
<1>3. ThePipe' = ThePipe
    BY <1>2 DEF ThePipe
<1>4. Good' = Good
    BY DEF Good
<1>5. left \in Writing /\ left # "none" /\ left' # "none" /\ left' \in Writing \cup {"detach"}
    BY DEF Writing
<1>6. Types'
    BY <1>1, <1>2 DEF Types, Writing, Exiting
<1>7. Ordered'
    BY <1>1, <1>3, <1>5 DEF Ordered
<1>8. Counted'
  <2>1. ThePipe.open /\ CountsOf(ThePipe, left, right)
      BY <1>1, <1>5 DEF Counted
  <2>2. CountsOf(ThePipe, left', right)
      BY <1>5, <2>1 DEF CountsOf
  <2> QED  BY <1>3, <2>1, <2>2 DEF Counted
<1>9. Opened' /\ Lines'
  <2>1. OpenedOf(k)
      BY <1>1 DEF Opened, OpenedOf
  <2> QED  BY <1>2, <2>1 DEF Opened, Lines
<1>10. Woken'
  <2>1. ASSUME Good, ThePipe.open PROVE WokenOf(k, left', right)
    <3>1. WokenOf(Kernel, left, right)
        BY <1>1, <1>5, <2>1 DEF Woken
    <3>2. left' # "put" /\ k.pipes[id] = Kernel.pipes[id]
        OBVIOUS
    <3> QED  BY <3>1, <3>2, WokenSame
  <2> QED  BY <1>2, <1>3, <1>4, <2>1 DEF Woken
<1>11. Printing' /\ Ended'
    BY <1>1, <1>4, <1>5 DEF Printing, Ended
<1>12. Delivered'
    BY <1>1, <1>3, <1>4 DEF Delivered
<1> QED  BY <1>6, <1>7, <1>8, <1>9, <1>10, <1>11, <1>12 DEF Inv

\* What is taken off one sequence goes onto the other.
LEMMA TakeJoin ==
    ASSUME NEW s \in Seq(Byte), NEW u \in Seq(Byte), NEW c \in Byte
    PROVE  s \o (<<c>> \o u) = Append(s, c) \o u
<1>1. <<c>> \in Seq(Byte)
    OBVIOUS
<1>2. (s \o <<c>>) \o u = s \o (<<c>> \o u) /\ s \o <<c>> = Append(s, c)
    BY <1>1, JoinFacts, SMTT(40)
<1> QED  BY <1>2

\* The reader's flag.
LEMMA EnterFacts ==
    ASSUME NEW k \in Kernels, NEW l, NEW r, LinesOf(k, l, r), NEW h, h = getKeyboardCharacter_enter(k)
    PROVE  /\ Beside(h, k, l) /\ LinesOf(h, l, r)
           /\ Held(h.kb) = Held(k.kb) /\ Length(h.kb) = Length(k.kb)
<1>1. PICK q \in KbRecord : q = k.kb
    BY KbIs
<1>2. PICK t : t = [q EXCEPT !.reading = TRUE]
    OBVIOUS
<1>3. t \in KbRecord /\ t.buffer = q.buffer /\ t.to_read = q.to_read /\ t.to_write = q.to_write
    BY <1>2 DEF KbRecord
<1>4. h = KbSet(k, t)
    BY <1>1, <1>2 DEF getKeyboardCharacter_enter, KbSet
<1>5. Beside(h, k, l)
    BY <1>3, <1>4, KbUpdate
<1>6. LinesOf(h, l, r)
    BY <1>3, <1>4, KbUpdate
<1>7. h.kb = t
    BY <1>3, <1>4, KbUpdate
<1> QED  BY <1>1, <1>3, <1>5, <1>6, <1>7 DEF Held, Length

\* The first character leaves the ring.
LEMMA TakeCharFacts ==
    ASSUME NEW k \in Kernels, NEW l, NEW r, LinesOf(k, l, r), NEW h, h = getKeyboardCharacter_take(k),
           NEW c, c = getKeyboardCharacter_char(k)
    PROVE  /\ Beside(h, k, l) /\ LinesOf(h, l, r) /\ c \in Byte
           /\ Length(k.kb) # 0 => Held(k.kb) = <<c>> \o Held(h.kb)
<1>1. PICK q \in KbRecord : q = k.kb
    BY KbIs
<1>2. BUFFER_SIZE \in Nat \ {0}
    BY KeyboardAssumption
<1>3. PICK B \in Nat \ {0} : B = BUFFER_SIZE
    BY <1>2
<1>4. PICK w \in 0..(B - 1) : w = q.to_write
    BY <1>3 DEF KbRecord, Place
<1>5. PICK o \in 0..(B - 1) : o = q.to_read
    BY <1>3 DEF KbRecord, Place
<1>6. PICK b \in [0..(B - 1) -> Byte] : b = q.buffer
    BY <1>3 DEF KbRecord, Place
<1>7. PICK v \in 0..(B - 1) : v = (o + 1) % B
    OBVIOUS
<1>8. PICK q1 : q1 = [q EXCEPT !.reading = FALSE]
    OBVIOUS
<1>9. PICK t : t = [q1 EXCEPT !.to_read = v]
    OBVIOUS
<1>10. t \in KbRecord /\ t.buffer = b /\ t.to_read = v /\ t.to_write = w
    BY <1>3, <1>4, <1>6, <1>8, <1>9 DEF KbRecord, Place
<1>11. h = KbSet(k, t)
  <2>1. PICK h1 : h1 = KbSet(k, q1)
      OBVIOUS
  <2>2. h1.kb = q1 /\ KbSet(h1, t) = KbSet(k, t)
      BY <2>1 DEF KbSet, Kernels
  <2>3. h1 = [k EXCEPT !.kb.reading = FALSE]
      BY <1>1, <1>8, <2>1 DEF KbSet
  <2>4. KbSet(h1, t) = [h1 EXCEPT !.kb.to_read = v]
      BY <1>9, <2>2 DEF KbSet
  <2>5. h = [k EXCEPT !.kb.reading = FALSE, !.kb.to_read = v]
      BY <1>1, <1>3, <1>5, <1>7 DEF getKeyboardCharacter_take, INC_MOD
  <2> QED  BY <2>2, <2>3, <2>4, <2>5
<1>12. Beside(h, k, l)
    BY <1>10, <1>11, KbUpdate
<1>13. LinesOf(h, l, r)
    BY <1>10, <1>11, KbUpdate
<1>14. h.kb = t
    BY <1>10, <1>11, KbUpdate
<1>15. c = b[o] /\ c \in Byte
    BY <1>1, <1>5, <1>6 DEF getKeyboardCharacter_char
<1>16. ASSUME Length(q) # 0 PROVE Held(q) = <<c>> \o Held(t)
  <2>1. o # w
      BY <1>3, <1>4, <1>5, <1>16 DEF Length, RingLen
  <2>2. Ring(b, o, w, B) = <<b[o]>> \o Ring(b, (o + 1) % B, w, B)
      BY <2>1, RingTake
  <2> QED  BY <1>3, <1>4, <1>5, <1>6, <1>7, <1>10, <1>15, <2>2 DEF Held
<1> QED  BY <1>1, <1>12, <1>13, <1>14, <1>15, <1>16

LEMMA CatReadStep == ASSUME Inv, cat_read PROVE Inv'
<1>1. Kernel \in Kernels /\ LinesOf(Kernel, left, right)
    BY InvPipe
<1>2. /\ UNCHANGED <<nextId, shell, right, line, lines, screen, sent, received, stray, killed>>
      /\ UNCHANGED <<typed, broken>> /\ "L" \notin Kernel.asleep
    BY KernelFields DEF cat_read
<1>3. Types /\ Typed
    BY DEF Inv
<1>4. hand \in Byte /\ read \in Seq(Byte)
    BY <1>3 DEF Types
<1>5. CASE left = "read" /\ left' = "loop" /\ Set(getKeyboardCharacter_enter(Kernel)) /\ UNCHANGED <<hand, read>>
  <2>1. PICK k : k = getKeyboardCharacter_enter(Kernel)
      OBVIOUS
  <2>2. Beside(k, Kernel, left)
      BY <1>1, <2>1, EnterFacts
  <2>3. LinesOf(k, left, right)
      BY <1>1, <2>1, EnterFacts
  <2>4. Held(k.kb) = Held(Kernel.kb)
      BY <1>1, <2>1, EnterFacts
  <2>5. /\ k \in Kernels /\ k.pipes = Kernel.pipes
        /\ k.sems[canRead(id)] = Kernel.sems[canRead(id)] /\ k.sems[canWrite(id)] = Kernel.sems[canWrite(id)]
        /\ ("R" \in Kernel.asleep => "R" \in k.asleep) /\ "L" \notin k.asleep
      BY <1>2, <2>2, Names DEF Beside
  <2>6. LinesOf(k, left', right)
      BY <2>3, <2>5, LinesMove
  <2>7. Set(k)
      BY <1>5, <2>1
  <2>8. Typed'
      BY <1>2, <1>3, <1>5, <2>4, <2>5, <2>7, SetIs DEF Typed
  <2> QED  BY <1>2, <1>4, <1>5, <2>5, <2>6, <2>7, <2>8, ReadStep
<1>6. CASE left = "loop" /\ Set(getKeyboardCharacter_wait(Kernel, "L")) /\ UNCHANGED <<left, hand, read>>
  <2>1. PICK k : k = semWait(Kernel, buffer_sem, "L")
      OBVIOUS
  <2>2. buffer_sem \in Name /\ "L" \in Process
      BY Names DEF Process
  <2>3. k \in Kernels /\ k.pipes = Kernel.pipes /\ k.kb = Kernel.kb
      BY <1>1, <2>1, <2>2, WaitFacts
  <2>4. \A m \in Name \ {buffer_sem} : k.sems[m] = Kernel.sems[m]
      BY <1>1, <2>1, <2>2, WaitFacts
  <2>5. \/ LineOf(k, buffer_sem) = Append(LineOf(Kernel, buffer_sem), "L") /\ k.asleep = Kernel.asleep \cup {"L"}
        \/ LineOf(k, buffer_sem) = LineOf(Kernel, buffer_sem) /\ k.asleep = Kernel.asleep
      BY <1>1, <2>1, <2>2, WaitFacts
  <2>6. LineOf(Kernel, buffer_sem) = <<>>
      BY <1>1, <1>2, LinesMove
  <2>7. \/ LineOf(k, buffer_sem) = <<"L">> /\ k.asleep = Kernel.asleep \cup {"L"}
        \/ LineOf(k, buffer_sem) = <<>> /\ k.asleep = Kernel.asleep
      BY <2>5, <2>6, Singles
  <2>8. \A m \in Name \ {buffer_sem} : LineOf(k, m) = LineOf(Kernel, m)
      BY <2>4 DEF LineOf
  <2>9. LinesOf(k, left', right)
      BY <1>1, <1>2, <1>6, <2>7, <2>8, Names DEF LinesOf, InLine
  <2>10. /\ k.sems[canRead(id)] = Kernel.sems[canRead(id)] /\ k.sems[canWrite(id)] = Kernel.sems[canWrite(id)]
         /\ ("R" \in Kernel.asleep => "R" \in k.asleep)
      BY <2>4, <2>7, Names
  <2>11. Set(k)
      BY <1>6, <2>1 DEF getKeyboardCharacter_wait
  <2>12. Typed'
      BY <1>2, <1>3, <1>6, <2>3, <2>11, SetIs DEF Typed
  <2> QED  BY <1>2, <1>4, <1>6, <2>3, <2>9, <2>10, <2>11, <2>12, ReadStep
<1>7. CASE left = "loop" /\ LineReady(kb) /\ left' = "take" /\ UNCHANGED <<kernel, hand, read>>
  <2>1. Set(Kernel)
      BY <1>7 DEF Set, Kernel, kernel
  <2>2. LinesOf(Kernel, left', right)
      BY <1>1, <1>2, LinesMove
  <2>3. Length(Kernel.kb) # 0
    <3>1. ~BufferEmpty(Kernel.kb)
        BY <1>7, KernelFields DEF LineReady
    <3>2. Kernel.kb \in KbRecord
        BY <1>1, KbIs
    <3> QED  BY <3>1, <3>2, HeldIs
  <2>4. Typed'
      BY <1>1, <1>2, <1>3, <1>7, <2>1, <2>3, SetIs DEF Typed
  <2> QED  BY <1>1, <1>2, <1>4, <1>7, <2>1, <2>2, <2>4, ReadStep
<1>8. CASE /\ left = "take" /\ hand' = getKeyboardCharacter_char(Kernel) /\ read' = Append(read, hand')
           /\ left' = (IF hand' = EOF THEN "detach" ELSE "write") /\ Set(getKeyboardCharacter_take(Kernel))
  <2>1. PICK k : k = getKeyboardCharacter_take(Kernel)
      OBVIOUS
  <2>2. PICK c : c = getKeyboardCharacter_char(Kernel)
      OBVIOUS
  <2>3. Beside(k, Kernel, left)
      BY <1>1, <2>1, <2>2, TakeCharFacts
  <2>4. LinesOf(k, left, right)
      BY <1>1, <2>1, <2>2, TakeCharFacts
  <2>5. c \in Byte /\ (Length(Kernel.kb) # 0 => Held(Kernel.kb) = <<c>> \o Held(k.kb))
      BY <1>1, <2>1, <2>2, TakeCharFacts
  <2>6. /\ k \in Kernels /\ k.pipes = Kernel.pipes
        /\ k.sems[canRead(id)] = Kernel.sems[canRead(id)] /\ k.sems[canWrite(id)] = Kernel.sems[canWrite(id)]
        /\ ("R" \in Kernel.asleep => "R" \in k.asleep) /\ "L" \notin k.asleep
      BY <1>2, <2>3, Names DEF Beside
  <2>7. LinesOf(k, left', right)
      BY <2>4, <2>6, LinesMove
  <2>8. Set(k) /\ hand' = c /\ read' = Append(read, c) /\ left' \in {"detach", "write"}
      BY <1>8, <2>1, <2>2
  <2>9. Held(k.kb) \in Seq(Byte)
      BY <2>6, KbIs, HeldIs
  <2>10. read \o (<<c>> \o Held(k.kb)) = Append(read, c) \o Held(k.kb)
      BY <1>4, <2>5, <2>9, TakeJoin
  <2>11. Typed'
      BY <1>2, <1>3, <1>8, <2>5, <2>6, <2>8, <2>10, SetIs DEF Typed
  <2>12. read' \in Seq(Byte)
      BY <1>4, <2>5, <2>8
  <2> QED  BY <1>2, <1>8, <2>5, <2>6, <2>7, <2>8, <2>11, <2>12, ReadStep
<1> QED  BY <1>5, <1>6, <1>7, <1>8 DEF cat_read

-----------------------------------------------------------------------------
(* The bytes of the pipe.                                                   *)

\* Whoever posts at the pipe changes neither its bytes nor its counts.
Posted(h, k) == /\ h \in Kernels /\ h.kb = k.kb /\ OpenedOf(h) /\ h.pipes[id] \in PipeRecord
                /\ SameRing(h.pipes[id], k.pipes[id]) /\ SameCounts(h.pipes[id], k.pipes[id])

\* A writer's post wakes the reader to a byte, and a reader's the writer to a place.
LEMMA WritePostFacts ==
    ASSUME NEW k \in Kernels, OpenedOf(k), NEW p \in PipeRecord, k.pipes[id] = p,
           NEW l, NEW r, LinesOf(k, l, r), NEW h, h = writePipe_post(k, id)
    PROVE  /\ Posted(h, k) /\ LinesOf(h, l, r)
           /\ WokenOf(k, l, r) /\ (p.waitingToRead => ~Empty(p)) => WokenOf(h, l, r)
<1>1. CASE ~p.waitingToRead
  <2>1. h = k
      BY <1>1 DEF writePipe_post
  <2>2. Posted(k, k)
      BY OpenPipes DEF Posted
  <2> QED  BY <2>1, <2>2
<1>2. CASE p.waitingToRead
  <2>1. PICK b \in BOOLEAN : b = FALSE
      OBVIOUS
  <2>2. PICK f : f = FlagRead(k, b)
      OBVIOUS
  <2>3. PICK R \in Name : R = canRead(id)
      BY Names
  <2>4. h = semPost(f, R)
      BY <1>2, <2>1, <2>2, <2>3 DEF writePipe_post, FlagRead
  <2>5. PICK g : g = FlagWrite(k, b)
      OBVIOUS
  <2>6. f \in Kernels /\ f.sems = k.sems /\ f.asleep = k.asleep /\ f.kb = k.kb
      BY <2>2, <2>5, FlagFacts
  <2>7. f.pipes[id] \in PipeRecord
      BY <2>2, <2>5, FlagFacts
  <2>8. SameRing(f.pipes[id], p)
      BY <2>2, <2>5, FlagFacts
  <2>9. SameCounts(f.pipes[id], p)
      BY <2>2, <2>5, FlagFacts
  <2>10. f.pipes[id].waitingToRead = b /\ f.pipes[id].waitingToWrite = p.waitingToWrite
      BY <2>2, <2>5, FlagFacts
  <2>11. f.pipes[id].open /\ k.pipes[id].open
      BY <2>7, OpenPipes
  <2>12. OpenedOf(f)
      BY <2>6, <2>11 DEF OpenedOf
  <2>13. LinesOf(f, l, r)
      BY <2>6, LinesSame DEF LineOf
  <2>14. h \in Kernels /\ h.pipes = f.pipes /\ h.kb = f.kb
      BY <2>4, <2>6, PostKeeps
  <2>15. \A m \in Name \ {R} : h.sems[m] = f.sems[m]
      BY <2>4, <2>6, PostKeeps
  <2>16. OpenedOf(h)
      BY <2>3, <2>4, <2>6, <2>11, <2>12, <2>13, PipePost
  <2>17. LinesOf(h, l, r)
      BY <2>3, <2>4, <2>6, <2>11, <2>12, <2>13, PipePost
  <2>18. Posted(h, k)
      BY <2>6, <2>7, <2>8, <2>9, <2>14, <2>16 DEF Posted
  <2>19. ASSUME WokenOf(k, l, r), ~Empty(p) PROVE WokenOf(h, l, r)
    <3>1. k.sems[R].value = 0 /\ k.sems[canWrite(id)].value = 0 /\ LineOf(k, R) = <<"R">>
        BY <1>2, <2>3, <2>19 DEF WokenOf
    <3>2. LineOf(f, R) = <<"R">> /\ f.sems[R].users > 0 /\ LineOf(f, R) # <<>>
        BY <2>3, <2>6, <2>11, <2>12, <3>1, Singles DEF LineOf, OpenedOf
    <3>3. h.sems[R].value = f.sems[R].value /\ h.asleep = f.asleep \ {Head(LineOf(f, R))}
      <4>1. f \in Kernels /\ R \in Name /\ f.sems[R].users > 0 /\ LineOf(f, R) # <<>>
          BY <2>6, <3>2
      <4>2. h.sems[R].value = f.sems[R].value
          BY <2>4, <4>1, PostFacts
      <4>3. h.asleep = f.asleep \ {Head(LineOf(f, R))}
          BY <2>4, <4>1, PostFacts
      <4> QED  BY <4>2, <4>3
    <3>4. h.sems[R].value = 0 /\ h.asleep = k.asleep \ {"R"}
        BY <2>6, <3>1, <3>2, <3>3, Singles
    <3>5. h.sems[canWrite(id)] = k.sems[canWrite(id)]
        BY <2>3, <2>6, <2>15, Names
    <3>6. h.pipes[id].waitingToRead = FALSE /\ h.pipes[id].waitingToWrite = p.waitingToWrite
        BY <2>1, <2>10, <2>14
    <3>7. ~Empty(h.pipes[id]) /\ (Full(h.pipes[id]) <=> Full(p))
        BY <2>8, <2>14, <2>19 DEF SameRing, Empty, Full
    <3> QED  BY <2>3, <2>19, <3>1, <3>4, <3>5, <3>6, <3>7 DEF WokenOf, LineOf
  <2> QED  BY <1>2, <2>17, <2>18, <2>19
<1> QED  BY <1>1, <1>2

LEMMA ReadPostFacts ==
    ASSUME NEW k \in Kernels, OpenedOf(k), NEW p \in PipeRecord, k.pipes[id] = p,
           NEW l, NEW r, LinesOf(k, l, r), NEW h, h = readPipe_post(k, id)
    PROVE  /\ Posted(h, k) /\ LinesOf(h, l, r)
           /\ WokenOf(k, l, r) /\ (p.waitingToWrite => ~Full(p)) => WokenOf(h, l, r)
<1>1. CASE ~p.waitingToWrite
  <2>1. h = k
      BY <1>1 DEF readPipe_post
  <2>2. Posted(k, k)
      BY OpenPipes DEF Posted
  <2> QED  BY <2>1, <2>2
<1>2. CASE p.waitingToWrite
  <2>1. PICK b \in BOOLEAN : b = FALSE
      OBVIOUS
  <2>2. PICK f : f = FlagWrite(k, b)
      OBVIOUS
  <2>3. PICK W \in Name : W = canWrite(id)
      BY Names
  <2>4. h = semPost(f, W)
      BY <1>2, <2>1, <2>2, <2>3 DEF readPipe_post, FlagWrite
  <2>5. PICK g : g = FlagRead(k, b)
      OBVIOUS
  <2>6. f \in Kernels /\ f.sems = k.sems /\ f.asleep = k.asleep /\ f.kb = k.kb
      BY <2>2, <2>5, FlagFacts
  <2>7. f.pipes[id] \in PipeRecord
      BY <2>2, <2>5, FlagFacts
  <2>8. SameRing(f.pipes[id], p)
      BY <2>2, <2>5, FlagFacts
  <2>9. SameCounts(f.pipes[id], p)
      BY <2>2, <2>5, FlagFacts
  <2>10. f.pipes[id].waitingToWrite = b /\ f.pipes[id].waitingToRead = p.waitingToRead
      BY <2>2, <2>5, FlagFacts
  <2>11. f.pipes[id].open /\ k.pipes[id].open
      BY <2>7, OpenPipes
  <2>12. OpenedOf(f)
      BY <2>6, <2>11 DEF OpenedOf
  <2>13. LinesOf(f, l, r)
      BY <2>6, LinesSame DEF LineOf
  <2>14. h \in Kernels /\ h.pipes = f.pipes /\ h.kb = f.kb
      BY <2>4, <2>6, PostKeeps
  <2>15. \A m \in Name \ {W} : h.sems[m] = f.sems[m]
      BY <2>4, <2>6, PostKeeps
  <2>16. OpenedOf(h)
      BY <2>3, <2>4, <2>6, <2>11, <2>12, <2>13, PipePost
  <2>17. LinesOf(h, l, r)
      BY <2>3, <2>4, <2>6, <2>11, <2>12, <2>13, PipePost
  <2>18. Posted(h, k)
      BY <2>6, <2>7, <2>8, <2>9, <2>14, <2>16 DEF Posted
  <2>19. ASSUME WokenOf(k, l, r), ~Full(p) PROVE WokenOf(h, l, r)
    <3>1. k.sems[W].value = 0 /\ k.sems[canRead(id)].value = 0 /\ LineOf(k, W) = <<"L">>
        BY <1>2, <2>3, <2>19 DEF WokenOf
    <3>2. LineOf(f, W) = <<"L">> /\ f.sems[W].users > 0 /\ LineOf(f, W) # <<>>
        BY <2>3, <2>6, <2>11, <2>12, <3>1, Singles DEF LineOf, OpenedOf
    <3>3. h.sems[W].value = f.sems[W].value /\ h.asleep = f.asleep \ {Head(LineOf(f, W))}
      <4>1. f \in Kernels /\ W \in Name /\ f.sems[W].users > 0 /\ LineOf(f, W) # <<>>
          BY <2>6, <3>2
      <4>2. h.sems[W].value = f.sems[W].value
          BY <2>4, <4>1, PostFacts
      <4>3. h.asleep = f.asleep \ {Head(LineOf(f, W))}
          BY <2>4, <4>1, PostFacts
      <4> QED  BY <4>2, <4>3
    <3>4. h.sems[W].value = 0 /\ h.asleep = k.asleep \ {"L"}
        BY <2>6, <3>1, <3>2, <3>3, Singles
    <3>5. h.sems[canRead(id)] = k.sems[canRead(id)]
        BY <2>3, <2>6, <2>15, Names
    <3>6. h.pipes[id].waitingToWrite = FALSE /\ h.pipes[id].waitingToRead = p.waitingToRead
        BY <2>1, <2>10, <2>14
    <3>7. ~Full(h.pipes[id]) /\ (Empty(h.pipes[id]) <=> Empty(p))
        BY <2>8, <2>14, <2>19 DEF SameRing, Empty, Full
    <3> QED  BY <2>3, <2>19, <3>1, <3>4, <3>5, <3>6, <3>7 DEF WokenOf, LineOf
  <2> QED  BY <1>2, <2>17, <2>18, <2>19
<1> QED  BY <1>1, <1>2

\* A byte put into a pipe with a place for it, and a byte taken out of one that
\* is not empty.
HasPut(q, p, c) == /\ q.buffer = [p.buffer EXCEPT ![p.idxToWrite] = c]
                   /\ q.idxToRead = p.idxToRead /\ q.idxToWrite = NEXT_IDX(p.idxToWrite)
HasTaken(q, p) == /\ q.buffer = p.buffer /\ q.idxToWrite = p.idxToWrite
                  /\ q.idxToRead = NEXT_IDX(p.idxToRead)
LEMMA ByteFacts ==
    ASSUME NEW p \in PipeRecord
    PROVE  /\ \A q \in PipeRecord, c \in Byte :
                 HasPut(q, p, c) /\ ~Full(p) => ~Empty(q) /\ RingOf(q) = Append(RingOf(p), c)
           /\ \A q \in PipeRecord : HasTaken(q, p) /\ ~Empty(p) =>
                 /\ ~Full(q) /\ p.buffer[p.idxToRead] \in Byte
                 /\ RingOf(p) = <<p.buffer[p.idxToRead]>> \o RingOf(q)
           /\ RingOf(p) \in Seq(Byte) /\ (Empty(p) => RingOf(p) = <<>>)
<1>0. PIPE_BUFFER_SIZE \in Nat \ {0} /\ PIPE_BUFFER_SIZE > 1
    BY PipeAssumption
<1>1. PICK B \in Nat \ {0} : B = PIPE_BUFFER_SIZE /\ B > 1
    BY <1>0
<1>2. PICK w \in 0..(B - 1) : w = p.idxToWrite
    BY <1>1 DEF PipeRecord, Index
<1>3. PICK r \in 0..(B - 1) : r = p.idxToRead
    BY <1>1 DEF PipeRecord, Index
<1>4. PICK b \in [0..(B - 1) -> Byte] : b = p.buffer
    BY <1>1 DEF PipeRecord, Index
<1>5. Full(p) <=> w = (IF r = 0 THEN B - 1 ELSE r - 1)
    BY <1>1, <1>2, <1>3 DEF Full, PREVIOUS_IDX
<1>6. RingOf(p) = Ring(b, r, w, B)
    BY <1>1, <1>2, <1>3, <1>4 DEF RingOf
<1>7. ASSUME NEW q \in PipeRecord, NEW c \in Byte, ~Full(p), HasPut(q, p, c)
      PROVE  ~Empty(q) /\ RingOf(q) = Append(RingOf(p), c)
  <2>1. PICK v : v = (w + 1) % B
      OBVIOUS
  <2>2. v = (IF w = B - 1 THEN 0 ELSE w + 1)
      BY <2>1, RingLength
  <2>3. v \in 0..(B - 1) /\ v # r
      BY <1>5, <1>7, <2>2
  <2>4. PICK d \in [0..(B - 1) -> Byte] : d = [b EXCEPT ![w] = c]
      BY <1>7
  <2>5. d[w] = c /\ \A i \in 0..(B - 1) : i # w => d[i] = b[i]
      BY <2>4
  <2>6. PutIn(b, r, w, B, c, d, v)
      BY <1>7, <2>2, <2>3, <2>5 DEF PutIn
  <2>7. Ring(d, r, v, B) = Append(Ring(b, r, w, B), c)
      BY <2>6, RingPut
  <2>8. q.idxToWrite = v /\ q.idxToRead = r /\ q.buffer = d
      BY <1>1, <1>2, <1>3, <1>4, <1>7, <2>1, <2>4 DEF NEXT_IDX, HasPut
  <2> QED  BY <1>1, <1>6, <2>3, <2>7, <2>8 DEF RingOf, Empty
<1>8. ASSUME NEW q \in PipeRecord, ~Empty(p), HasTaken(q, p)
      PROVE  /\ ~Full(q) /\ p.buffer[p.idxToRead] \in Byte
             /\ RingOf(p) = <<p.buffer[p.idxToRead]>> \o RingOf(q)
  <2>1. PICK o : o = (r + 1) % B
      OBVIOUS
  <2>2. o = (IF r = B - 1 THEN 0 ELSE r + 1)
      BY <2>1, RingLength
  <2>3. r # w
      BY <1>2, <1>3, <1>8 DEF Empty
  <2>4. Ring(b, r, w, B) = <<b[r]>> \o Ring(b, o, w, B)
      BY <2>1, <2>3, RingTake
  <2>5. q.idxToRead = o /\ q.idxToWrite = w /\ q.buffer = b
      BY <1>1, <1>2, <1>3, <1>4, <1>8, <2>1 DEF NEXT_IDX, HasTaken
  <2>6. w # (IF o = 0 THEN B - 1 ELSE o - 1)
      BY <2>2, <2>3
  <2>7. ~Full(q)
      BY <1>1, <2>5, <2>6 DEF Full, PREVIOUS_IDX
  <2>8. b[r] \in Byte
      OBVIOUS
  <2> QED  BY <1>1, <1>3, <1>4, <1>6, <2>4, <2>5, <2>7, <2>8 DEF RingOf
<1>9. Ring(b, r, w, B) \in Seq(Byte) /\ Len(Ring(b, r, w, B)) = RingLen(r, w, B)
    BY RingIs
<1>10. ASSUME Empty(p) PROVE Ring(b, r, w, B) = <<>>
  <2>1. RingLen(r, w, B) = 0
      BY <1>2, <1>3, <1>10 DEF Empty, RingLen
  <2> QED  BY <1>9, <2>1
<1> QED  BY <1>6, <1>7, <1>8, <1>9, <1>10

-----------------------------------------------------------------------------
(* The left command writes.                                                 *)

LEMMA WriteStep ==
    ASSUME Inv, NEW k \in Kernels, Set(k), k.kb = Kernel.kb, OpenedOf(k), LinesOf(k, left', right),
           k.pipes[id] \in PipeRecord, SameCounts(k.pipes[id], ThePipe),
           left \in Writing, left' \in {"read", "write", "put", "post", "detach"},
           hand' \in Byte, sent' \in Seq(Byte), stray => stray',
           UNCHANGED <<nextId, shell, right, line, lines, screen, keys, received, killed>>,
           Good' => /\ left' \in Writing => WokenOf(k, left', right)
                    /\ sent' = received \o RingOf(k.pipes[id])
    PROVE  Inv'
<1>1. Types /\ Ordered /\ Counted /\ Printing /\ Ended /\ Typed
    BY DEF Inv
<1>2. Kernel' = k
    BY SetIs
<1>3. ThePipe' = k.pipes[id] /\ ThePipe'.open
    BY <1>2, OpenPipes DEF ThePipe
<1>4. Good' => Good
    BY DEF Good
<1>5. left # "none" /\ left' # "none" /\ left' \in Writing \cup {"detach"}
    BY DEF Writing
<1>6. Types'
    BY <1>1, <1>2 DEF Types, Writing, Exiting, keys
<1>7. Ordered'
    BY <1>1, <1>5 DEF Ordered
<1>8. Counted'
  <2>1. CountsOf(ThePipe, left, right)
      BY <1>1 DEF Counted
  <2>2. CountsOf(k.pipes[id], left', right)
      BY <1>5, <2>1 DEF CountsOf, SameCounts
  <2> QED  BY <1>3, <2>2 DEF Counted
<1>9. Opened' /\ Lines' /\ Woken'
    BY <1>2, <1>5 DEF Opened, Lines, Woken
<1>10. Printing' /\ Ended'
    BY <1>1, <1>4 DEF Printing, Ended
<1>11. Delivered'
    BY <1>3 DEF Delivered
<1>12. Typed'
    BY <1>1, <1>2, TypedSame DEF keys
<1> QED  BY <1>6, <1>7, <1>8, <1>9, <1>10, <1>11, <1>12 DEF Inv

\* What comes after a write.
LEMMA AfterWriteFacts ==
    ASSUME Inv, sent' \in Seq(Byte), AfterWrite
    PROVE  left' \in {"read", "write", "detach"} /\ hand' \in Byte
<1>1. hand \in Byte
    BY DEF Inv, Types
<1>2. PICK n \in Nat : n = Len(sent')
    OBVIOUS
<1>3. ASSUME n < Len(Printed) PROVE Printed[n + 1] \in STRING
    BY <1>3, PipelineAssumption
<1> QED  BY <1>1, <1>2, <1>3 DEF AfterWrite, Byte

\* A put of a process that is awake.
LEMMA PutKeeps ==
    ASSUME NEW k \in Kernels, OpenedOf(k), NEW p \in PipeRecord, k.pipes[id] = p,
           NEW c \in Byte, NEW h, h = writePipe_put(k, id, c)
    PROVE  /\ OnlyPipe(h, k) /\ OpenedOf(h)
           /\ h.pipes[id] \in PipeRecord /\ SameCounts(h.pipes[id], p) /\ SameFlags(h.pipes[id], p)
           /\ ~Full(p) => ~Empty(h.pipes[id]) /\ RingOf(h.pipes[id]) = Append(RingOf(p), c)
<1>1. OnlyPipe(h, k)
    BY PutFacts
<1>2. PICK q \in PipeRecord : q = h.pipes[id]
    BY PutFacts
<1>3. SameFlags(q, p)
    BY <1>2, PutFacts
<1>4. SameCounts(q, p)
    BY <1>2, PutFacts
<1>5. HasPut(q, p, c)
    BY <1>2, PutFacts DEF HasPut
<1>6. ~Full(p) => ~Empty(q) /\ RingOf(q) = Append(RingOf(p), c)
    BY <1>5, ByteFacts
<1>7. OpenedOf(h)
    BY <1>1, <1>2, OpenPipes DEF OpenedOf, OnlyPipe
<1> QED  BY <1>1, <1>2, <1>3, <1>4, <1>6, <1>7

\* The lines and the wake-ups when only the ring has changed.
LEMMA RingKeeps ==
    ASSUME NEW k, NEW h, OnlyPipe(h, k), SameFlags(h.pipes[id], k.pipes[id]),
           NEW l, NEW r, LinesOf(k, l, r), NEW l2, NEW r2, LinesOf(k, l2, r2)
    PROVE  /\ LinesOf(h, l2, r2)
           /\ WokenOf(k, l, r)
              /\ (r2 = "awake" /\ "R" \notin h.asleep => ~Empty(h.pipes[id]))
              /\ (l2 = "put" /\ "L" \notin h.asleep => ~Full(h.pipes[id])) => WokenOf(h, l2, r2)
<1>1. h.sems = k.sems /\ h.asleep = k.asleep
    BY DEF OnlyPipe
<1>2. LinesOf(h, l2, r2)
    BY <1>1, LinesSame DEF LineOf
<1>3. h.pipes[id].waitingToRead = k.pipes[id].waitingToRead
      /\ h.pipes[id].waitingToWrite = k.pipes[id].waitingToWrite
    BY DEF SameFlags
<1> QED  BY <1>1, <1>2, <1>3 DEF WokenOf, LineOf

LEMMA LeftWriteStep == ASSUME Inv, left_write PROVE Inv'
<1>1. Kernel \in Kernels /\ LinesOf(Kernel, left, right) /\ OpenedOf(Kernel)
    BY InvPipe
<1>2. /\ UNCHANGED <<nextId, shell, right, line, lines, screen, keys, received, killed>>
      /\ "L" \notin Kernel.asleep /\ left \in Writing
    BY KernelFields DEF left_write, Writing
<1>3. Types /\ Counted /\ Woken /\ Delivered
    BY DEF Inv
<1>4. hand \in Byte /\ sent \in Seq(Byte) /\ received \in Seq(Byte)
    BY <1>3 DEF Types
<1>5. ThePipe.open
    BY <1>2, <1>3 DEF Counted
<1>6. PICK p \in PipeRecord : p = ThePipe /\ p = Kernel.pipes[id]
    BY <1>5, InvPipe
<1>7. Good => WokenOf(Kernel, left, right) /\ sent = received \o RingOf(p)
    BY <1>2, <1>3, <1>5, <1>6 DEF Woken, Delivered
<1>8. RingOf(p) \in Seq(Byte)
    BY ByteFacts
<1>9. Append(sent, hand) \in Seq(Byte)
    BY <1>4
<1>10. Good => Append(sent, hand) = received \o Append(RingOf(p), hand)
  <2>1. Append(sent, hand) = sent \o <<hand>>
      BY <1>4
  <2>2. (received \o RingOf(p)) \o <<hand>> = received \o Append(RingOf(p), hand)
      BY <1>4, <1>8, JoinFacts
  <2> QED  BY <1>7, <2>1, <2>2
<1>11. PICK h : h = writePipe_put(Kernel, id, hand)
    OBVIOUS
<1>12. OnlyPipe(h, Kernel)
    BY <1>1, <1>4, <1>6, <1>11, PutKeeps
<1>13. OpenedOf(h) /\ h.pipes[id] \in PipeRecord /\ SameCounts(h.pipes[id], p)
    BY <1>1, <1>4, <1>6, <1>11, PutKeeps
<1>14. SameFlags(h.pipes[id], Kernel.pipes[id])
    BY <1>1, <1>4, <1>6, <1>11, PutKeeps
<1>15. ~Full(p) => ~Empty(h.pipes[id]) /\ RingOf(h.pipes[id]) = Append(RingOf(p), hand)
    BY <1>1, <1>4, <1>6, <1>11, PutKeeps
<1>16. CASE left = "write" /\ ~PipeFull(Kernel, id) /\ Set(writePipe_post(h, id))
            /\ sent' = Append(sent, hand) /\ UNCHANGED stray /\ AfterWrite
  <2>1. ~Full(p)
      BY <1>6, <1>16, KernelFields
  <2>2. left' \in {"read", "write", "detach"} /\ hand' \in Byte
      BY <1>9, <1>16, AfterWriteFacts
  <2>3. left' # "put"
      BY <2>2
  <2>4. h \in Kernels /\ h.kb = Kernel.kb /\ OpenedOf(h)
      BY <1>12, <1>13 DEF OnlyPipe
  <2>5. LinesOf(Kernel, left', right)
      BY <1>1, <1>2, LinesMove
  <2>6. LinesOf(h, left', right)
      BY <1>1, <1>12, <1>14, <2>5, RingKeeps
  <2>7. PICK q \in PipeRecord : q = h.pipes[id] /\ SameCounts(q, p)
      BY <1>13
  <2>8. ~Empty(q) /\ RingOf(q) = Append(RingOf(p), hand)
      BY <1>15, <2>1, <2>7
  <2>9. WokenOf(Kernel, left, right) => WokenOf(h, left', right)
      BY <1>1, <1>12, <1>14, <2>3, <2>5, <2>7, <2>8, RingKeeps
  <2>10. PICK k : k = writePipe_post(h, id)
      OBVIOUS
  <2>11. Posted(k, h)
      BY <2>4, <2>5, <2>6, <2>7, <2>10, WritePostFacts
  <2>12. LinesOf(k, left', right)
      BY <2>4, <2>5, <2>6, <2>7, <2>10, WritePostFacts
  <2>13. WokenOf(h, left', right) => WokenOf(k, left', right)
      BY <2>4, <2>5, <2>6, <2>7, <2>8, <2>10, WritePostFacts
  <2>14. /\ k \in Kernels /\ k.kb = Kernel.kb /\ OpenedOf(k) /\ k.pipes[id] \in PipeRecord
         /\ SameCounts(k.pipes[id], ThePipe) /\ RingOf(k.pipes[id]) = RingOf(q)
      BY <1>6, <2>4, <2>7, <2>11 DEF Posted, SameCounts, SameRing, RingOf
  <2>15. Good' => Good
      BY <1>2, <1>16 DEF Good
  <2>16. Good' => /\ left' \in Writing => WokenOf(k, left', right)
                  /\ sent' = received \o RingOf(k.pipes[id])
      BY <1>7, <1>10, <1>16, <2>8, <2>9, <2>13, <2>14, <2>15
  <2>17. Set(k) /\ sent' \in Seq(Byte) /\ (stray => stray')
      BY <1>9, <1>16, <2>10
  <2> QED  BY <1>2, <2>2, <2>12, <2>14, <2>16, <2>17, WriteStep
<1>17. CASE left = "put" /\ left' = "post" /\ Set(h) /\ sent' = Append(sent, hand) /\ UNCHANGED <<hand, stray>>
  <2>1. left' # "put"
      BY <1>17
  <2>2. h \in Kernels /\ h.kb = Kernel.kb /\ OpenedOf(h)
      BY <1>12, <1>13 DEF OnlyPipe
  <2>3. LinesOf(Kernel, left', right)
      BY <1>1, <1>2, LinesMove
  <2>4. LinesOf(h, left', right)
      BY <1>1, <1>12, <1>14, <2>3, RingKeeps
  <2>5. h.pipes[id] \in PipeRecord /\ SameCounts(h.pipes[id], ThePipe)
      BY <1>6, <1>13
  <2>6. Good' => Good
      BY <1>2, <1>17 DEF Good
  <2>7. Good => ~Full(p)
      BY <1>2, <1>6, <1>7, <1>17 DEF WokenOf
  <2>8. ~Full(p) => ~Empty(h.pipes[id]) /\ RingOf(h.pipes[id]) = Append(RingOf(p), hand)
      BY <1>15
  <2>9. ~Full(p) /\ WokenOf(Kernel, left, right) => WokenOf(h, left', right)
      BY <1>1, <1>12, <1>14, <2>1, <2>3, <2>8, RingKeeps
  <2>10. Good' => /\ left' \in Writing => WokenOf(h, left', right)
                  /\ sent' = received \o RingOf(h.pipes[id])
      BY <1>7, <1>10, <1>17, <2>6, <2>7, <2>8, <2>9
  <2>11. hand' \in Byte /\ sent' \in Seq(Byte) /\ (stray => stray')
      BY <1>4, <1>9, <1>17
  <2> QED  BY <1>2, <1>17, <2>2, <2>3, <2>4, <2>5, <2>10, <2>11, WriteStep
<1>18. CASE left = "post" /\ Set(writePipe_post(Kernel, id)) /\ UNCHANGED sent /\ AfterWrite
            /\ stray' = (stray \/ (pipes[id].waitingToRead /\ PipeEmpty(Kernel, id)))
  <2>1. sent' \in Seq(Byte)
      BY <1>4, <1>18
  <2>2. left' \in {"read", "write", "detach"} /\ hand' \in Byte
      BY <1>18, <2>1, AfterWriteFacts
  <2>3. LinesOf(Kernel, left', right)
      BY <1>1, <1>2, LinesMove
  <2>4. PICK k : k = writePipe_post(Kernel, id)
      OBVIOUS
  <2>5. Posted(k, Kernel)
      BY <1>1, <1>6, <2>3, <2>4, WritePostFacts
  <2>6. LinesOf(k, left', right)
      BY <1>1, <1>6, <2>3, <2>4, WritePostFacts
  <2>7. WokenOf(Kernel, left', right) /\ (p.waitingToRead => ~Empty(p)) => WokenOf(k, left', right)
      BY <1>1, <1>6, <2>3, <2>4, WritePostFacts
  <2>8. /\ k \in Kernels /\ k.kb = Kernel.kb /\ OpenedOf(k) /\ k.pipes[id] \in PipeRecord
        /\ SameCounts(k.pipes[id], ThePipe) /\ RingOf(k.pipes[id]) = RingOf(p)
      BY <1>6, <2>5 DEF Posted, SameRing, RingOf
  <2>9. Good' => Good /\ (p.waitingToRead => ~Empty(p))
    <3>1. pipes[id].waitingToRead = p.waitingToRead /\ (PipeEmpty(Kernel, id) <=> Empty(p))
        BY <1>6, KernelFields
    <3> QED  BY <1>2, <1>18, <3>1 DEF Good
  <2>10. WokenOf(Kernel, left, right) => WokenOf(Kernel, left', right)
      BY <2>2, WokenSame
  <2>11. Good' => /\ left' \in Writing => WokenOf(k, left', right)
                  /\ sent' = received \o RingOf(k.pipes[id])
      BY <1>7, <1>18, <2>7, <2>8, <2>9, <2>10
  <2>12. Set(k) /\ (stray => stray')
      BY <1>18, <2>4
  <2> QED  BY <1>2, <2>1, <2>2, <2>6, <2>8, <2>11, <2>12, WriteStep
<1>19. CASE left = "write" /\ left' = "put" /\ Set(writePipe_wait(Kernel, id, "L")) /\ UNCHANGED <<hand, sent, stray>>
  <2>1. PICK b \in BOOLEAN : b = TRUE
      OBVIOUS
  <2>2. PICK f : f = FlagWrite(Kernel, b)
      OBVIOUS
  <2>3. PICK g : g = FlagRead(Kernel, b)
      OBVIOUS
  <2>4. PICK W \in Name : W = canWrite(id)
      BY Names
  <2>5. PICK k : k = semWait(f, W, "L")
      OBVIOUS
  <2>6. Set(k)
      BY <1>19, <2>1, <2>2, <2>4, <2>5 DEF writePipe_wait, FlagWrite
  <2>7. f \in Kernels /\ f.sems = Kernel.sems /\ f.asleep = Kernel.asleep /\ f.kb = Kernel.kb
      BY <1>1, <1>6, <2>2, <2>3, FlagFacts
  <2>8. PICK q \in PipeRecord : q = f.pipes[id]
      BY <1>1, <1>6, <2>2, <2>3, FlagFacts
  <2>9. SameRing(q, p)
      BY <1>1, <1>6, <2>2, <2>3, <2>8, FlagFacts
  <2>10. SameCounts(q, p)
      BY <1>1, <1>6, <2>2, <2>3, <2>8, FlagFacts
  <2>11. q.waitingToRead = p.waitingToRead
      BY <1>1, <1>6, <2>2, <2>3, <2>8, FlagFacts
  <2>12. "L" \in Process
      BY DEF Process
  <2>13. k \in Kernels /\ k.pipes = f.pipes /\ k.kb = f.kb
      BY <2>5, <2>7, <2>12, WaitFacts
  <2>14. \A m \in Name \ {W} : k.sems[m] = f.sems[m]
      BY <2>5, <2>7, <2>12, WaitFacts
  <2>15. k.sems[W].users = f.sems[W].users
      BY <2>5, <2>7, <2>12, WaitFacts
  <2>16. Kernel.sems[canRead(id)].users = 1 /\ Kernel.sems[W].users = 1
      BY <1>1, <1>5, <2>4 DEF OpenedOf, ThePipe
  <2>17. OpenedOf(k)
    <3>1. k.pipes[id].open
        BY <2>8, <2>13, OpenPipes
    <3>2. k.sems[canRead(id)].users = 1
        BY <2>4, <2>7, <2>14, <2>16, Names
    <3> QED  BY <2>4, <2>7, <2>15, <2>16, <3>1, <3>2 DEF OpenedOf
  <2>18. LineOf(Kernel, W) = <<>> /\ LineOf(f, W) = <<>>
      BY <1>1, <1>2, <2>4, <2>7, LinesMove DEF LineOf
  <2>19. \/ LineOf(k, W) = <<"L">> /\ k.asleep = Kernel.asleep \cup {"L"}
         \/ LineOf(k, W) = <<>> /\ k.asleep = Kernel.asleep
    <3>1. \/ LineOf(k, W) = Append(LineOf(f, W), "L") /\ k.asleep = f.asleep \cup {"L"}
          \/ LineOf(k, W) = LineOf(f, W) /\ k.asleep = f.asleep
        BY <2>5, <2>7, <2>12, WaitFacts
    <3> QED  BY <2>7, <2>18, <3>1, Singles
  <2>20. \A m \in Name \ {W} : LineOf(k, m) = LineOf(Kernel, m)
      BY <2>7, <2>14 DEF LineOf
  <2>21. LinesOf(k, left', right)
    <3>1. LineOf(Kernel, buffer_sem) = <<>>
        BY <1>1, <1>2, LinesMove
    <3> QED  BY <1>1, <1>2, <1>19, <2>4, <2>19, <2>20, <3>1, Names DEF LinesOf, InLine
  <2>22. ASSUME Good PROVE WokenOf(k, left', right)
    <3>1. WokenOf(Kernel, left, right)
        BY <1>7, <2>22
    <3>2. f.sems[W].users > 0 /\ f.sems[W].value = 0
        BY <2>4, <2>7, <2>16, <3>1 DEF WokenOf
    <3>3. k.sems[W].value = f.sems[W].value
        BY <2>5, <2>7, <2>12, <3>2, WaitFacts
    <3>4. LineOf(k, W) = Append(LineOf(f, W), "L") /\ k.asleep = f.asleep \cup {"L"}
        BY <2>5, <2>7, <2>12, <3>2, WaitFacts
    <3>5. LineOf(k, W) = <<"L">> /\ k.asleep = Kernel.asleep \cup {"L"} /\ k.sems[W].value = 0
        BY <2>7, <2>18, <3>2, <3>3, <3>4, Singles
    <3>6. k.sems[canRead(id)] = Kernel.sems[canRead(id)]
        BY <2>4, <2>7, <2>14, Names
    <3>7. k.pipes[id].waitingToRead = p.waitingToRead /\ (Empty(k.pipes[id]) <=> Empty(p))
        BY <2>8, <2>9, <2>11, <2>13 DEF SameRing, Empty
    <3> QED  BY <1>6, <2>4, <3>1, <3>5, <3>6, <3>7 DEF WokenOf, LineOf
  <2>23. Good' => Good
      BY <1>2, <1>19 DEF Good
  <2>24. /\ k.kb = Kernel.kb /\ k.pipes[id] \in PipeRecord /\ SameCounts(k.pipes[id], ThePipe)
         /\ RingOf(k.pipes[id]) = RingOf(p)
      BY <1>6, <2>7, <2>8, <2>9, <2>10, <2>13 DEF SameRing, RingOf
  <2>25. Good' => /\ left' \in Writing => WokenOf(k, left', right)
                  /\ sent' = received \o RingOf(k.pipes[id])
      BY <1>7, <1>19, <2>22, <2>23, <2>24
  <2>26. hand' \in Byte /\ sent' \in Seq(Byte) /\ (stray => stray')
      BY <1>4, <1>19
  <2> QED  BY <1>2, <1>19, <2>6, <2>13, <2>17, <2>21, <2>24, <2>25, <2>26, WriteStep
<1> QED  BY <1>11, <1>16, <1>17, <1>18, <1>19 DEF left_write

-----------------------------------------------------------------------------
(* The right command reads.                                                 *)

LEMMA ReceiveStep ==
    ASSUME Inv, NEW k \in Kernels, Set(k), k.kb = Kernel.kb, OpenedOf(k), LinesOf(k, left, right'),
           ThePipe.open, k.pipes[id] \in PipeRecord, SameCounts(k.pipes[id], ThePipe),
           right \in Reading, right' \in Reading,
           received' \in Seq(Byte), lines' \in Nat, Printing', stray => stray',
           UNCHANGED <<nextId, shell, left, line, hand, keys, sent, killed>>,
           Good' => /\ left \in Writing => WokenOf(k, left, right')
                    /\ sent = received' \o RingOf(k.pipes[id])
    PROVE  Inv'
<1>1. Types /\ Ordered /\ Counted /\ Ended /\ Typed
    BY DEF Inv
<1>2. Kernel' = k
    BY SetIs
<1>3. ThePipe' = k.pipes[id] /\ ThePipe'.open
    BY <1>2, OpenPipes DEF ThePipe
<1>4. right # "none" /\ right' # "none" /\ right # "failed" /\ right' # "failed"
      /\ right' \notin Exiting \cup {"gone"}
    BY DEF Reading, Exiting
<1>5. left # "none"
    BY <1>1, <1>4 DEF Ordered
<1>6. Types'
    BY <1>1, <1>2 DEF Types, keys
<1>7. Ordered'
    BY <1>1, <1>4, <1>5 DEF Ordered
<1>8. Counted'
  <2>1. CountsOf(ThePipe, left, right)
      BY <1>1 DEF Counted
  <2>2. CountsOf(k.pipes[id], left, right')
      BY <2>1 DEF CountsOf, SameCounts
  <2> QED  BY <1>3, <2>2 DEF Counted
<1>9. Opened' /\ Lines' /\ Woken'
    BY <1>2, <1>5 DEF Opened, Lines, Woken
<1>10. Ended'
    BY <1>4 DEF Ended
<1>11. Delivered'
    BY <1>3 DEF Delivered
<1>12. Typed'
    BY <1>1, <1>2, TypedSame DEF keys
<1> QED  BY <1>6, <1>7, <1>8, <1>9, <1>10, <1>11, <1>12 DEF Inv

\* The command ends by itself: it has all that was written.
LEMMA FinishStep ==
    ASSUME Inv, finish, UNCHANGED <<kernel, stray>>, right \in Reading, ThePipe.open, Empty(ThePipe),
           "R" \notin Kernel.asleep, Good => left \notin Writing,
           UNCHANGED <<nextId, shell, left, line, hand, keys, sent, killed>>
    PROVE  Inv'
<1>1. Types /\ Ordered /\ Counted /\ Opened /\ Lines /\ Printing /\ Delivered /\ Typed
    BY DEF Inv
<1>2. Kernel' = Kernel /\ ThePipe' = ThePipe
    BY KernelStays DEF ThePipe
<1>3. right' = "detach" /\ UNCHANGED <<lines, received>>
    BY DEF finish
<1>4. right # "none" /\ right # "failed"
    BY DEF Reading
<1>5. Good' <=> Good
    BY <1>3, <1>4 DEF Good
<1>6. left # "none"
    BY <1>1, <1>4 DEF Ordered
<1>7. Types'
    BY <1>1, <1>2, <1>3 DEF Types, keys, Exiting
<1>8. Ordered'
    BY <1>1, <1>2, <1>3, <1>4, <1>6 DEF Ordered
<1>9. Counted'
  <2>1. CountsOf(ThePipe, left, right')
      BY <1>1, <1>3 DEF Counted, CountsOf
  <2> QED  BY <1>1, <1>2, <2>1 DEF Counted
<1>10. Opened' /\ Lines'
  <2>1. LinesOf(Kernel, left, right')
      BY <1>1, LinesMove DEF Lines
  <2> QED  BY <1>1, <1>2, <2>1 DEF Opened, Lines
<1>11. Woken'
    BY <1>5, <1>6 DEF Woken
<1>12. Printing'
    BY <1>3 DEF Printing, Reading
<1>13. ASSUME Good PROVE AllRead'
  <2>1. PICK p \in PipeRecord : p = ThePipe
      BY InvPipe
  <2>2. RingOf(p) = <<>>
      BY <2>1, ByteFacts
  <2>3. received \in Seq(Byte) /\ sent = received \o <<>>
      BY <1>1, <1>13, <2>1, <2>2 DEF Delivered, Types
  <2>4. sent = received
      BY <2>3
  <2>5. ASSUME line.right = "filter" PROVE screen' = Append(WithoutVowels(sent), NEW_LINE_CHAR)
    <3>1. screen = WithoutVowels(sent)
        BY <1>1, <2>4, <2>5 DEF Printing
    <3> QED  BY <2>5, <3>1 DEF finish
  <2> QED  BY <1>3, <2>4, <2>5 DEF AllRead
<1>14. Ended'
    BY <1>5, <1>13 DEF Ended
<1>15. Delivered'
    BY <1>1, <1>2, <1>3, <1>5 DEF Delivered
<1>16. Typed'
    BY <1>1, <1>2, TypedSame DEF keys
<1> QED  BY <1>7, <1>8, <1>9, <1>10, <1>11, <1>12, <1>14, <1>15, <1>16 DEF Inv

\* What the command prints of one byte.
LEMMA ConsumeFacts ==
    ASSUME Inv, NEW c \in Byte, consume(c), right \in Reading, right' \in Reading, UNCHANGED line
    PROVE  received' = Append(received, c) /\ received' \in Seq(Byte) /\ lines' \in Nat /\ Printing'
<1>1. Printing /\ received \in Seq(Byte) /\ lines \in Nat
    BY DEF Inv, Types
<1>2. received' = Append(received, c) /\ received' \in Seq(Byte)
    BY <1>1 DEF consume
<1>3. lines = Newlines(received) /\ (line.right = "filter" => screen = WithoutVowels(received))
    BY <1>1 DEF Printing
<1>4. lines' = (IF c = NEW_LINE_CHAR THEN lines + 1 ELSE lines)
    BY DEF consume
<1>5. lines' \in Nat
    BY <1>1, <1>4
<1>6. lines' = Newlines(received')
    BY <1>1, <1>2, <1>3, <1>4, NewlinesAppend
<1>7. line.right = "filter" => screen' = WithoutVowels(received')
    BY <1>1, <1>2, <1>3, VowelsAppend DEF consume
<1>8. right' # "none"
    BY DEF Reading
<1> QED  BY <1>2, <1>5, <1>6, <1>7, <1>8 DEF Printing

\* A byte taken out of the pipe leaves a place.
LEMMA TakeKeeps ==
    ASSUME NEW k \in Kernels, OpenedOf(k), NEW p \in PipeRecord, k.pipes[id] = p, ~Empty(p),
           NEW h, h = readPipe_take(k, id)
    PROVE  /\ OnlyPipe(h, k) /\ OpenedOf(h)
           /\ h.pipes[id] \in PipeRecord /\ SameCounts(h.pipes[id], p) /\ SameFlags(h.pipes[id], p)
           /\ ~Full(h.pipes[id])
           /\ p.buffer[p.idxToRead] \in Byte
           /\ RingOf(p) = <<p.buffer[p.idxToRead]>> \o RingOf(h.pipes[id])
<1>1. OnlyPipe(h, k)
    BY TakeFacts
<1>2. PICK q \in PipeRecord : q = h.pipes[id]
    BY TakeFacts
<1>3. SameFlags(q, p)
    BY <1>2, TakeFacts
<1>4. SameCounts(q, p)
    BY <1>2, TakeFacts
<1>5. HasTaken(q, p)
    BY <1>2, TakeFacts DEF HasTaken
<1>6. ~Full(q) /\ p.buffer[p.idxToRead] \in Byte /\ RingOf(p) = <<p.buffer[p.idxToRead]>> \o RingOf(q)
    BY <1>5, ByteFacts
<1>7. OpenedOf(h)
    BY <1>1, <1>2, OpenPipes DEF OpenedOf, OnlyPipe
<1> QED  BY <1>1, <1>2, <1>3, <1>4, <1>6, <1>7

LEMMA RightReadStep == ASSUME Inv, right_read PROVE Inv'
<1>1. Kernel \in Kernels /\ LinesOf(Kernel, left, right) /\ OpenedOf(Kernel)
    BY InvPipe
<1>2. /\ UNCHANGED <<nextId, shell, left, line, hand, keys, sent, killed>>
      /\ "R" \notin Kernel.asleep /\ right \in Reading /\ ThePipe.open
    BY InvPipe, KernelFields DEF right_read, Reading
<1>3. Types /\ Counted /\ Woken /\ Printing /\ Delivered
    BY DEF Inv
<1>4. sent \in Seq(Byte) /\ received \in Seq(Byte) /\ lines \in Nat
    BY <1>3 DEF Types
<1>5. PICK p \in PipeRecord : p = ThePipe /\ p = Kernel.pipes[id]
    BY <1>2, InvPipe
<1>6. Good => /\ left \in Writing => WokenOf(Kernel, left, right)
              /\ sent = received \o RingOf(p)
    BY <1>2, <1>3, <1>5 DEF Woken, Delivered
<1>7. PICK c : c = p.buffer[p.idxToRead] /\ c = readPipe_byte(Kernel, id)
    BY <1>5 DEF readPipe_byte
<1>8. PICK h : h = readPipe_take(Kernel, id)
    OBVIOUS
<1>9. ASSUME ~Empty(p)
      PROVE  /\ h \in Kernels /\ h.kb = Kernel.kb /\ OpenedOf(h) /\ OnlyPipe(h, Kernel)
             /\ h.pipes[id] \in PipeRecord /\ SameCounts(h.pipes[id], p)
             /\ SameFlags(h.pipes[id], Kernel.pipes[id])
             /\ ~Full(h.pipes[id]) /\ c \in Byte
             /\ Good => sent = Append(received, c) \o RingOf(h.pipes[id])
  <2>1. OnlyPipe(h, Kernel)
      BY <1>1, <1>5, <1>8, <1>9, TakeKeeps
  <2>2. OpenedOf(h) /\ h.pipes[id] \in PipeRecord /\ SameCounts(h.pipes[id], p)
      BY <1>1, <1>5, <1>8, <1>9, TakeKeeps
  <2>3. SameFlags(h.pipes[id], Kernel.pipes[id])
      BY <1>1, <1>5, <1>8, <1>9, TakeKeeps
  <2>4. ~Full(h.pipes[id])
      BY <1>1, <1>5, <1>8, <1>9, TakeKeeps
  <2>5. c \in Byte /\ RingOf(p) = <<c>> \o RingOf(h.pipes[id])
      BY <1>1, <1>5, <1>7, <1>8, <1>9, TakeKeeps
  <2>6. RingOf(h.pipes[id]) \in Seq(Byte)
      BY <2>2, ByteFacts
  <2>7. received \o (<<c>> \o RingOf(h.pipes[id])) = Append(received, c) \o RingOf(h.pipes[id])
      BY <1>4, <2>5, <2>6, TakeJoin
  <2>8. Good => sent = Append(received, c) \o RingOf(h.pipes[id])
      BY <1>6, <2>5, <2>7
  <2>9. h \in Kernels /\ h.kb = Kernel.kb
      BY <2>1 DEF OnlyPipe
  <2> QED  BY <2>1, <2>2, <2>3, <2>4, <2>5, <2>8, <2>9
<1>10. CASE right = "read" /\ PipeEmpty(Kernel, id) /\ NoWriter(Kernel, id) /\ finish /\ UNCHANGED <<kernel, stray>>
  <2>1. Empty(ThePipe)
      BY <1>10, KernelFields
  <2>2. ThePipe.writers = 0
      BY <1>10 DEF NoWriter, ThePipe
  <2>3. left \notin Writing
      BY <1>2, <1>3, <2>2 DEF Counted, CountsOf, IsOne
  <2> QED  BY <1>2, <1>10, <2>1, <2>3, FinishStep
<1>11. CASE right = "awake" /\ PipeEmpty(Kernel, id) /\ finish /\ UNCHANGED <<kernel, stray>>
  <2>1. Empty(ThePipe)
      BY <1>11, KernelFields
  <2>2. Good => left \notin Writing
      BY <1>2, <1>5, <1>6, <1>11, <2>1 DEF WokenOf
  <2> QED  BY <1>2, <1>11, <2>1, <2>2, FinishStep
<1>12. CASE right = "read" /\ ~PipeEmpty(Kernel, id) /\ UNCHANGED <<right, stray>>
            /\ Set(readPipe_post(h, id)) /\ consume(c)
  <2>1. ~Empty(p)
      BY <1>5, <1>12, KernelFields
  <2>2. c \in Byte /\ right' \in Reading
      BY <1>2, <1>9, <1>12, <2>1
  <2>3. received' = Append(received, c) /\ received' \in Seq(Byte) /\ lines' \in Nat /\ Printing'
      BY <1>2, <1>12, <2>2, ConsumeFacts
  <2>4. LinesOf(h, left, right)
      BY <1>1, <1>9, <2>1, RingKeeps
  <2>5. WokenOf(Kernel, left, right) => WokenOf(h, left, right)
      BY <1>1, <1>9, <1>12, <2>1, RingKeeps
  <2>6. PICK q \in PipeRecord : q = h.pipes[id]
      BY <1>9, <2>1
  <2>7. PICK k : k = readPipe_post(h, id)
      OBVIOUS
  <2>8. Posted(k, h)
      BY <1>9, <2>1, <2>4, <2>6, <2>7, ReadPostFacts
  <2>9. LinesOf(k, left, right)
      BY <1>9, <2>1, <2>4, <2>6, <2>7, ReadPostFacts
  <2>10. WokenOf(h, left, right) => WokenOf(k, left, right)
      BY <1>9, <2>1, <2>4, <2>6, <2>7, ReadPostFacts
  <2>11. /\ k \in Kernels /\ k.kb = Kernel.kb /\ OpenedOf(k) /\ k.pipes[id] \in PipeRecord
         /\ SameCounts(k.pipes[id], ThePipe) /\ RingOf(k.pipes[id]) = RingOf(h.pipes[id])
      BY <1>5, <1>9, <2>1, <2>8 DEF Posted, SameCounts, SameRing, RingOf
  <2>12. Good' => Good
      BY <1>2, <1>12 DEF Good
  <2>13. Good' => /\ left \in Writing => WokenOf(k, left, right')
                  /\ sent = received' \o RingOf(k.pipes[id])
      BY <1>6, <1>9, <1>12, <2>1, <2>3, <2>5, <2>10, <2>11, <2>12
  <2>14. Set(k) /\ (stray => stray') /\ LinesOf(k, left, right')
      BY <1>12, <2>7, <2>9
  <2> QED  BY <1>2, <2>2, <2>3, <2>11, <2>13, <2>14, ReceiveStep
<1>13. CASE right = "awake" /\ ~PipeEmpty(Kernel, id) /\ right' = "post" /\ UNCHANGED stray /\ Set(h) /\ consume(c)
  <2>1. ~Empty(p)
      BY <1>5, <1>13, KernelFields
  <2>2. c \in Byte /\ right' \in Reading /\ right' # "awake"
      BY <1>9, <1>13, <2>1 DEF Reading
  <2>3. received' = Append(received, c) /\ received' \in Seq(Byte) /\ lines' \in Nat /\ Printing'
      BY <1>2, <1>13, <2>2, ConsumeFacts
  <2>4. LinesOf(Kernel, left, right')
      BY <1>1, <1>2, LinesMove
  <2>5. LinesOf(h, left, right')
      BY <1>1, <1>9, <2>1, <2>4, RingKeeps
  <2>6. WokenOf(Kernel, left, right) => WokenOf(h, left, right')
      BY <1>1, <1>9, <2>1, <2>2, <2>4, RingKeeps
  <2>7. Good' => Good
      BY <1>2, <1>13 DEF Good, Reading
  <2>8. Good' => /\ left \in Writing => WokenOf(h, left, right')
                 /\ sent = received' \o RingOf(h.pipes[id])
      BY <1>6, <1>9, <2>1, <2>3, <2>6, <2>7
  <2>9. h \in Kernels /\ h.kb = Kernel.kb /\ OpenedOf(h) /\ h.pipes[id] \in PipeRecord
        /\ SameCounts(h.pipes[id], ThePipe)
      BY <1>5, <1>9, <2>1
  <2>10. Set(h) /\ (stray => stray')
      BY <1>13
  <2> QED  BY <1>2, <2>2, <2>3, <2>5, <2>8, <2>9, <2>10, ReceiveStep
<1>14. CASE right = "post" /\ right' = "read" /\ Set(readPipe_post(Kernel, id)) /\ UNCHANGED <<lines, screen, received>>
            /\ stray' = (stray \/ (pipes[id].waitingToWrite /\ PipeFull(Kernel, id)))
  <2>1. LinesOf(Kernel, left, right')
      BY <1>1, <1>2, LinesMove
  <2>2. PICK k : k = readPipe_post(Kernel, id)
      OBVIOUS
  <2>3. Posted(k, Kernel)
      BY <1>1, <1>5, <2>1, <2>2, ReadPostFacts
  <2>4. LinesOf(k, left, right')
      BY <1>1, <1>5, <2>1, <2>2, ReadPostFacts
  <2>5. WokenOf(Kernel, left, right') /\ (p.waitingToWrite => ~Full(p)) => WokenOf(k, left, right')
      BY <1>1, <1>5, <2>1, <2>2, ReadPostFacts
  <2>6. /\ k \in Kernels /\ k.kb = Kernel.kb /\ OpenedOf(k) /\ k.pipes[id] \in PipeRecord
        /\ SameCounts(k.pipes[id], ThePipe) /\ RingOf(k.pipes[id]) = RingOf(p)
      BY <1>5, <2>3 DEF Posted, SameRing, RingOf
  <2>7. Good' => Good /\ (p.waitingToWrite => ~Full(p))
    <3>1. pipes[id].waitingToWrite = p.waitingToWrite /\ (PipeFull(Kernel, id) <=> Full(p))
        BY <1>5, KernelFields
    <3> QED  BY <1>2, <1>14, <3>1 DEF Good
  <2>8. WokenOf(Kernel, left, right) => WokenOf(Kernel, left, right')
      BY <1>14, WokenSame
  <2>9. Good' => /\ left \in Writing => WokenOf(k, left, right')
                 /\ sent = received' \o RingOf(k.pipes[id])
      BY <1>6, <1>14, <2>5, <2>6, <2>7, <2>8
  <2>10. Printing' /\ right' \in Reading
      BY <1>2, <1>3, <1>14 DEF Printing, Reading
  <2>11. Set(k) /\ (stray => stray') /\ received' \in Seq(Byte) /\ lines' \in Nat
      BY <1>4, <1>14, <2>2
  <2> QED  BY <1>2, <2>4, <2>6, <2>9, <2>10, <2>11, ReceiveStep
<1>15. CASE right = "read" /\ right' = "awake" /\ Set(readPipe_wait(Kernel, id, "R"))
            /\ UNCHANGED <<lines, screen, received, stray>>
  <2>1. PICK b \in BOOLEAN : b = TRUE
      OBVIOUS
  <2>2. PICK f : f = FlagRead(Kernel, b)
      OBVIOUS
  <2>3. PICK g : g = FlagWrite(Kernel, b)
      OBVIOUS
  <2>4. PICK R \in Name : R = canRead(id)
      BY Names
  <2>5. PICK k : k = semWait(f, R, "R")
      OBVIOUS
  <2>6. Set(k)
      BY <1>15, <2>1, <2>2, <2>4, <2>5 DEF readPipe_wait, FlagRead
  <2>7. f \in Kernels /\ f.sems = Kernel.sems /\ f.asleep = Kernel.asleep /\ f.kb = Kernel.kb
      BY <1>1, <1>5, <2>2, <2>3, FlagFacts
  <2>8. PICK q \in PipeRecord : q = f.pipes[id]
      BY <1>1, <1>5, <2>2, <2>3, FlagFacts
  <2>9. SameRing(q, p)
      BY <1>1, <1>5, <2>2, <2>3, <2>8, FlagFacts
  <2>10. SameCounts(q, p)
      BY <1>1, <1>5, <2>2, <2>3, <2>8, FlagFacts
  <2>11. q.waitingToWrite = p.waitingToWrite
      BY <1>1, <1>5, <2>2, <2>3, <2>8, FlagFacts
  <2>12. "R" \in Process
      BY DEF Process
  <2>13. k \in Kernels /\ k.pipes = f.pipes /\ k.kb = f.kb
      BY <2>5, <2>7, <2>12, WaitFacts
  <2>14. \A m \in Name \ {R} : k.sems[m] = f.sems[m]
      BY <2>5, <2>7, <2>12, WaitFacts
  <2>15. k.sems[R].users = f.sems[R].users
      BY <2>5, <2>7, <2>12, WaitFacts
  <2>16. Kernel.sems[canWrite(id)].users = 1 /\ Kernel.sems[R].users = 1
      BY <1>1, <1>2, <2>4 DEF OpenedOf, ThePipe
  <2>17. OpenedOf(k)
    <3>1. k.pipes[id].open
        BY <2>8, <2>13, OpenPipes
    <3>2. k.sems[canWrite(id)].users = 1
        BY <2>4, <2>7, <2>14, <2>16, Names
    <3> QED  BY <2>4, <2>7, <2>15, <2>16, <3>1, <3>2 DEF OpenedOf
  <2>18. LineOf(Kernel, R) = <<>> /\ LineOf(f, R) = <<>>
      BY <1>1, <1>2, <2>4, <2>7, LinesMove DEF LineOf
  <2>19. \/ LineOf(k, R) = <<"R">> /\ k.asleep = Kernel.asleep \cup {"R"}
         \/ LineOf(k, R) = <<>> /\ k.asleep = Kernel.asleep
    <3>1. \/ LineOf(k, R) = Append(LineOf(f, R), "R") /\ k.asleep = f.asleep \cup {"R"}
          \/ LineOf(k, R) = LineOf(f, R) /\ k.asleep = f.asleep
        BY <2>5, <2>7, <2>12, WaitFacts
    <3> QED  BY <2>7, <2>18, <3>1, Singles
  <2>20. \A m \in Name \ {R} : LineOf(k, m) = LineOf(Kernel, m)
      BY <2>7, <2>14 DEF LineOf
  <2>21. LinesOf(k, left, right')
      BY <1>1, <1>2, <1>15, <2>4, <2>19, <2>20, Names DEF LinesOf, InLine
  <2>22. ASSUME Good, left \in Writing PROVE WokenOf(k, left, right')
    <3>1. WokenOf(Kernel, left, right)
        BY <1>6, <2>22
    <3>2. f.sems[R].users > 0 /\ f.sems[R].value = 0
        BY <2>4, <2>7, <2>16, <3>1 DEF WokenOf
    <3>3. k.sems[R].value = f.sems[R].value
        BY <2>5, <2>7, <2>12, <3>2, WaitFacts
    <3>4. LineOf(k, R) = Append(LineOf(f, R), "R") /\ k.asleep = f.asleep \cup {"R"}
        BY <2>5, <2>7, <2>12, <3>2, WaitFacts
    <3>5. LineOf(k, R) = <<"R">> /\ k.asleep = Kernel.asleep \cup {"R"} /\ k.sems[R].value = 0
        BY <2>7, <2>18, <3>2, <3>3, <3>4, Singles
    <3>6. k.sems[canWrite(id)] = Kernel.sems[canWrite(id)]
        BY <2>4, <2>7, <2>14, Names
    <3>7. k.pipes[id].waitingToWrite = p.waitingToWrite /\ (Full(k.pipes[id]) <=> Full(p))
        BY <2>8, <2>9, <2>11, <2>13 DEF SameRing, Full
    <3> QED  BY <1>5, <2>4, <3>1, <3>5, <3>6, <3>7 DEF WokenOf, LineOf
  <2>23. Good' => Good
      BY <1>2, <1>15 DEF Good
  <2>24. /\ k.kb = Kernel.kb /\ k.pipes[id] \in PipeRecord /\ SameCounts(k.pipes[id], ThePipe)
         /\ RingOf(k.pipes[id]) = RingOf(p)
      BY <1>5, <2>7, <2>8, <2>9, <2>10, <2>13 DEF SameRing, RingOf
  <2>25. Good' => /\ left \in Writing => WokenOf(k, left, right')
                  /\ sent = received' \o RingOf(k.pipes[id])
      BY <1>6, <1>15, <2>22, <2>23, <2>24
  <2>26. Printing' /\ right' \in Reading
      BY <1>2, <1>3, <1>15 DEF Printing, Reading
  <2>27. received' \in Seq(Byte) /\ lines' \in Nat /\ (stray => stray')
      BY <1>4, <1>15
  <2> QED  BY <1>2, <2>6, <2>13, <2>17, <2>21, <2>24, <2>25, <2>26, <2>27, ReceiveStep
<1> QED  BY <1>7, <1>8, <1>10, <1>11, <1>12, <1>13, <1>14, <1>15 DEF right_read

-----------------------------------------------------------------------------
(* The theorems.                                                            *)

LEMMA Everywhere ==
    ASSUME NEW S, NEW T, NEW c \in T
    PROVE  [x \in S |-> c] \in [S -> T] /\ \A x \in S : [y \in S |-> c][x] = c
OBVIOUS

\* The kernel before the keyboard's semaphore.
Boot == [sems |-> initSemQueue(Name), asleep |-> {}, pipes |-> [i \in PipeId |-> NoPipe], kb |-> KeyboardInit]
LEMMA BootFacts ==
    /\ Boot \in Kernels /\ Boot.asleep = {} /\ Boot.pipes[id] = NoPipe /\ Boot.kb = KeyboardInit
    /\ \A n \in Name : Boot.sems[n] = NoSem
    /\ Held(KeyboardInit) = <<>>
<1>1. NoSem \in SemRecord(Process)
  <2>1. 0 \in Nat /\ 0 \in 0..UINT16_MAX /\ <<>> \in Seq(Process)
      BY DEF UINT16_MAX
  <2> QED  BY <2>1 DEF NoSem, SemRecord
<1>2. PICK S \in [Name -> SemRecord(Process)] : S = initSemQueue(Name) /\ \A n \in Name : S[n] = NoSem
    BY <1>1, Everywhere DEF initSemQueue
<1>3. KeyboardInit \in KbRecord /\ Held(KeyboardInit) = <<>>
  <2>1. BUFFER_SIZE \in Nat \ {0}
      BY KeyboardAssumption
  <2>2. PICK B \in Nat \ {0} : B = BUFFER_SIZE
      BY <2>1
  <2>3. PICK b \in [0..(B - 1) -> Byte] : b = [i \in 0..(B - 1) |-> "nul"]
    <3>1. "nul" \in Byte
        BY DEF Byte
    <3> QED  BY <3>1
  <2>4. 0 \in 0..(B - 1)
      OBVIOUS
  <2>5. KeyboardInit = [buffer |-> b, to_write |-> 0, to_read |-> 0, reading |-> FALSE]
      BY <2>2, <2>3 DEF KeyboardInit
  <2>6. KeyboardInit \in KbRecord
      BY <2>2, <2>4, <2>5 DEF KbRecord, Place
  <2>7. Held(KeyboardInit) \in Seq(Byte) /\ Len(Held(KeyboardInit)) = Length(KeyboardInit)
      BY <2>6, HeldIs
  <2>8. Length(KeyboardInit) = 0
      BY <2>5 DEF Length, RingLen
  <2> QED  BY <2>6, <2>7, <2>8
<1>4. PICK P \in [PipeId -> {NoPipe} \cup PipeRecord] : P = [i \in PipeId |-> NoPipe] /\ P[id] = NoPipe
    BY Names, Everywhere
<1>5. Boot = [sems |-> S, asleep |-> {}, pipes |-> P, kb |-> KeyboardInit]
    BY <1>2, <1>4 DEF Boot
<1>6. Boot \in Kernels
    BY <1>3, <1>5 DEF Kernels
<1> QED  BY <1>2, <1>3, <1>4, <1>5, <1>6

LEMMA InvInit == Init => Inv
<1>1. SUFFICES ASSUME Init PROVE Inv
    OBVIOUS
<1>2. /\ nextId = FirstId /\ shell = "prompt" /\ left = "none" /\ right = "none"
      /\ hand = "nul" /\ lines = 0 /\ screen = <<>> /\ typed = <<>> /\ read = <<>> /\ broken = FALSE
      /\ sent = <<>> /\ received = <<>>
    BY <1>1 DEF Init
<1>3. PICK k : k = semOpen(Boot, buffer_sem, 0)
    OBVIOUS
<1>4. buffer_sem \in Name
    BY Names
<1>5. k \in Kernels /\ k.pipes = Boot.pipes /\ k.kb = Boot.kb /\ k.asleep = Boot.asleep
    BY <1>3, <1>4, BootFacts, FirstOpen
<1>6. (\A m \in Name \ {buffer_sem} : k.sems[m] = Boot.sems[m]) /\ LineOf(k, buffer_sem) = <<>>
    BY <1>3, <1>4, BootFacts, FirstOpen
<1>7. Kernel = k
  <2>1. sems = k.sems /\ asleep = k.asleep /\ pipes = k.pipes /\ kb = k.kb
      BY <1>1, <1>3 DEF Init, Boot, Name, keyboard_sem_init
  <2> QED  BY <1>5, <2>1 DEF Kernel, Kernels
<1>8. k.asleep = {} /\ k.pipes[id] = NoPipe /\ k.kb = KeyboardInit
      /\ \A m \in Name \ {buffer_sem} : k.sems[m] = NoSem
    BY <1>5, <1>6, BootFacts
<1>9. ThePipe = NoPipe /\ ~ThePipe.open
    BY <1>7, <1>8, OpenPipes DEF ThePipe
<1>10. Types
  <2>1. hand \in Byte /\ lines \in Nat /\ <<>> \in Seq(Byte)
      BY <1>2 DEF Byte
  <2> QED  BY <1>2, <1>5, <1>7, <2>1 DEF Types
<1>11. Ordered /\ Counted /\ Woken
    BY <1>2, <1>9 DEF Ordered, Counted, Woken, Writing
<1>12. Opened
    BY <1>7, <1>8, <1>9, Names DEF Opened, OpenedOf, ThePipe
<1>13. Lines
  <2>1. LineOf(k, canRead(id)) = <<>> /\ LineOf(k, canWrite(id)) = <<>>
        /\ LineOf(k, wait("L")) = <<>> /\ LineOf(k, wait("R")) = <<>>
      BY <1>8, Names DEF LineOf, NoSem
  <2>2. <<>> \in Seq({"S"})
      OBVIOUS
  <2> QED  BY <1>6, <1>7, <1>8, <2>1, <2>2 DEF Lines, LinesOf, InLine
<1>14. Printing /\ Ended
    BY <1>2 DEF Printing, Ended, Reading, Exiting
<1>15. Delivered
    BY <1>9 DEF Delivered
<1>16. Typed
  <2>1. <<>> = <<>> \o <<>>
      OBVIOUS
  <2> QED  BY <1>2, <1>7, <1>8, <2>1, BootFacts DEF Typed
<1> QED  BY <1>10, <1>11, <1>12, <1>13, <1>14, <1>15, <1>16 DEF Inv

LEMMA InvStutters == ASSUME Inv, UNCHANGED vars PROVE Inv'
<1>1. UNCHANGED <<sems, asleep, pipes, kb, nextId, shell, left, right, line, hand, lines, screen,
                  typed, read, broken, sent, received, stray, killed>>
    BY DEF vars, kernel, keys
<1>2. Kernel' = Kernel /\ ThePipe' = ThePipe /\ (AllRead => AllRead')
    BY <1>1 DEF Kernel, ThePipe, AllRead
<1>3. Good' = Good
    BY <1>1 DEF Good
<1>4. (Types /\ Ordered /\ Counted)'
    BY <1>1, <1>2 DEF Inv, Types, Ordered, Counted
<1>5. (Opened /\ Lines /\ Woken)'
    BY <1>1, <1>2, <1>3 DEF Inv, Opened, Lines, Woken
<1>6. (Printing /\ Ended /\ Delivered)'
    BY <1>1, <1>2, <1>3 DEF Inv, Printing, Ended, Delivered
<1>7. Typed'
    BY <1>1, <1>2 DEF Inv, Typed
<1> QED  BY <1>4, <1>5, <1>6, <1>7 DEF Inv

LEMMA InvNext == Inv /\ [Next]_vars => Inv'
<1>1. SUFFICES ASSUME Inv, [Next]_vars PROVE Inv'
    OBVIOUS
<1>2. CASE UNCHANGED vars
    BY <1>1, <1>2, InvStutters
<1>3. CASE Shell
    BY <1>1, <1>3, PipeOpenStep, CreateLeftStep, CreateRightStep, PipeCloseStep, WaitPidStep DEF Shell
<1>4. CASE Left
    BY <1>1, <1>4, CatReadStep, LeftWriteStep, LeftExitStep DEF Left
<1>5. CASE Right
    BY <1>1, <1>5, RightReadStep, RightExitStep DEF Right
<1>6. CASE kill_foreground_processes
    BY <1>1, <1>6, KillStep
<1>7. CASE \E key \in Key, n \in 1..TAB_SIZE : ~panicked /\ (key # TABULATOR_KEY => n = 1) /\ Press(key, n)
    BY <1>1, <1>7, PressStep
<1> QED  BY <1>1, <1>2, <1>3, <1>4, <1>5, <1>6, <1>7 DEF Next

\* The invariant of the pipeline: who sleeps stands in the line of the right
\* semaphore, whoever has been woken finds what it waited for, and the two rings
\* hold what was put in and not taken out.
THEOREM PipelineInvariant == Spec => []Inv
BY InvInit, InvNext, PTL DEF Spec

\* The reader of the keyboard gets what was typed and not erased, in order and
\* each character once, for every length of the ring and every interleaving of
\* keyboardHandler with getKeyboardCharacter.
THEOREM KeyboardIsDelivered == Spec => []KeyboardDelivers
<1>1. Inv => KeyboardDelivers
  <2>1. SUFFICES ASSUME Inv PROVE KeyboardDelivers
      OBVIOUS
  <2>2. Kernel.kb = kb /\ kb \in KbRecord
      BY <2>1, InvPipe, KbIs, KernelFields
  <2>3. Pending(kb) = Held(kb)
      BY <2>2, HeldIs
  <2> QED  BY <2>1, <2>2, <2>3 DEF KeyboardDelivers, Inv, Typed
<1> QED  BY <1>1, PipelineInvariant, PTL

\* The right command gets every byte the left one wrote, in order and each once,
\* for every length of the pipe's ring and every text, across the sleeps and the
\* wake-ups of readPipe and writePipe; and it ends by itself only after the left
\* command has, with all of the text read, and by filter printed without its vowels.
THEOREM PipeIsDelivered == Spec => []PipeDelivers
<1>1. Inv => PipeDelivers
  <2>1. SUFFICES ASSUME Inv PROVE PipeDelivers
      OBVIOUS
  <2>2. Delivered /\ Ended
      BY <2>1 DEF Inv
  <2>3. getValidPipe(Kernel, id) <=> ThePipe.open
      BY <2>1, InvPipe
  <2>4. Unread(Kernel, id) = RingOf(ThePipe)
      BY DEF Unread, RingOf, Ring, ThePipe
  <2>5. getValidPipe(Kernel, id) /\ right # "failed" /\ ~killed /\ ~stray => sent = received \o Unread(Kernel, id)
      BY <2>2, <2>3, <2>4 DEF Delivered, Good
  <2>6. right \in Exiting \cup {"gone"} => right # "failed"
      BY DEF Exiting
  <2>7. right \in Exiting \cup {"gone"} /\ ~killed /\ ~stray =>
          AllRead /\ ~LeftWrites
      BY <2>2, <2>6 DEF Ended, Good, Writing, LeftWrites
  <2> QED  BY <2>5, <2>7 DEF PipeDelivers, AllRead
<1> QED  BY <1>1, PipelineInvariant, PTL

=============================================================================
