--------------------------- MODULE SchedulerProofs ---------------------------
(***************************************************************************)
(* Proofs about Scheduler, for any set of processes, any number of         *)
(* priority levels, any aging threshold and any quantum.                   *)
(***************************************************************************)
EXTENDS Scheduler, Arithmetic

\* Scheduler's queue discipline, as a predicate on arbitrary PCB states st,
\* priorities pr and queue tables qs.
Disciplined(st, pr, qs) ==
    /\ \A l \in Priority : \A i \in 1..Len(qs[l]) :
          /\ qs[l][i] # Idle
          /\ st[qs[l][i]] = "READY"
          /\ pr[qs[l][i]] = l
    /\ \A l \in Priority : \A i, j \in 1..Len(qs[l]) : qs[l][i] = qs[l][j] => i = j
    /\ \A p \in Proc \ {Idle} :
          st[p] = "READY" => \E i \in 1..Len(qs[pr[p]]) : qs[pr[p]][i] = p

States     == [Proc -> ProcessState]
Priorities == [Proc -> Priority]
Tables     == [Priority -> Seq(Proc)]

\* QueueTidy, as a predicate of explicit arguments.
LEMMA DisciplinedIsDiscipline ==
    ASSUME TypeOK
    PROVE  QueueTidy <=> Disciplined(state, priority, queues)
<1>1. \A l \in Priority : DOMAIN queues[l] = 1..Len(queues[l])
    BY DEF TypeOK
<1>2. \A p \in Proc : priority[p] \in Priority
    BY DEF TypeOK
<1> QED
    BY SMTT(40), <1>1, <1>2 DEF QueueTidy, QueuedIsReady, QueuedOnce, ReadyIsQueued,
                      Disciplined, InQueue

\* Removing node k of a queue.
LEMMA CutAtProperties ==
    ASSUME NEW q \in Seq(Proc), NEW k \in 1..Len(q)
    PROVE  /\ CutAt(q, k) \in Seq(Proc)
           /\ Len(CutAt(q, k)) = Len(q) - 1
           /\ \A j \in 1..(Len(q)-1) :
                CutAt(q, k)[j] = IF j < k THEN q[j] ELSE q[j+1]
<1>1. Len(q) \in Nat /\ Len(q) - 1 \in Nat
    OBVIOUS
<1>2. \A j \in 1..(Len(q)-1) : (IF j < k THEN q[j] ELSE q[j+1]) \in Proc
    OBVIOUS
<1> QED
    BY <1>1, <1>2 DEF CutAt

\* In a queue without repetitions a member has exactly one index.
LEMMA FirstMatchProperties ==
    ASSUME NEW q \in Seq(Proc), NEW p \in Proc, NEW k \in 1..Len(q), q[k] = p,
           \A i, j \in 1..Len(q) : q[i] = q[j] => i = j
    PROVE  FirstMatch(q, p) = k
<1>1. DOMAIN q = 1..Len(q)
    OBVIOUS
<1>2. /\ k \in DOMAIN q /\ q[k] = p
      /\ \A j \in 1..(k-1) : q[j] # p
    BY <1>1
<1>3. \A m \in DOMAIN q : q[m] = p => m = k
    BY <1>1
<1> QED
    BY <1>2, <1>3 DEF FirstMatch

\* enqueue on one level of the table.
LEMMA EnqueueProperties ==
    ASSUME NEW qs \in Tables, NEW k \in Priority, NEW p \in Proc
    PROVE  LET qs2 == [qs EXCEPT ![k] = enqueue(@, p)]
           IN  /\ qs2 \in Tables
               /\ \A l \in Priority \ {k} : qs2[l] = qs[l]
               /\ Len(qs2[k]) = Len(qs[k]) + 1
               /\ \A i \in 1..Len(qs[k]) : qs2[k][i] = qs[k][i]
               /\ qs2[k][Len(qs[k]) + 1] = p
    BY DEF Tables, enqueue

\* add_to_scheduler keeps the discipline: a process that is in no queue becomes
\* READY and enters the queue of the priority it has now.
LEMMA AddDisciplined ==
    ASSUME NEW st \in States, NEW pr \in Priorities, NEW qs \in Tables,
           NEW p \in Proc, NEW k \in Priority,
           p # Idle, st[p] # "READY", Disciplined(st, pr, qs)
    PROVE  Disciplined([st EXCEPT ![p] = "READY"], [pr EXCEPT ![p] = k],
                       [qs EXCEPT ![k] = enqueue(@, p)])
<1> DEFINE st2 == [st EXCEPT ![p] = "READY"]
           pr2 == [pr EXCEPT ![p] = k]
           qs2 == [qs EXCEPT ![k] = enqueue(@, p)]
<1>1. /\ qs2 \in Tables
      /\ \A l \in Priority \ {k} : qs2[l] = qs[l]
      /\ Len(qs2[k]) = Len(qs[k]) + 1
      /\ \A i \in 1..Len(qs[k]) : qs2[k][i] = qs[k][i]
      /\ qs2[k][Len(qs[k]) + 1] = p
    BY EnqueueProperties
<1>2. /\ st2[p] = "READY" /\ pr2[p] = k
      /\ \A r \in Proc \ {p} : st2[r] = st[r] /\ pr2[r] = pr[r]
      /\ \A r \in Proc : pr2[r] \in Priority /\ pr[r] \in Priority
    BY DEF States, Priorities
<1>3. \A l \in Priority : Len(qs[l]) \in Nat /\ \A i \in 1..Len(qs[l]) : qs[l][i] \in Proc
    BY DEF Tables
<1>4. \A l \in Priority : \A i \in 1..Len(qs[l]) :
         qs[l][i] # p /\ qs[l][i] # Idle /\ st[qs[l][i]] = "READY" /\ pr[qs[l][i]] = l
    BY <1>3 DEF Disciplined
<1> HIDE DEF st2, pr2, qs2
<1>5. \A l \in Priority : \A i \in 1..Len(qs2[l]) :
         qs2[l][i] # Idle /\ st2[qs2[l][i]] = "READY" /\ pr2[qs2[l][i]] = l
  <2> SUFFICES ASSUME NEW l \in Priority, NEW i \in 1..Len(qs2[l])
               PROVE  qs2[l][i] # Idle /\ st2[qs2[l][i]] = "READY" /\ pr2[qs2[l][i]] = l
      OBVIOUS
  <2>1. CASE l = k /\ i = Len(qs[k]) + 1
      BY <1>1, <1>2, <2>1
  <2>2. CASE ~(l = k /\ i = Len(qs[k]) + 1)
    <3>1. i \in 1..Len(qs[l]) /\ qs2[l][i] = qs[l][i]
        BY <1>1, <1>3, <2>2
    <3> QED  BY <1>2, <1>3, <1>4, <3>1
  <2> QED  BY <2>1, <2>2
<1>6. \A l \in Priority : \A i, j \in 1..Len(qs2[l]) : qs2[l][i] = qs2[l][j] => i = j
  <2> SUFFICES ASSUME NEW l \in Priority, NEW i \in 1..Len(qs2[l]), NEW j \in 1..Len(qs2[l]),
                      qs2[l][i] = qs2[l][j]
               PROVE  i = j
      OBVIOUS
  <2>1. \A a, b \in 1..Len(qs[l]) : qs[l][a] = qs[l][b] => a = b
      BY DEF Disciplined
  <2>2. CASE l # k
      BY <1>1, <2>1, <2>2
  <2>3. CASE l = k
    <3>1. \A x \in 1..Len(qs2[l]) :
             \/ x = Len(qs[l]) + 1 /\ qs2[l][x] = p
             \/ x \in 1..Len(qs[l]) /\ qs2[l][x] = qs[l][x] /\ qs[l][x] # p
        BY <1>1, <1>3, <1>4, <2>3
    <3> QED  BY <2>1, <3>1
  <2> QED  BY <2>2, <2>3
<1>7. \A r \in Proc \ {Idle} :
         st2[r] = "READY" => \E i \in 1..Len(qs2[pr2[r]]) : qs2[pr2[r]][i] = r
  <2> SUFFICES ASSUME NEW r \in Proc \ {Idle}, st2[r] = "READY"
               PROVE  \E i \in 1..Len(qs2[pr2[r]]) : qs2[pr2[r]][i] = r
      OBVIOUS
  <2>1. CASE r = p
    <3>1. Len(qs[k]) + 1 \in 1..Len(qs2[k])
        BY <1>1, <1>3
    <3> QED  BY <1>1, <1>2, <2>1, <3>1
  <2>2. CASE r # p
    <3>1. PICK i \in 1..Len(qs[pr[r]]) : qs[pr[r]][i] = r
        BY <1>2, <2>2 DEF Disciplined
    <3>2. i \in 1..Len(qs2[pr[r]]) /\ qs2[pr[r]][i] = r
        BY <1>1, <1>2, <1>3, <3>1
    <3> QED  BY <1>2, <2>2, <3>2
  <2> QED  BY <2>1, <2>2
<1> QED
    BY <1>5, <1>6, <1>7 DEF Disciplined, st2, pr2, qs2

\* remove_from_all_priority_queues keeps the discipline when the process leaves
\* READY (or was not READY to begin with).
LEMMA RemoveDisciplined ==
    ASSUME NEW st \in States, NEW pr \in Priorities, NEW qs \in Tables,
           NEW p \in Proc, NEW s \in ProcessState \ {"READY"},
           p # Idle, Disciplined(st, pr, qs)
    PROVE  LET qs2 == [qs EXCEPT ![pr[p]] = queueRemove(@, p)]
           IN  qs2 \in Tables /\ Disciplined([st EXCEPT ![p] = s], pr, qs2)
<1> DEFINE st2 == [st EXCEPT ![p] = s]
           k == pr[p]
           q == qs[k]
           qs2 == [qs EXCEPT ![k] = queueRemove(@, p)]
<1>1. k \in Priority /\ q \in Seq(Proc) /\ DOMAIN q = 1..Len(q) /\ Len(q) \in Nat
    BY DEF Priorities, Tables
<1>2. st2[p] = s /\ s # "READY" /\ \A r \in Proc \ {p} : st2[r] = st[r]
    BY DEF States
<1>3. \A l \in Priority : Len(qs[l]) \in Nat /\ \A i \in 1..Len(qs[l]) : qs[l][i] \in Proc
    BY DEF Tables
<1>4. \A r \in Proc : pr[r] \in Priority
    BY DEF Priorities
<1>5. CASE ~InQueue(q, p)
  <2>1. qs2 = qs
      BY <1>1, <1>5 DEF queueRemove, Tables
  <2>2. \A l \in Priority : \A i \in 1..Len(qs[l]) : qs[l][i] # p
      BY <1>1, <1>5 DEF InQueue, Disciplined
  <2>3. Disciplined(st2, pr, qs)
    <3> HIDE DEF st2, k, q, qs2
    <3>1. \A l \in Priority : \A i \in 1..Len(qs[l]) : st2[qs[l][i]] = "READY"
        BY <1>2, <1>3, <2>2 DEF Disciplined
    <3>2. \A r \in Proc : st2[r] = "READY" => st[r] = "READY"
        BY <1>2
    <3> QED  BY <3>1, <3>2 DEF Disciplined
  <2> QED  BY <2>1, <2>3
<1>6. CASE InQueue(q, p)
  <2>1. PICK n \in 1..Len(q) : q[n] = p
      BY <1>1, <1>6 DEF InQueue
  <2>2. \A i, j \in 1..Len(q) : q[i] = q[j] => i = j
      BY <1>1 DEF Disciplined
  <2>3. FirstMatch(q, p) = n
      BY <1>1, <2>1, <2>2, FirstMatchProperties
  <2>4. qs2 = [qs EXCEPT ![k] = CutAt(q, n)]
      BY <1>1, <1>6, <2>3 DEF queueRemove
  <2>5. /\ CutAt(q, n) \in Seq(Proc)
        /\ Len(CutAt(q, n)) = Len(q) - 1
        /\ \A j \in 1..(Len(q)-1) : CutAt(q, n)[j] = IF j < n THEN q[j] ELSE q[j+1]
      BY <1>1, CutAtProperties
  <2>6. /\ qs2 \in Tables
        /\ qs2[k] = CutAt(q, n)
        /\ \A l \in Priority \ {k} : qs2[l] = qs[l]
      BY <1>1, <2>4, <2>5 DEF Tables
  <2>7. Disciplined(st2, pr, qs2)
    <3> HIDE DEF st2, k, qs2
    <3>1. \A l \in Priority : \A i \in 1..Len(qs2[l]) :
             qs2[l][i] # Idle /\ st2[qs2[l][i]] = "READY" /\ pr[qs2[l][i]] = l
      <4> SUFFICES ASSUME NEW l \in Priority, NEW i \in 1..Len(qs2[l])
                   PROVE  qs2[l][i] # Idle /\ st2[qs2[l][i]] = "READY" /\ pr[qs2[l][i]] = l
          OBVIOUS
      <4>1. CASE l = k
        <5>1. PICK m \in 1..Len(q) : m # n /\ qs2[l][i] = q[m]
          <6>1. i \in 1..(Len(q)-1) /\ qs2[l][i] = IF i < n THEN q[i] ELSE q[i+1]
              BY <1>1, <2>5, <2>6, <4>1
          <6>2. CASE i < n
              BY <1>1, <6>1, <6>2
          <6>3. CASE ~(i < n)
            <7>1. i + 1 \in 1..Len(q) /\ i + 1 # n /\ qs2[l][i] = q[i+1]
                BY <1>1, <6>1, <6>3
            <7> QED  BY <7>1
          <6> QED  BY <6>2, <6>3
        <5>2. q[m] \in Proc \ {p}
            BY <1>1, <2>1, <2>2, <5>1
        <5> QED  BY <1>1, <1>2, <4>1, <5>1, <5>2 DEF Disciplined
      <4>2. CASE l # k
        <5>1. qs2[l] = qs[l] /\ qs[l][i] # p /\ qs[l][i] \in Proc
            BY <1>3, <2>6, <4>2 DEF Disciplined, k
        <5> QED  BY <1>2, <5>1 DEF Disciplined
      <4> QED  BY <4>1, <4>2
    <3>2. \A l \in Priority : \A i, j \in 1..Len(qs2[l]) : qs2[l][i] = qs2[l][j] => i = j
      <4> SUFFICES ASSUME NEW l \in Priority, NEW i \in 1..Len(qs2[l]), NEW j \in 1..Len(qs2[l]),
                          qs2[l][i] = qs2[l][j]
                   PROVE  i = j
          OBVIOUS
      <4>1. CASE l = k
        <5> DEFINE ix(x) == IF x < n THEN x ELSE x + 1
        <5>1. \A x \in 1..Len(qs2[l]) : ix(x) \in 1..Len(q) /\ qs2[l][x] = q[ix(x)]
            BY SMTT(40), <1>1, <2>5, <2>6, <4>1
        <5>2. ix(i) = ix(j)
            BY <2>2, <5>1
        <5> QED  BY <5>2
      <4>2. CASE l # k
          BY <2>6, <4>2 DEF Disciplined
      <4> QED  BY <4>1, <4>2
    <3>3. \A r \in Proc \ {Idle} :
             st2[r] = "READY" => \E i \in 1..Len(qs2[pr[r]]) : qs2[pr[r]][i] = r
      <4> SUFFICES ASSUME NEW r \in Proc \ {Idle}, st2[r] = "READY"
                   PROVE  \E i \in 1..Len(qs2[pr[r]]) : qs2[pr[r]][i] = r
          OBVIOUS
      <4>1. r # p /\ st[r] = "READY"
          BY <1>2
      <4>2. PICK m \in 1..Len(qs[pr[r]]) : qs[pr[r]][m] = r
          BY <4>1 DEF Disciplined
      <4>3. CASE pr[r] = k
        <5>1. m # n
            BY <2>1, <4>1, <4>2, <4>3
        <5>2. CASE m < n
            BY <1>1, <2>5, <2>6, <4>2, <4>3, <5>2
        <5>3. CASE m > n
          <6>1. m - 1 \in 1..Len(qs2[pr[r]])
              BY <1>1, <2>5, <2>6, <4>2, <4>3, <5>3
          <6>2. qs2[pr[r]][m-1] = r
              BY <1>1, <2>5, <2>6, <4>2, <4>3, <5>3
          <6> QED  BY <6>1, <6>2
        <5> QED  BY <1>1, <5>1, <5>2, <5>3
      <4>4. CASE pr[r] # k
          BY <1>4, <2>6, <4>2, <4>4
      <4> QED  BY <4>3, <4>4
    <3> QED  BY <3>1, <3>2, <3>3 DEF Disciplined
  <2> QED  BY <2>6, <2>7
<1> QED  BY <1>5, <1>6

\* Changing the state of a process between two values other than READY.
LEMMA OtherStateDisciplined ==
    ASSUME NEW st \in States, NEW st2 \in States, NEW pr \in Priorities, NEW pr2 \in Priorities,
           NEW qs \in Tables,
           \A r \in Proc \ {Idle} : st[r] = "READY" <=> st2[r] = "READY",
           \A r \in Proc : st[r] = "READY" => pr2[r] = pr[r],
           Disciplined(st, pr, qs)
    PROVE  Disciplined(st2, pr2, qs)
<1>1. \A l \in Priority : \A i \in 1..Len(qs[l]) : qs[l][i] \in Proc
    BY DEF Tables
<1> QED
    BY SMTT(40), <1>1 DEF Disciplined

\* The search loop of schedule(): in a disciplined table the first node of the
\* highest level in use is taken, and nothing else is dropped.
LEMMA DequeueDisciplined ==
    ASSUME NEW st \in States, NEW pr \in Priorities, NEW qs \in Tables,
           NEW l \in Priority, NEW i \in 1..Len(qs[l]),
           Disciplined(st, pr, qs),
           \A j \in 1..(i-1) : ~(st[qs[l][j]] = "READY" /\ qs[l][j] # Idle),
           \A m \in (l+1)..MaxPriority : \A j \in 1..Len(qs[m]) :
              ~(st[qs[m][j]] = "READY" /\ qs[m][j] # Idle)
    PROVE  LET next == qs[l][i]
               qs2 == [m \in Priority |->
                         CASE m > l -> <<>>
                           [] m = l -> SubSeq(qs[m], i+1, Len(qs[m]))
                           [] m < l -> qs[m]]
           IN  /\ next \in Proc /\ next # Idle /\ st[next] = "READY" /\ pr[next] = l
               /\ qs2 \in Tables
               /\ Disciplined([st EXCEPT ![next] = "RUNNING"], pr, qs2)
               /\ \A p \in Proc \ {Idle} : st[p] = "READY" => pr[p] <= l
<1> DEFINE next == qs[l][i]
           q == qs[l]
           st2 == [st EXCEPT ![next] = "RUNNING"]
           rest == SubSeq(q, i+1, Len(q))
           qs2 == [m \in Priority |->
                     CASE m > l -> <<>>
                       [] m = l -> SubSeq(qs[m], i+1, Len(qs[m]))
                       [] m < l -> qs[m]]
<1>1. /\ q \in Seq(Proc) /\ Len(q) \in Nat /\ l \in Nat
      /\ \A m \in Priority : m \in Nat /\ m <= MaxPriority /\ Len(qs[m]) \in Nat /\ qs[m] \in Seq(Proc)
      /\ \A m \in Priority : \A j \in 1..Len(qs[m]) : qs[m][j] \in Proc
    BY LimitAssumption DEF Tables, Priority
<1>2. next \in Proc /\ next # Idle /\ st[next] = "READY" /\ pr[next] = l
    BY <1>1 DEF Disciplined
<1>3. i = 1
  <2>1. SUFFICES ASSUME i # 1 PROVE FALSE
      OBVIOUS
  <2>2. 1 \in 1..(i-1) /\ 1 \in 1..Len(q)
      BY <1>1, <2>1
  <2> QED  BY <2>2 DEF Disciplined
<1>3a. 1 \in 1..Len(q) /\ next = q[1]
    BY <1>1, <1>3
<1>4. \A m \in Priority : m > l => Len(qs[m]) = 0
  <2> SUFFICES ASSUME NEW m \in Priority, m > l, Len(qs[m]) # 0
               PROVE  FALSE
      OBVIOUS
  <2>1. m \in (l+1)..MaxPriority /\ 1 \in 1..Len(qs[m])
      BY <1>1 DEF Priority
  <2> QED  BY <2>1 DEF Disciplined
<1>5. /\ rest \in Seq(Proc)
      /\ Len(rest) = Len(q) - 1
      /\ \A j \in 1..(Len(q)-1) : rest[j] = q[j+1]
    BY <1>1, <1>3
<1>6. \A m \in Priority : qs2[m] = IF m > l THEN <<>> ELSE IF m = l THEN rest ELSE qs[m]
    BY <1>1
<1>7. qs2 \in Tables
    BY <1>1, <1>5, <1>6 DEF Tables
<1>8. /\ st2[next] = "RUNNING"
      /\ \A r \in Proc \ {next} : st2[r] = st[r]
    BY <1>2 DEF States
<1>9. \A a, b \in 1..Len(q) : q[a] = q[b] => a = b
    BY DEF Disciplined
<1> HIDE DEF next, q, st2, rest, qs2
<1>10. \A m \in Priority : \A j \in 1..Len(qs2[m]) :
          \E n \in 1..Len(qs[m]) : /\ qs2[m][j] = qs[m][n]
                                   /\ n = (IF m = l THEN j + 1 ELSE j)
                                   /\ qs[m][n] # next
  <2> SUFFICES ASSUME NEW m \in Priority, NEW j \in 1..Len(qs2[m])
               PROVE  \E n \in 1..Len(qs[m]) : /\ qs2[m][j] = qs[m][n]
                                               /\ n = (IF m = l THEN j + 1 ELSE j)
                                               /\ qs[m][n] # next
      OBVIOUS
  <2>1. CASE m > l
      BY <1>6, <2>1
  <2>2. CASE m = l
    <3>0. qs2[m] = rest /\ j \in 1..(Len(q)-1)
        BY <1>1, <1>5, <1>6, <2>2
    <3>1. j + 1 \in 1..Len(q) /\ qs2[m][j] = q[j+1] /\ j + 1 # 1
        BY <1>1, <1>5, <3>0
    <3>2. q[j+1] # next
        BY <1>3a, <1>9, <3>1
    <3> QED  BY <2>2, <3>1, <3>2 DEF q
  <2>3. CASE m < l
    <3>1. qs2[m] = qs[m] /\ j \in 1..Len(qs[m]) /\ m # l
        BY <1>1, <1>6, <2>3
    <3>2. pr[qs[m][j]] = m
        BY <3>1 DEF Disciplined
    <3> QED  BY <1>2, <3>1, <3>2
  <2> QED  BY <1>1, <2>1, <2>2, <2>3
<1>11. \A m \in Priority : \A j \in 1..Len(qs2[m]) :
          qs2[m][j] # Idle /\ st2[qs2[m][j]] = "READY" /\ pr[qs2[m][j]] = m
  <2> SUFFICES ASSUME NEW m \in Priority, NEW j \in 1..Len(qs2[m])
               PROVE  qs2[m][j] # Idle /\ st2[qs2[m][j]] = "READY" /\ pr[qs2[m][j]] = m
      OBVIOUS
  <2>1. PICK n \in 1..Len(qs[m]) : qs2[m][j] = qs[m][n] /\ qs[m][n] # next
      BY <1>10
  <2>2. qs[m][n] \in Proc /\ qs[m][n] # Idle /\ st[qs[m][n]] = "READY" /\ pr[qs[m][n]] = m
      BY <1>1 DEF Disciplined
  <2> QED  BY <1>8, <2>1, <2>2
<1>12. \A m \in Priority : \A a, b \in 1..Len(qs2[m]) : qs2[m][a] = qs2[m][b] => a = b
  <2> SUFFICES ASSUME NEW m \in Priority, NEW a \in 1..Len(qs2[m]), NEW b \in 1..Len(qs2[m]),
                      qs2[m][a] = qs2[m][b]
               PROVE  a = b
      OBVIOUS
  <2>1. PICK n \in 1..Len(qs[m]) : qs2[m][a] = qs[m][n] /\ n = (IF m = l THEN a + 1 ELSE a)
      BY <1>10
  <2>2. PICK o \in 1..Len(qs[m]) : qs2[m][b] = qs[m][o] /\ o = (IF m = l THEN b + 1 ELSE b)
      BY <1>10
  <2>3. n = o
    <3>1. qs[m][n] = qs[m][o]
        BY <2>1, <2>2
    <3> QED  BY <3>1 DEF Disciplined
  <2> QED  BY <2>1, <2>2, <2>3
<1>13. \A p \in Proc \ {Idle} : st[p] = "READY" =>
          /\ pr[p] <= l
          /\ p # next => \E j \in 1..Len(qs2[pr[p]]) : qs2[pr[p]][j] = p
  <2> SUFFICES ASSUME NEW p \in Proc \ {Idle}, st[p] = "READY"
               PROVE  /\ pr[p] <= l
                      /\ p # next => \E j \in 1..Len(qs2[pr[p]]) : qs2[pr[p]][j] = p
      OBVIOUS
  <2>1. pr[p] \in Priority
      BY DEF Priorities
  <2>2. PICK n \in 1..Len(qs[pr[p]]) : qs[pr[p]][n] = p
      BY DEF Disciplined
  <2>3. pr[p] <= l
    <3>1. pr[p] \in Nat /\ l \in Nat /\ Len(qs[pr[p]]) \in Nat
        BY <1>1, <2>1
    <3>2. Len(qs[pr[p]]) # 0
        BY <2>2, <3>1
    <3> QED  BY <1>4, <2>1, <3>1, <3>2
  <2>4. CASE pr[p] = l
    <3>1. p # next => n # 1
        BY <1>3, <2>2, <2>4 DEF next
    <3>2. qs2[l] = rest /\ n \in 1..Len(q) /\ q[n] = p
        BY <1>1, <1>6, <2>2, <2>4 DEF q
    <3>3. n # 1 => n - 1 \in 1..(Len(q)-1) /\ rest[n-1] = q[n]
        BY <1>1, <1>5, <3>2
    <3> QED  BY <1>5, <2>3, <2>4, <3>1, <3>2, <3>3
  <2>5. CASE pr[p] < l
    <3>0. pr[p] \in Nat /\ l \in Nat
        BY <1>1, <2>1
    <3>1. qs2[pr[p]] = qs[pr[p]]
        BY <1>6, <2>1, <2>5, <3>0
    <3> QED  BY <2>2, <2>3, <3>1
  <2>6. pr[p] \in Nat /\ l \in Nat
      BY <1>1, <2>1
  <2> QED  BY <2>3, <2>4, <2>5, <2>6
<1>14. Disciplined(st2, pr, qs2)
    BY <1>8, <1>11, <1>12, <1>13 DEF Disciplined
<1> QED  BY <1>2, <1>7, <1>13, <1>14 DEF next, st2, qs2

-----------------------------------------------------------------------------
(* The inductive invariant.  QueueTidy is not inductive on its own: the    *)
(* requeueing in schedule() is safe because only the owner of the CPU is   *)
(* RUNNING (CpuOwnership), and the types bound the counters.  IInv is what *)
(* every step but one keeps; the step that acts on a stale test leaves     *)
(* AfterRaceInv instead, and the specification ends there.                 *)

USE DEF pcbVars, agingVars, raceVars

IInv == TypeOK /\ QueueTidy /\ CpuOwnership /\ WaitTicksOnlyWhileReady

\* A process between unblock_process's test and its _cli is about to wake another
\* one, which is neither idle nor init; nor is the one that is about to sleep.
WindowSound ==
    /\ pc \in [Proc -> {"user", "force", "reap", "block", "unblock"}]
    /\ tested \in [Proc -> Proc \cup {NoProc}]
    /\ \A c \in Proc :
        /\ pc[c] = "unblock" => c # Idle /\ tested[c] \in Proc \ {c, Idle, InitProc}
        /\ pc[c] = "block" => c \notin {Idle, InitProc}

AfterRaceInv == raced /\ TypeOK /\ CpuOwnership /\ WaitTicksOnlyWhileReady

SInv == WindowSound /\ (IInv \/ AfterRaceInv)

\* The same in the next state.
LEMMA DisciplinedIsDisciplineNext ==
    ASSUME TypeOK'
    PROVE  QueueTidy' <=> Disciplined(state', priority', queues')
<1>1. \A l \in Priority : DOMAIN queues'[l] = 1..Len(queues'[l])
    BY DEF TypeOK
<1>2. \A p \in Proc : priority'[p] \in Priority
    BY DEF TypeOK
<1> QED
    BY <1>1, <1>2 DEF QueueTidy, QueuedIsReady, QueuedOnce, ReadyIsQueued,
                      Disciplined, InQueue

\* What the lemmas about queue tables need of the inductive invariant.
LEMMA TypeFacts ==
    ASSUME IInv
    PROVE  /\ state \in States /\ priority \in Priorities /\ queues \in Tables
           /\ Disciplined(state, priority, queues)
    BY DisciplinedIsDiscipline DEF IInv, TypeOK, States, Priorities, Tables

\* The state main() boots into satisfies the invariant.
LEMMA InitIInv == Init => IInv
<1> SUFFICES ASSUME Init PROVE IInv
    OBVIOUS
<1>1. 0 \in Priority /\ 0 \in 0..AgingThreshold-1 /\ DefaultQuantum \in 0..DefaultQuantum
    BY LimitAssumption DEF Priority
<1>2. queues \in Tables
    BY <1>1, ProcAssumption DEF Init, Tables
<1>3. TypeOK
    BY <1>1, <1>2, ProcAssumption DEF Init, TypeOK, Tables, ProcessState
<1>4. QueueTidy
  <2>1. \A l \in Priority : Len(queues[l]) = 0
      BY DEF Init
  <2>2. \A p \in Proc : state[p] # "READY"
      BY DEF Init
  <2>3. Disciplined(state, priority, queues)
      BY <2>1, <2>2 DEF Disciplined
  <2> QED  BY <1>3, <2>3, DisciplinedIsDiscipline
<1>5. CpuOwnership
    BY ProcAssumption DEF Init, CpuOwnership
<1>6. WaitTicksOnlyWhileReady
    BY DEF Init, WaitTicksOnlyWhileReady
<1> QED  BY <1>3, <1>4, <1>5, <1>6 DEF IInv

\* Calls a process makes, unblocking and killing.

\* create_process adds a process that was in no queue.
LEMMA CreateIInv ==
    ASSUME IInv, NEW c \in Proc, NEW p \in Proc, NEW k \in Priority, create_process(c, p, k)
    PROVE  IInv'
<1> USE DEF create_process, Executes
<1>1. p # Idle /\ p # c /\ running_process = c /\ state[c] = "RUNNING" /\ state[p] = "FREE"
    BY DEF IInv, CpuOwnership
<1>2. queues' \in Tables
    BY TypeFacts, EnqueueProperties DEF Added
<1>3. TypeOK'
  <2>1. pc' \in [Proc -> {"user", "force", "reap", "block", "unblock"}]
      BY DEF IInv, TypeOK
  <2>2. wait_ticks' \in [Proc -> 0..AgingThreshold-1]
      BY LimitAssumption DEF IInv, TypeOK
  <2>3. quantum_remaining' \in [Proc -> 0..DefaultQuantum]
      BY LimitAssumption DEF IInv, TypeOK
  <2> QED  BY <1>2, <2>1, <2>2, <2>3 DEF IInv, TypeOK, Tables, ProcessState
<1>4. Disciplined(state', priority', queues')
    BY <1>1, TypeFacts, AddDisciplined DEF Added
<1>5. CpuOwnership'
    BY <1>1 DEF IInv, CpuOwnership, TypeOK
<1>6. WaitTicksOnlyWhileReady'
    BY <1>1 DEF IInv, WaitTicksOnlyWhileReady, TypeOK
<1> QED  BY <1>3, <1>4, <1>5, <1>6, DisciplinedIsDisciplineNext DEF IInv

\* reap_terminated_processes frees processes that are in no queue.
LEMMA ReapIInv ==
    ASSUME IInv, NEW c \in Proc, reap_terminated_processes(c)
    PROVE  IInv'
<1> USE DEF reap_terminated_processes
<1>1. TypeOK'
    BY DEF IInv, TypeOK, ProcessState
<1>2. Disciplined(state', priority', queues')
  <2>1. state' \in States /\ \A r \in Proc : state[r] = "READY" <=> state'[r] = "READY"
      BY <1>1 DEF TypeOK, States
  <2> QED  BY <2>1, TypeFacts, OtherStateDisciplined
<1>3. CpuOwnership'
    BY ProcAssumption DEF IInv, CpuOwnership, TypeOK
<1>4. WaitTicksOnlyWhileReady'
    BY DEF IInv, WaitTicksOnlyWhileReady, TypeOK
<1> QED  BY <1>1, <1>2, <1>3, <1>4, DisciplinedIsDisciplineNext DEF IInv

\* yield_cpu only empties the quantum of the running process.
LEMMA YieldIInv ==
    ASSUME IInv, NEW c \in Proc, yield_cpu(c)
    PROVE  IInv'
<1> USE DEF yield_cpu, Executes
<1>1. TypeOK'
    BY LimitAssumption DEF IInv, TypeOK
<1>2. Disciplined(state', priority', queues')
    BY TypeFacts
<1>3. CpuOwnership'
    BY DEF IInv, CpuOwnership, TypeOK
<1>4. WaitTicksOnlyWhileReady'
    BY DEF IInv, WaitTicksOnlyWhileReady
<1> QED  BY <1>1, <1>2, <1>3, <1>4, DisciplinedIsDisciplineNext DEF IInv

\* block_process takes the process out of its queue, its own included.
LEMMA BlockIInv ==
    ASSUME IInv, NEW c \in Proc, NEW p \in Proc, block_process(c, p)
    PROVE  IInv'
<1> USE DEF block_process, Executes
<1>1. p # Idle /\ running_process = c /\ state[c] = "RUNNING"
    BY DEF IInv, CpuOwnership
<1>2. queues' \in Tables /\ Disciplined(state', priority', queues')
    BY <1>1, TypeFacts, RemoveDisciplined DEF Removed, ProcessState
<1>3. TypeOK'
    BY SMTT(40), <1>2, LimitAssumption DEF IInv, TypeOK, Tables, ProcessState
<1>4. CpuOwnership'
    BY <1>1, ProcAssumption DEF IInv, CpuOwnership, TypeOK
<1>5. WaitTicksOnlyWhileReady'
    BY DEF IInv, WaitTicksOnlyWhileReady, TypeOK
<1> QED  BY <1>2, <1>3, <1>4, <1>5, DisciplinedIsDisciplineNext DEF IInv

\* unblock_process puts a blocked process back, also the one that is
\* still on its way to int 0x20.
LEMMA UnblockIInv ==
    ASSUME IInv, NEW p \in Proc, unblock_process(p)
    PROVE  IInv'
<1> USE DEF unblock_process
<1>1. priority[p] \in Priority /\ priority = [priority EXCEPT ![p] = priority[p]]
    BY DEF IInv, TypeOK
<1>2. queues' \in Tables
    BY <1>1, TypeFacts, EnqueueProperties DEF Added
<1>3. Disciplined(state', priority', queues')
  <2>1. Disciplined([state EXCEPT ![p] = "READY"], [priority EXCEPT ![p] = priority[p]],
                    [queues EXCEPT ![priority[p]] = enqueue(@, p)])
      BY <1>1, TypeFacts, AddDisciplined
  <2> QED  BY <1>1, <2>1 DEF Added
<1>4. TypeOK'
    BY <1>2 DEF IInv, TypeOK, Tables, ProcessState
<1>5. CpuOwnership'
    BY ProcAssumption DEF IInv, CpuOwnership, TypeOK
<1>6. WaitTicksOnlyWhileReady'
    BY DEF IInv, WaitTicksOnlyWhileReady, TypeOK
<1> QED  BY <1>3, <1>4, <1>5, <1>6, DisciplinedIsDisciplineNext DEF IInv

\* block_process of the caller itself, interruptible after its test: the process
\* that executes is RUNNING whatever happened in between.
LEMMA BlockSelfIInv ==
    ASSUME IInv, NEW c \in Proc, block_process_test(c) \/ block_process_act(c), c # Idle
    PROVE  IInv'
<1>1. CASE block_process_test(c)
  <2> USE <1>1 DEF block_process_test, Executes
  <2>1. TypeOK'
      BY DEF IInv, TypeOK
  <2>2. Disciplined(state', priority', queues')
      BY TypeFacts
  <2>3. CpuOwnership'
      BY DEF IInv, CpuOwnership, TypeOK
  <2>4. WaitTicksOnlyWhileReady'
      BY DEF IInv, WaitTicksOnlyWhileReady
  <2> QED  BY <2>1, <2>2, <2>3, <2>4, DisciplinedIsDisciplineNext DEF IInv
<1>2. CASE block_process_act(c)
  <2> USE <1>2 DEF block_process_act
  <2>1. running_process = c /\ state[c] = "RUNNING"
      BY DEF IInv, CpuOwnership
  <2>2. queues' \in Tables /\ Disciplined(state', priority', queues')
    <3>1. "BLOCKED" \in ProcessState \ {"READY"}
        BY DEF ProcessState
    <3>2. /\ Removed(c) \in Tables
          /\ Disciplined([state EXCEPT ![c] = "BLOCKED"], priority, Removed(c))
        BY <3>1, TypeFacts, RemoveDisciplined DEF Removed
    <3> QED  BY <3>2
  <2>3. TypeOK'
      BY SMTT(40), <2>2, LimitAssumption DEF IInv, TypeOK, Tables, ProcessState
  <2>4. CpuOwnership'
      BY <2>1, ProcAssumption DEF IInv, CpuOwnership, TypeOK
  <2>5. WaitTicksOnlyWhileReady'
      BY DEF IInv, WaitTicksOnlyWhileReady, TypeOK
  <2> QED  BY <2>2, <2>3, <2>4, <2>5, DisciplinedIsDisciplineNext DEF IInv
<1> QED  BY <1>1, <1>2

\* unblock_process with interrupts on, its test.
LEMMA UnblockTestIInv ==
    ASSUME IInv, NEW c \in Proc, NEW p \in Proc, unblock_process_test(c, p)
    PROVE  IInv'
<1> USE DEF unblock_process_test, Executes
<1>1. TypeOK'
    BY DEF IInv, TypeOK
<1>2. Disciplined(state', priority', queues')
    BY TypeFacts
<1>3. CpuOwnership'
    BY DEF IInv, CpuOwnership, TypeOK
<1>4. WaitTicksOnlyWhileReady'
    BY DEF IInv, WaitTicksOnlyWhileReady
<1> QED  BY <1>1, <1>2, <1>3, <1>4, DisciplinedIsDisciplineNext DEF IInv

\* Its second part keeps the discipline if the process is still BLOCKED, and is
\* recorded as a race if it is not.
LEMMA UnblockActSInv ==
    ASSUME IInv, WindowSound, NEW c \in Proc, unblock_process_act(c)
    PROVE  IInv' \/ AfterRaceInv'
<1> USE DEF unblock_process_act
<1>1. PICK p \in Proc \ {c, Idle, InitProc} : p = tested[c]
    BY DEF WindowSound
<1>2. priority[p] \in Priority /\ priority = [priority EXCEPT ![p] = priority[p]]
    BY DEF IInv, TypeOK
<1>3. queues' \in Tables
    BY <1>1, <1>2, TypeFacts, EnqueueProperties DEF Added
<1>4. TypeOK'
    BY <1>1, <1>3, ProcAssumption DEF IInv, TypeOK, Tables, ProcessState
<1>5. CpuOwnership'
    BY <1>1, ProcAssumption DEF IInv, CpuOwnership, TypeOK
<1>6. WaitTicksOnlyWhileReady'
    BY <1>1 DEF IInv, WaitTicksOnlyWhileReady, TypeOK
<1>7. CASE state[p] # "BLOCKED"
    BY <1>1, <1>4, <1>5, <1>6, <1>7 DEF AfterRaceInv
<1>8. CASE state[p] = "BLOCKED"
  <2>1. Disciplined([state EXCEPT ![p] = "READY"], [priority EXCEPT ![p] = priority[p]],
                    [queues EXCEPT ![priority[p]] = enqueue(@, p)])
      BY <1>1, <1>2, <1>8, TypeFacts, AddDisciplined
  <2>2. Disciplined(state', priority', queues')
      BY <1>1, <1>2, <2>1 DEF Added
  <2> QED  BY <1>4, <1>5, <1>6, <2>2, DisciplinedIsDisciplineNext DEF IInv
<1> QED  BY <1>7, <1>8

\* set_priority on a process that is in no queue.
LEMMA SetPriorityIInv ==
    ASSUME IInv, NEW c \in Proc, NEW p \in Proc, NEW k \in Priority,
           state[p] # "READY", set_priority(c, p, k)
    PROVE  IInv'
<1> USE DEF set_priority, Executes
<1>1. TypeOK'
    BY SMTT(40), LimitAssumption DEF IInv, TypeOK
<1>2. Disciplined(state', priority', queues')
  <2>1. priority' \in Priorities /\ \A r \in Proc : state[r] = "READY" => priority'[r] = priority[r]
      BY <1>1 DEF IInv, TypeOK, Priorities
  <2> QED  BY <2>1, TypeFacts, OtherStateDisciplined
<1>3. CpuOwnership'
    BY DEF IInv, CpuOwnership
<1>4. WaitTicksOnlyWhileReady'
    BY DEF IInv, WaitTicksOnlyWhileReady
<1> QED  BY <1>1, <1>2, <1>3, <1>4, DisciplinedIsDisciplineNext DEF IInv

\* process_terminator gives the CPU up together with the PCB.
LEMMA TerminateIInv ==
    ASSUME IInv, NEW c \in Proc, process_terminator(c)
    PROVE  IInv'
<1> USE DEF process_terminator, Executes
<1>1. queues' \in Tables /\ Disciplined(state', priority', queues')
  <2>1. c # Idle /\ "TERMINATED" \in ProcessState \ {"READY"}
      BY DEF ProcessState
  <2> QED  BY <2>1, TypeFacts, RemoveDisciplined DEF Removed
<1>2. TypeOK'
    BY <1>1 DEF IInv, TypeOK, Tables, ProcessState
<1>3. CpuOwnership'
    BY ProcAssumption DEF IInv, CpuOwnership, TypeOK
<1>4. WaitTicksOnlyWhileReady'
    BY DEF IInv, WaitTicksOnlyWhileReady, TypeOK
<1> QED  BY <1>1, <1>2, <1>3, <1>4, DisciplinedIsDisciplineNext DEF IInv

\* kill_process unlinks the PCB before it is freed.
LEMMA KillIInv ==
    ASSUME IInv, NEW p \in Proc, kill_process(p)
    PROVE  IInv'
<1> USE DEF kill_process
<1>1. queues' \in Tables /\ Disciplined(state', priority', queues')
    BY TypeFacts, RemoveDisciplined DEF Removed, ProcessState
<1>2. TypeOK'
    BY <1>1 DEF IInv, TypeOK, Tables, ProcessState
<1>3. CpuOwnership'
    BY ProcAssumption DEF IInv, CpuOwnership, TypeOK
<1>4. WaitTicksOnlyWhileReady'
    BY DEF IInv, WaitTicksOnlyWhileReady, TypeOK
<1> QED  BY <1>1, <1>2, <1>3, <1>4, DisciplinedIsDisciplineNext DEF IInv

\* The steps of schedule().

\* Entering schedule(), by the timer or by int 0x20.
LEMMA EnterIInv ==
    ASSUME IInv, TimerTick \/ \E c \in Proc : ForceSchedule(c)
    PROVE  IInv'
<1> USE DEF TimerTick, ForceSchedule, EnterSchedule
<1>1. TypeOK'
  <2>1. pc' \in [Proc -> {"user", "force", "reap", "block", "unblock"}]
      BY DEF IInv, TypeOK
  <2> QED  BY <2>1 DEF IInv, TypeOK
<1>2. Disciplined(state', priority', queues')
    BY TypeFacts
<1>3. CpuOwnership'
    BY DEF IInv, CpuOwnership
<1>4. WaitTicksOnlyWhileReady'
    BY DEF IInv, WaitTicksOnlyWhileReady
<1> QED  BY <1>1, <1>2, <1>3, <1>4, DisciplinedIsDisciplineNext DEF IInv

\* The process apply_aging visits is READY and where its priority says.
LEMMA VisitFacts ==
    ASSUME IInv, NEW p \in Proc, Visits(p)
    PROVE  /\ level \in Priority /\ level < MaxPriority
           /\ Len(queues[level]) \in Nat
           /\ cyclicIter \in 1..Len(queues[level])
           /\ queues[level][cyclicIter] = p
           /\ p # Idle /\ state[p] = "READY" /\ priority[p] = level
           /\ FirstMatch(queues[level], p) = cyclicIter
<1>1. level \in Priority /\ level < MaxPriority
    BY LimitAssumption DEF Visits, IInv, TypeOK, Priority
<1>2. queues[level] \in Seq(Proc)
    BY <1>1 DEF IInv, TypeOK
<1>3. Len(queues[level]) \in Nat /\ cyclicIter \in 1..Len(queues[level])
    BY <1>2 DEF Visits
<1>4. queues[level][cyclicIter] = p
    BY DEF Visits
<1>5. /\ p # Idle /\ state[p] = "READY" /\ priority[p] = level
      /\ \A i, j \in 1..Len(queues[level]) : queues[level][i] = queues[level][j] => i = j
    BY <1>1, <1>3, <1>4, TypeFacts DEF Disciplined
<1>6. FirstMatch(queues[level], p) = cyclicIter
    BY <1>2, <1>3, <1>4, <1>5, FirstMatchProperties
<1> QED  BY <1>1, <1>3, <1>4, <1>5, <1>6

\* A process that is not old enough yet is counted one pass older.
LEMMA AgingCountIInv ==
    ASSUME IInv, NEW p \in Proc, AgingCount(p)
    PROVE  IInv'
<1> USE DEF AgingCount
<1>1. p # Idle /\ state[p] = "READY" /\ Len(queues[level]) \in Nat /\ level \in Nat
      /\ cyclicIter \in 1..Len(queues[level])
    BY VisitFacts DEF IInv, TypeOK
<1>2. level' \in Nat /\ cyclicIter' \in Nat
    BY <1>1 DEF AgingContinue, IterNext
<1>3. wait_ticks' \in [Proc -> 0..AgingThreshold-1]
    BY SMTT(40), LimitAssumption DEF IInv, TypeOK
<1>4. TypeOK'
    BY <1>2, <1>3 DEF IInv, TypeOK
<1>5. Disciplined(state', priority', queues')
    BY TypeFacts
<1>6. CpuOwnership'
    BY DEF IInv, CpuOwnership, Visits
<1>7. WaitTicksOnlyWhileReady'
    BY <1>1 DEF IInv, WaitTicksOnlyWhileReady, TypeOK
<1> QED  BY <1>4, <1>5, <1>6, <1>7, DisciplinedIsDisciplineNext DEF IInv

\* A process that is old enough moves to the highest level.
LEMMA AgingRaiseIInv ==
    ASSUME IInv, NEW p \in Proc, AgingRaise(p)
    PROVE  IInv'
<1> USE DEF AgingRaise
<1> DEFINE q == queues[level]
           st1 == [state EXCEPT ![p] = "BLOCKED"]
           qs1 == [queues EXCEPT ![priority[p]] = queueRemove(@, p)]
<1>1. /\ level \in Priority /\ level < MaxPriority /\ MaxPriority \in Priority
      /\ Len(q) \in Nat
      /\ cyclicIter \in 1..Len(q) /\ q[cyclicIter] = p
      /\ p # Idle /\ state[p] = "READY" /\ priority[p] = level
      /\ FirstMatch(q, p) = cyclicIter
    BY VisitFacts, LimitAssumption DEF Priority
<1>2. qs1 \in Tables /\ Disciplined(st1, priority, qs1)
  <2>1. "BLOCKED" \in ProcessState \ {"READY"}
      BY DEF ProcessState
  <2> QED  BY <1>1, <2>1, TypeFacts, RemoveDisciplined
<1>3. st1 \in States /\ st1[p] = "BLOCKED" /\ [st1 EXCEPT ![p] = "READY"] = state
    BY <1>1, TypeFacts DEF States, ProcessState
<1>4. Disciplined(state, priority', [qs1 EXCEPT ![MaxPriority] = enqueue(@, p)])
    BY <1>1, <1>2, <1>3, TypeFacts, AddDisciplined
<1>5. queues' = [qs1 EXCEPT ![MaxPriority] = enqueue(@, p)]
  <2>1. q \in Seq(Proc) /\ InQueue(q, p) /\ queueRemove(q, p) = CutAt(q, FirstMatch(q, p))
      BY <1>1, TypeFacts DEF Tables, InQueue, queueRemove
  <2>2. qs1 = [queues EXCEPT ![level] = CutAt(q, FirstMatch(q, p))]
      BY <1>1, <2>1
  <2> QED  BY <1>1, <2>2, TypeFacts DEF Tables
<1>6. queues' \in Tables
  <2> HIDE DEF qs1, q
  <2>1. [qs1 EXCEPT ![MaxPriority] = enqueue(@, p)] \in Tables
      BY <1>1, <1>2, EnqueueProperties
  <2> QED  BY <1>5, <2>1
<1>7. level' \in Nat /\ cyclicIter' \in Nat
  <2>1. level \in Nat /\ IterNext(q, cyclicIter) \in Nat
      BY <1>1 DEF IterNext, IInv, TypeOK
  <2>2. IterAfterRemove(q, IterNext(q, cyclicIter), FirstMatch(q, p)) \in Nat
      BY <1>1, <2>1 DEF IterAfterRemove
  <2> QED  BY <2>1, <2>2 DEF AgingContinue
<1>8. TypeOK'
  <2>1. wait_ticks' \in [Proc -> 0..AgingThreshold-1]
      BY LimitAssumption DEF IInv, TypeOK
  <2> QED  BY <1>1, <1>6, <1>7, <2>1 DEF IInv, TypeOK, Tables
<1>9. CpuOwnership'
    BY DEF IInv, CpuOwnership, Visits
<1>10. WaitTicksOnlyWhileReady'
    BY DEF IInv, WaitTicksOnlyWhileReady, TypeOK
<1> QED  BY <1>4, <1>5, <1>8, <1>9, <1>10, DisciplinedIsDisciplineNext DEF IInv

\* The steps of apply_aging that change no PCB.
LEMMA AgingOtherIInv ==
    ASSUME IInv, AgingEmptyLevel \/ AgingDone \/ \E p \in Proc : AgingSkip(p)
    PROVE  IInv'
<1> USE DEF AgingEmptyLevel, AgingDone, AgingSkip
<1>1. TypeOK'
  <2>1. ASSUME NEW p \in Proc, AgingSkip(p) PROVE FALSE
      BY <2>1, VisitFacts DEF Ages
  <2> QED  BY <2>1 DEF IInv, TypeOK
<1>2. Disciplined(state', priority', queues')
    BY TypeFacts
<1>3. CpuOwnership'
    BY DEF IInv, CpuOwnership, Visits
<1>4. WaitTicksOnlyWhileReady'
    BY DEF IInv, WaitTicksOnlyWhileReady
<1> QED  BY <1>1, <1>2, <1>3, <1>4, DisciplinedIsDisciplineNext DEF IInv

\* schedule() returns to the process it interrupted.
LEMMA KeepRunningIInv ==
    ASSUME IInv, KeepRunning
    PROVE  IInv'
<1> USE DEF KeepRunning, Interrupted, QuantumLeft
<1>1. TypeOK'
  <2>1. quantum_remaining' \in [Proc -> 0..DefaultQuantum]
      BY LimitAssumption DEF IInv, TypeOK
  <2> QED  BY <2>1 DEF IInv, TypeOK
<1>2. Disciplined(state', priority', queues')
    BY TypeFacts
<1>3. CpuOwnership'
    BY DEF IInv, CpuOwnership, TypeOK
<1>4. WaitTicksOnlyWhileReady'
    BY DEF IInv, WaitTicksOnlyWhileReady
<1> QED  BY <1>1, <1>2, <1>3, <1>4, DisciplinedIsDisciplineNext DEF IInv

\* Putting the interrupted process back at the tail of its level.
LEMMA BackFacts ==
    ASSUME IInv
    PROVE  /\ StateBack \in States /\ QueuesBack \in Tables
           /\ QuantumBack \in [Proc -> 0..DefaultQuantum]
           /\ Disciplined(StateBack, priority, QueuesBack)
           /\ \A p \in Proc : StateBack[p] # "RUNNING"
           /\ \A p \in Proc : StateBack[p] # state[p] => state[p] = "RUNNING" /\ StateBack[p] = "READY"
<1> USE DEF Interrupted
<1>1. QuantumBack \in [Proc -> 0..DefaultQuantum]
    BY LimitAssumption DEF IInv, TypeOK, QuantumBack
<1>2. CASE ~Interrupted
  <2>1. StateBack = state /\ QueuesBack = queues
      BY <1>2 DEF StateBack, QueuesBack
  <2>2. \A p \in Proc : state[p] # "RUNNING"
      BY <1>2, ProcAssumption DEF IInv, CpuOwnership
  <2> QED  BY <1>1, <2>1, <2>2, TypeFacts
<1>3. CASE Interrupted
  <2> DEFINE r == running_process
  <2>1. r \in Proc /\ state[r] = "RUNNING" /\ priority[r] \in Priority
      BY <1>3 DEF IInv, TypeOK
  <2>2. StateBack = [state EXCEPT ![r] = "READY"] /\ StateBack \in States
      BY <1>3, TypeFacts DEF StateBack, States, ProcessState
  <2>3. /\ \A p \in Proc : StateBack[p] # "RUNNING"
        /\ \A p \in Proc : StateBack[p] # state[p] => state[p] = "RUNNING" /\ StateBack[p] = "READY"
      BY <2>1, <2>2, TypeFacts DEF States, IInv, CpuOwnership
  <2>4. CASE r = Idle
    <3>1. QueuesBack = queues
        BY <2>4 DEF QueuesBack
    <3>2. \A p \in Proc \ {Idle} : state[p] = "READY" <=> StateBack[p] = "READY"
        BY <2>2, <2>4, TypeFacts DEF States
    <3>3. Disciplined(StateBack, priority, queues)
        BY <2>2, <3>2, TypeFacts, OtherStateDisciplined
    <3> QED  BY <1>1, <2>2, <2>3, <3>1, <3>3, TypeFacts
  <2>5. CASE r # Idle
    <3>1. QueuesBack = [queues EXCEPT ![priority[r]] = enqueue(@, r)]
        BY <1>3, <2>5 DEF QueuesBack, Added
    <3>2. priority = [priority EXCEPT ![r] = priority[r]]
        BY <2>1, TypeFacts DEF Priorities
    <3>3. Disciplined(StateBack, [priority EXCEPT ![r] = priority[r]], QueuesBack)
        BY <2>1, <2>2, <2>5, <3>1, TypeFacts, AddDisciplined
    <3>4. QueuesBack \in Tables
        BY <2>1, <3>1, TypeFacts, EnqueueProperties
    <3> QED  BY <1>1, <2>2, <2>3, <3>2, <3>3, <3>4
  <2> QED  BY <2>4, <2>5
<1> QED  BY <1>2, <1>3

\* In a disciplined table the process chosen is the head of its level.
LEMMA SwitchToFacts ==
    ASSUME IInv, NEW l \in Priority, NEW i \in DOMAIN QueuesBack[l], SwitchTo(l, i)
    PROVE  LET next == QueuesBack[l][i]
           IN  /\ next \in Proc /\ next # Idle /\ priority[next] = l
               /\ StateBack[next] = "READY"
               /\ queues' \in Tables
               /\ Disciplined(state', priority', queues')
               /\ \A p \in Proc \ {Idle} : StateBack[p] = "READY" => priority[p] <= l
<1> DEFINE st == StateBack
           qs == QueuesBack
<1>1. st \in States /\ priority \in Priorities /\ qs \in Tables /\ Disciplined(st, priority, qs)
    BY BackFacts, TypeFacts
<1>2. \A m \in Priority : DOMAIN qs[m] = 1..Len(qs[m])
    BY <1>1 DEF Tables
<1>3. /\ \A j \in 1..(i-1) : ~(st[qs[l][j]] = "READY" /\ qs[l][j] # Idle)
      /\ \A m \in (l+1)..MaxPriority : \A j \in DOMAIN qs[m] :
            ~(st[qs[m][j]] = "READY" /\ qs[m][j] # Idle)
    BY DEF SwitchTo, FirstRunnable, Runnable
<1>4. \A m \in (l+1)..MaxPriority : m \in Priority
    BY LimitAssumption DEF Priority
<1>5. \A m \in (l+1)..MaxPriority : \A j \in 1..Len(qs[m]) :
            ~(st[qs[m][j]] = "READY" /\ qs[m][j] # Idle)
    BY <1>2, <1>3, <1>4
<1>6. i \in 1..Len(qs[l])
    BY <1>2
<1> DEFINE next == qs[l][i]
           qs2 == [m \in Priority |->
                     CASE m > l -> <<>>
                       [] m = l -> SubSeq(qs[m], i+1, Len(qs[m]))
                       [] m < l -> qs[m]]
<1>7. queues' = qs2 /\ state' = [st EXCEPT ![next] = "RUNNING"] /\ priority' = priority
    BY DEF SwitchTo
<1> HIDE DEF st, qs
<1>8. /\ next \in Proc /\ next # Idle /\ st[next] = "READY" /\ priority[next] = l
      /\ qs2 \in Tables
      /\ Disciplined([st EXCEPT ![next] = "RUNNING"], priority, qs2)
      /\ \A p \in Proc \ {Idle} : st[p] = "READY" => priority[p] <= l
    BY <1>1, <1>3, <1>5, <1>6, DequeueDisciplined
<1> QED  BY <1>7, <1>8 DEF st, qs

\* schedule() gives the CPU to the process it found.
LEMMA SwitchToIInv ==
    ASSUME IInv, NEW l \in Priority, NEW i \in DOMAIN QueuesBack[l], SwitchTo(l, i)
    PROVE  IInv'
<1> DEFINE next == QueuesBack[l][i]
<1>1. /\ next \in Proc /\ next # Idle /\ StateBack[next] = "READY"
      /\ queues' \in Tables /\ Disciplined(state', priority', queues')
    BY SwitchToFacts
<1>2. /\ state' = [StateBack EXCEPT ![next] = "RUNNING"] /\ running_process' = next /\ cpu' = "user"
      /\ quantum_remaining' = [QuantumBack EXCEPT ![next] = DefaultQuantum]
      /\ wait_ticks' = [wait_ticks EXCEPT ![next] = 0]
      /\ UNCHANGED <<priority, original_priority, pc, raceVars, agingVars>>
    BY DEF SwitchTo
<1>3. /\ StateBack \in States /\ QuantumBack \in [Proc -> 0..DefaultQuantum]
      /\ \A p \in Proc : StateBack[p] # "RUNNING"
      /\ \A p \in Proc : StateBack[p] # state[p] => state[p] = "RUNNING" /\ StateBack[p] = "READY"
    BY BackFacts
<1> HIDE DEF next
<1>4. TypeOK'
  <2>1. quantum_remaining' \in [Proc -> 0..DefaultQuantum]
      BY <1>1, <1>2, <1>3, LimitAssumption
  <2>2. wait_ticks' \in [Proc -> 0..AgingThreshold-1]
      BY <1>1, <1>2, LimitAssumption DEF IInv, TypeOK
  <2>3. state' \in [Proc -> ProcessState]
      BY <1>1, <1>2, <1>3 DEF States, ProcessState
  <2> QED  BY <1>1, <1>2, <2>1, <2>2, <2>3 DEF IInv, TypeOK, Tables
<1>5. CpuOwnership'
  <2>1. state'[next] = "RUNNING" /\ \A p \in Proc \ {next} : state'[p] = StateBack[p]
      BY <1>1, <1>2, <1>3 DEF States
  <2>2. state'[Idle] \in {"READY", "RUNNING"}
      BY <1>1, <1>3, <2>1, ProcAssumption DEF IInv, CpuOwnership
  <2> QED  BY <1>1, <1>2, <1>3, <2>1, <2>2 DEF CpuOwnership
<1>6. WaitTicksOnlyWhileReady'
  <2>1. \A p \in Proc \ {next} : state'[p] = StateBack[p] /\ wait_ticks'[p] = wait_ticks[p]
      BY <1>1, <1>2, <1>3 DEF States, IInv, TypeOK
  <2>2. wait_ticks'[next] = 0
      BY <1>1, <1>2 DEF IInv, TypeOK
  <2> QED  BY <1>3, <2>1, <2>2 DEF IInv, WaitTicksOnlyWhileReady
<1> QED  BY <1>1, <1>4, <1>5, <1>6, DisciplinedIsDisciplineNext DEF IInv

\* The search finds nobody only when every queue is empty.
LEMMA SwitchToIdleFacts ==
    ASSUME IInv, SwitchToIdle
    PROVE  \A p \in Proc \ {Idle} : StateBack[p] # "READY"
<1>1. Disciplined(StateBack, priority, QueuesBack) /\ QueuesBack \in Tables /\ priority \in Priorities
    BY BackFacts, TypeFacts
<1>2. \A m \in Priority : \A j \in 1..Len(QueuesBack[m]) :
         ~(StateBack[QueuesBack[m][j]] = "READY" /\ QueuesBack[m][j] # Idle)
    BY <1>1 DEF SwitchToIdle, Runnable, Tables
<1> SUFFICES ASSUME NEW p \in Proc \ {Idle}, StateBack[p] = "READY"
             PROVE  FALSE
    OBVIOUS
<1>3. PICK j \in 1..Len(QueuesBack[priority[p]]) : QueuesBack[priority[p]][j] = p
    BY <1>1 DEF Disciplined
<1> QED  BY <1>1, <1>2, <1>3 DEF Priorities

\* schedule() gives the CPU to the idle process.
LEMMA SwitchToIdleIInv ==
    ASSUME IInv, SwitchToIdle
    PROVE  IInv'
<1>1. /\ state' = [StateBack EXCEPT ![Idle] = "RUNNING"] /\ running_process' = Idle /\ cpu' = "user"
      /\ quantum_remaining' = QuantumBack
      /\ queues' = [m \in Priority |-> <<>>]
      /\ UNCHANGED <<priority, original_priority, wait_ticks, pc, raceVars, agingVars>>
    BY DEF SwitchToIdle
<1>2. /\ StateBack \in States /\ QuantumBack \in [Proc -> 0..DefaultQuantum]
      /\ \A p \in Proc : StateBack[p] # "RUNNING"
      /\ \A p \in Proc : StateBack[p] # state[p] => state[p] = "RUNNING" /\ StateBack[p] = "READY"
    BY BackFacts
<1>3. state'[Idle] = "RUNNING" /\ \A p \in Proc \ {Idle} : state'[p] = StateBack[p]
    BY <1>1, <1>2, ProcAssumption DEF States
<1>4. TypeOK'
  <2>1. state' \in [Proc -> ProcessState]
      BY <1>1, <1>2 DEF States, ProcessState
  <2>2. queues' \in [Priority -> Seq(Proc)]
      BY <1>1
  <2> QED  BY <1>1, <1>2, <2>1, <2>2, ProcAssumption DEF IInv, TypeOK
<1>5. Disciplined(state', priority', queues')
  <2>1. \A l \in Priority : Len(queues'[l]) = 0
      BY <1>1
  <2>2. \A p \in Proc \ {Idle} : state'[p] # "READY"
      BY <1>3, SwitchToIdleFacts
  <2> QED  BY <2>1, <2>2 DEF Disciplined
<1>6. CpuOwnership'
    BY <1>1, <1>2, <1>3, ProcAssumption DEF CpuOwnership
<1>7. WaitTicksOnlyWhileReady'
    BY <1>1, <1>2, <1>3 DEF IInv, WaitTicksOnlyWhileReady
<1> QED  BY <1>4, <1>5, <1>6, <1>7, DisciplinedIsDisciplineNext DEF IInv

\* The invariant is inductive.
LEMMA NextIInv ==
    ASSUME IInv, WindowSound, [Next]_vars
    PROVE  IInv' \/ AfterRaceInv'
<1>1. CASE \E c \in Proc : KernelCall(c)
  <2>1. ASSUME NEW c \in Proc, block_process_test(c) \/ block_process_act(c) PROVE c # Idle
      BY <2>1 DEF block_process_test, block_process_act, WindowSound
  <2> QED
      BY <1>1, <2>1, CreateIInv, ReapIInv, YieldIInv, BlockIInv, BlockSelfIInv, UnblockTestIInv,
         UnblockActSInv, TerminateIInv, EnterIInv DEF KernelCall
<1>2. CASE \E p \in Proc : unblock_process(p) \/ kill_process(p)
    BY <1>2, UnblockIInv, KillIInv
<1>3. CASE TimerTick
    BY <1>3, EnterIInv
<1>4. CASE Aging
    BY <1>4, AgingCountIInv, AgingRaiseIInv, AgingOtherIInv DEF Aging
<1>5. CASE Dispatch
    BY <1>5, KeepRunningIInv, SwitchToIInv, SwitchToIdleIInv DEF Dispatch
<1>6. CASE \E c, p \in Proc, k \in Priority : state[p] # "READY" /\ set_priority(c, p, k)
    BY <1>6, SetPriorityIInv
<1>7. CASE UNCHANGED vars
    BY <1>7 DEF vars, IInv, TypeOK, QueueTidy, QueuedIsReady, QueuedOnce, ReadyIsQueued,
                InQueue, CpuOwnership, WaitTicksOnlyWhileReady
<1> QED  BY <1>1, <1>2, <1>3, <1>4, <1>5, <1>6, <1>7 DEF Next, NextCalm, AfterRace, Step

\* Only unblock_process_test and block_process_test open a window.
LEMMA NextWindow ==
    ASSUME WindowSound, [Next]_vars \/ NextNice
    PROVE  WindowSound'
<1> USE ProcAssumption DEF WindowSound
<1>1. ASSUME NEW c \in Proc, NEW p \in Proc, NEW k \in Priority, create_process(c, p, k)
      PROVE  WindowSound'
    BY <1>1 DEF create_process
<1>2. ASSUME NEW c \in Proc, reap_terminated_processes(c) \/ yield_cpu(c)
      PROVE  WindowSound'
  <2>1. /\ pc' = [pc EXCEPT ![c] = "user"] \/ pc' = [pc EXCEPT ![c] = "force"]
        /\ tested' = tested
      BY <1>2 DEF reap_terminated_processes, yield_cpu
  <2> QED  BY <2>1
<1>3. ASSUME NEW c \in Proc, NEW p \in Proc, block_process(c, p)
      PROVE  WindowSound'
    BY <1>3 DEF block_process
<1>4. ASSUME NEW c \in Proc, NEW p \in Proc, unblock_process_test(c, p)
      PROVE  WindowSound'
    BY <1>4 DEF unblock_process_test
<1>5. ASSUME NEW c \in Proc, block_process_test(c) \/ block_process_act(c)
      PROVE  WindowSound'
    BY <1>5 DEF block_process_test, block_process_act
<1>6. ASSUME NEW c \in Proc, unblock_process_act(c)
      PROVE  WindowSound'
    BY <1>6 DEF unblock_process_act
<1>7. ASSUME NEW c \in Proc, process_terminator(c) \/ ForceSchedule(c)
      PROVE  WindowSound'
    BY <1>7 DEF process_terminator, ForceSchedule, EnterSchedule
<1>8. ASSUME NEW p \in Proc, unblock_process(p) \/ kill_process(p)
      PROVE  WindowSound'
    BY <1>8 DEF unblock_process, kill_process
<1>9. ASSUME UNCHANGED <<pc, tested>> PROVE WindowSound'
    BY <1>9
<1>10. TimerTick \/ Aging \/ Dispatch \/ UNCHANGED vars => UNCHANGED <<pc, tested>>
    BY DEF TimerTick, EnterSchedule, Aging, AgingSkip, AgingCount, AgingRaise, AgingEmptyLevel,
           AgingDone, Dispatch, KeepRunning, SwitchTo, SwitchToIdle, vars
<1>11. ASSUME NEW c \in Proc, NEW p \in Proc, NEW k \in Priority, set_priority(c, p, k)
       PROVE  UNCHANGED <<pc, tested>>
    BY <1>11 DEF set_priority
<1> HIDE DEF WindowSound
<1> QED
    BY <1>1, <1>2, <1>3, <1>4, <1>5, <1>6, <1>7, <1>8, <1>9, <1>10, <1>11
    DEF Next, NextNice, NextCalm, AfterRace, Step, KernelCall

\* The invariant holds in every reachable state.
LEMMA InvariantHolds == Spec => []SInv
<1>1. Init => SInv
  <2>1. Init => WindowSound
      BY ProcAssumption DEF Init, WindowSound
  <2> QED  BY <2>1, InitIInv DEF SInv
<1>2. ASSUME SInv, [Next]_vars PROVE SInv'
  <2>1. TypeOK /\ WindowSound
      BY <1>2 DEF SInv, IInv, AfterRaceInv
  <2>2. WindowSound'
      BY <1>2, <2>1, NextWindow
  <2>3. CASE IInv
      BY <1>2, <2>1, <2>2, <2>3, NextIInv DEF SInv
  <2>4. CASE AfterRaceInv
    <3>1. UNCHANGED vars
        BY <1>2, <2>4 DEF AfterRaceInv, Next, NextCalm, AfterRace
    <3>2. AfterRaceInv'
        BY <2>4, <3>1 DEF vars, AfterRaceInv, TypeOK, CpuOwnership, WaitTicksOnlyWhileReady
    <3> QED  BY <2>2, <3>2 DEF SInv
  <2> QED  BY <1>2, <2>3, <2>4 DEF SInv
<1> QED  BY <1>1, <1>2, PTL DEF Spec

\* A step that changes something starts before any race.
LEMMA StepsAreCalm ==
    ASSUME SInv, [Next]_vars, ~UNCHANGED vars
    PROVE  IInv /\ WindowSound /\ NextCalm
    BY DEF SInv, AfterRaceInv, Next, NextCalm, AfterRace

\* init is the first process main() creates and stays READY or RUNNING for good.
InitFirst ==
    /\ state[InitProc] \in {"FREE", "READY", "RUNNING"}
    /\ state[InitProc] = "FREE" =>
          running_process = Idle /\ \A p \in Proc \ {Idle} : state[p] = "FREE"

\* No kernel call, and no pass of apply_aging, ends or blocks init.
LEMMA CallInitFirst ==
    ASSUME IInv, WindowSound, InitFirst, NextCalm, ~Dispatch
    PROVE  InitFirst' /\ (running_process' = running_process \/ running_process' = NoProc)
<1> USE ProcAssumption DEF InitFirst
<1>1. state \in [Proc -> ProcessState]
    BY DEF IInv, TypeOK
<1>2. ASSUME NEW c \in Proc, NEW p \in Proc, NEW k \in Priority, create_process(c, p, k)
      PROVE  InitFirst' /\ running_process' = running_process
    BY <1>1, <1>2 DEF create_process, Executes
<1>3. ASSUME NEW c \in Proc, reap_terminated_processes(c)
      PROVE  InitFirst' /\ running_process' = running_process
    BY <1>1, <1>3 DEF reap_terminated_processes
<1>4. ASSUME NEW c \in Proc, NEW p \in Proc, block_process(c, p)
      PROVE  InitFirst' /\ running_process' = running_process
    BY <1>1, <1>4 DEF block_process, Executes
<1>5. ASSUME NEW c \in Proc, process_terminator(c)
      PROVE  InitFirst' /\ running_process' = NoProc
    BY <1>1, <1>5 DEF process_terminator, Executes
<1>6. ASSUME NEW c \in Proc, yield_cpu(c) \/ ForceSchedule(c)
      PROVE  InitFirst' /\ running_process' = running_process
    BY <1>6 DEF yield_cpu, ForceSchedule, EnterSchedule, pcbVars
<1>7. ASSUME NEW p \in Proc, unblock_process(p)
      PROVE  InitFirst' /\ running_process' = running_process
    BY <1>1, <1>7 DEF unblock_process
<1>8. ASSUME NEW p \in Proc, kill_process(p)
      PROVE  InitFirst' /\ (running_process' = running_process \/ running_process' = NoProc)
    BY <1>1, <1>8 DEF kill_process
<1>9. CASE TimerTick \/ Aging
    BY <1>9 DEF TimerTick, EnterSchedule, pcbVars, Aging, AgingSkip, AgingCount, AgingRaise,
                AgingEmptyLevel, AgingDone
<1>10. ASSUME NEW c \in Proc, NEW p \in Proc, NEW k \in Priority, set_priority(c, p, k)
       PROVE  InitFirst' /\ running_process' = running_process
    BY <1>10 DEF set_priority
<1>11. ASSUME NEW c \in Proc, NEW p \in Proc, unblock_process_test(c, p)
       PROVE  InitFirst' /\ running_process' = running_process
    BY <1>11 DEF unblock_process_test
<1>12. ASSUME NEW c \in Proc, block_process_test(c) \/ block_process_act(c)
       PROVE  InitFirst' /\ running_process' = running_process
    BY <1>1, <1>12 DEF block_process_test, block_process_act, WindowSound
<1>13. ASSUME NEW c \in Proc, unblock_process_act(c)
       PROVE  InitFirst' /\ running_process' = running_process
    BY <1>1, <1>13 DEF unblock_process_act, WindowSound
<1> QED
    BY <1>2, <1>3, <1>4, <1>5, <1>6, <1>7, <1>8, <1>9, <1>10, <1>11, <1>12, <1>13
    DEF NextCalm, Step, KernelCall

\* schedule() keeps init alive, and leaves another process only for one that is
\* not idle: init itself would be found in a queue.
LEMMA DispatchInitFirst ==
    ASSUME IInv, InitFirst, Dispatch
    PROVE  InitFirst' /\ (running_process # Idle => running_process' # Idle)
<1> USE ProcAssumption DEF InitFirst
<1>1. /\ StateBack \in States /\ \A p \in Proc : StateBack[p] # "RUNNING"
      /\ \A p \in Proc : StateBack[p] # state[p] => state[p] = "RUNNING" /\ StateBack[p] = "READY"
    BY BackFacts
<1>2. state[InitProc] # "FREE" => StateBack[InitProc] = "READY"
    BY <1>1
<1>3. CASE KeepRunning
    BY <1>3 DEF KeepRunning
<1>4. ASSUME NEW l \in Priority, NEW i \in DOMAIN QueuesBack[l], SwitchTo(l, i)
      PROVE  InitFirst' /\ running_process' # Idle
  <2> DEFINE next == QueuesBack[l][i]
  <2>1. next \in Proc /\ next # Idle /\ StateBack[next] = "READY"
      BY <1>4, SwitchToFacts
  <2>2. state' = [StateBack EXCEPT ![next] = "RUNNING"] /\ running_process' = next
      BY <1>4 DEF SwitchTo
  <2>3. state[InitProc] # "FREE"
      BY <1>1, <2>1
  <2> QED  BY <1>1, <1>2, <2>1, <2>2, <2>3 DEF States
<1>5. CASE SwitchToIdle
  <2>1. state[InitProc] = "FREE"
      BY <1>2, <1>5, SwitchToIdleFacts
  <2>2. state' = [StateBack EXCEPT ![Idle] = "RUNNING"] /\ running_process' = Idle
      BY <1>5 DEF SwitchToIdle
  <2> QED  BY <1>1, <2>1, <2>2 DEF States
<1> QED  BY <1>3, <1>4, <1>5 DEF Dispatch

\* Once main() has left the CPU, schedule() never gives it back the context in
\* which main() would run past its end.
THEOREM MainIsNeverResumed == Spec => MainNeverResumes
<1>1. Init => InitFirst
    BY ProcAssumption DEF Init, InitFirst
<1>2. ASSUME SInv, InitFirst, [Next]_vars
      PROVE  InitFirst' /\ [running_process # Idle => running_process' # Idle]_vars
  <2>1. CASE UNCHANGED vars
      BY <1>2, <2>1 DEF vars, pcbVars, InitFirst
  <2>2. CASE ~UNCHANGED vars
    <3>1. IInv /\ WindowSound /\ NextCalm
        BY <1>2, <2>2, StepsAreCalm
    <3>2. CASE ~Dispatch
        BY <1>2, <3>1, <3>2, CallInitFirst, ProcAssumption
    <3>3. CASE Dispatch
        BY <1>2, <3>1, <3>3, DispatchInitFirst
    <3> QED  BY <3>2, <3>3
  <2> QED  BY <2>1, <2>2
<1> QED  BY <1>1, <1>2, InvariantHolds, PTL DEF Spec, MainNeverResumes

\* The types of Scheduler's state, the bounds on quanta and on waiting time
\* included, hold for any number of processes, levels and ticks.
THEOREM SchedulerTypes == Spec => []TypeOK
<1>1. SInv => TypeOK
    BY DEF SInv, IInv, AfterRaceInv
<1> QED  BY <1>1, InvariantHolds, PTL

\* The ready queues hold exactly the READY processes, each once and at its own
\* priority, with callers of unblock_process and block_process interrupted between
\* test and _cli, as long as no process is woken on a test that no longer holds.
THEOREM QueuesAreDisciplined == Spec => []QueueDiscipline
<1>1. SInv => QueueDiscipline
    BY DEF SInv, IInv, AfterRaceInv, QueueDiscipline
<1> QED  BY <1>1, InvariantHolds, PTL

\* At most one process is RUNNING, it is the owner of the CPU, and the owner is
\* never a terminated or freed process.
THEOREM OneOwnerOfTheCpu == Spec => []CpuOwnership
<1>1. SInv => CpuOwnership
    BY DEF SInv, IInv, AfterRaceInv
<1> QED  BY <1>1, InvariantHolds, PTL

\* A process that runs or is blocked carries no waiting time into its next wait.
THEOREM WaitingTimeRestarts == Spec => []WaitTicksOnlyWhileReady
<1>1. SInv => WaitTicksOnlyWhileReady
    BY DEF SInv, IInv, AfterRaceInv
<1> QED  BY <1>1, InvariantHolds, PTL

\* schedule() never leaves a READY process of higher priority than the one it
\* picks, and picks idle only when no process is READY.
THEOREM SchedulePicksHighest == Spec => DispatchesHighest
<1> DEFINE Good == cpu = "dispatch" /\ ~(Interrupted /\ QuantumLeft) =>
                     /\ running_process' \in Proc
                     /\ \A p \in Proc \ {Idle} : state'[p] = "READY" =>
                          running_process' # Idle /\ priority[p] <= priority[running_process']
<1>1. ASSUME SInv, [Next]_vars PROVE [Good]_vars
  <2> SUFFICES ASSUME cpu = "dispatch", ~(Interrupted /\ QuantumLeft), ~UNCHANGED vars
               PROVE  Good
      BY DEF vars
  <2>0. IInv /\ NextCalm
      BY <1>1, StepsAreCalm
  <2>1. Dispatch /\ ~KeepRunning
      BY <2>0 DEF NextCalm, Step, KernelCall, create_process, reap_terminated_processes, yield_cpu,
                  block_process, block_process_test, block_process_act, unblock_process_test,
                  unblock_process_act, process_terminator, ForceSchedule, EnterSchedule, TimerTick,
                  unblock_process, kill_process, Aging, AgingSkip, AgingCount, AgingRaise,
                  AgingEmptyLevel, AgingDone, Visits, set_priority, Executes, KeepRunning
  <2>2. CASE SwitchToIdle
    <3>1. \A p \in Proc \ {Idle} : state'[p] = StateBack[p]
        BY <2>2, <2>0, BackFacts DEF SwitchToIdle, States
    <3> QED  BY <2>0, <2>2, <3>1, SwitchToIdleFacts, ProcAssumption DEF SwitchToIdle
  <2>3. ASSUME NEW l \in Priority, NEW i \in DOMAIN QueuesBack[l], SwitchTo(l, i)
        PROVE  Good
    <3> DEFINE next == QueuesBack[l][i]
    <3>1. /\ next \in Proc /\ next # Idle /\ priority[next] = l
          /\ \A p \in Proc \ {Idle} : StateBack[p] = "READY" => priority[p] <= l
        BY <2>0, <2>3, SwitchToFacts
    <3>2. running_process' = next /\ state' = [StateBack EXCEPT ![next] = "RUNNING"]
        BY <2>3 DEF SwitchTo
    <3>3. \A p \in Proc : state'[p] = "READY" => StateBack[p] = "READY"
        BY <2>0, <3>2, BackFacts DEF States
    <3> HIDE DEF next
    <3> QED  BY <3>1, <3>2, <3>3
  <2> QED  BY <2>1, <2>2, <2>3 DEF Dispatch
<1>2. Spec => [][Next]_vars
    BY DEF Spec
<1> QED  BY <1>1, <1>2, InvariantHolds, PTL DEF DispatchesHighest

-----------------------------------------------------------------------------
(* Order within a level.  Every step turns a queue q into a queue r in     *)
(* which whoever stood in q and is still there is ahead of everyone it was *)
(* ahead of, and of everyone who was not there.                            *)

Keeps(q, r) ==
    \A m, n \in 1..Len(r) : \A i \in 1..Len(q) :
        /\ q[i] = r[m] /\ m # n
        /\ \A j \in 1..Len(q) : q[j] = r[n] => i < j
        => m < n

NoRepeats(q) == \A i, j \in 1..Len(q) : q[i] = q[j] => i = j

\* A queue that does not change keeps its order.
LEMMA KeepsItself ==
    ASSUME NEW q \in Seq(Proc), NoRepeats(q)
    PROVE  Keeps(q, q)
<1>1. Len(q) \in Nat
    OBVIOUS
<1> QED  BY <1>1 DEF Keeps, NoRepeats

\* enqueue puts a process that is not in the queue behind everyone.
LEMMA KeepsAppend ==
    ASSUME NEW q \in Seq(Proc), NoRepeats(q), NEW p \in Proc,
           \A i \in 1..Len(q) : q[i] # p
    PROVE  Keeps(q, enqueue(q, p))
<1>1. PICK r : r = enqueue(q, p)
    OBVIOUS
<1>2. /\ Len(q) \in Nat /\ Len(r) = Len(q) + 1
      /\ r[Len(q) + 1] = p /\ \A i \in 1..Len(q) : r[i] = q[i]
    BY <1>1 DEF enqueue
<1>3. ASSUME NEW m \in 1..Len(r), NEW n \in 1..Len(r), NEW i \in 1..Len(q),
             q[i] = r[m], m # n, \A j \in 1..Len(q) : q[j] = r[n] => i < j
      PROVE  m < n
  <2>1. m # Len(q) + 1
      BY <1>2, <1>3
  <2>2. m \in 1..Len(q) /\ m = i
      BY <1>2, <1>3, <2>1 DEF NoRepeats
  <2>3. CASE n = Len(q) + 1
      BY <1>2, <2>2, <2>3
  <2>4. CASE n # Len(q) + 1
      BY <1>2, <1>3, <2>2, <2>4
  <2> QED  BY <2>3, <2>4
<1>4. Keeps(q, r)
    BY <1>3 DEF Keeps
<1> QED  BY <1>1, <1>4

\* Taking nodes out, at the head or in the middle, keeps the order of the rest:
\* node x of r2 was node f[x] of r.
LEMMA KeepsPart ==
    ASSUME NEW q, NEW r, NEW r2, Len(r2) \in Nat, Len(r) \in Nat, Keeps(q, r),
           NEW f \in [1..Len(r2) -> 1..Len(r)],
           \A x \in 1..Len(r2) : r2[x] = r[f[x]],
           \A x, y \in 1..Len(r2) : x < y => f[x] < f[y]
    PROVE  Keeps(q, r2)
<1> SUFFICES ASSUME NEW m \in 1..Len(r2), NEW n \in 1..Len(r2), NEW i \in 1..Len(q),
                    q[i] = r2[m], m # n, \A j \in 1..Len(q) : q[j] = r2[n] => i < j
             PROVE  m < n
    BY DEF Keeps
<1>1. f[m] \in 1..Len(r) /\ f[n] \in 1..Len(r) /\ m \in Nat /\ n \in Nat
    OBVIOUS
<1>2. f[m] # f[n]
    BY <1>1
<1>3. f[m] < f[n]
    BY SMTT(40), <1>1, <1>2 DEF Keeps
<1> QED  BY <1>1, <1>3

\* queueRemove unlinks one node.
LEMMA KeepsCut ==
    ASSUME NEW q \in Seq(Proc), NoRepeats(q), NEW k \in 1..Len(q)
    PROVE  Keeps(q, CutAt(q, k))
<1>1. PICK r : r = CutAt(q, k)
    OBVIOUS
<1>2. /\ Len(q) \in Nat /\ Len(r) = Len(q) - 1 /\ Len(r) \in Nat
      /\ \A j \in 1..(Len(q)-1) : r[j] = IF j < k THEN q[j] ELSE q[j+1]
    BY <1>1, CutAtProperties
<1> DEFINE f == [x \in 1..Len(r) |-> IF x < k THEN x ELSE x + 1]
<1>3. f \in [1..Len(r) -> 1..Len(q)]
    BY <1>2
<1>4. \A x \in 1..Len(r) : r[x] = q[f[x]]
    BY <1>2
<1>5. \A x, y \in 1..Len(r) : x < y => f[x] < f[y]
    BY <1>2
<1> HIDE DEF f
<1>6. Keeps(q, r)
    BY ZenonT(60), <1>2, <1>3, <1>4, <1>5, KeepsPart, KeepsItself
<1> QED  BY <1>1, <1>6

\* The search loop of schedule() drops the nodes up to i.
LEMMA KeepsRest ==
    ASSUME NEW q, NEW r \in Seq(Proc), Keeps(q, r), NEW i \in 1..Len(r)
    PROVE  Keeps(q, SubSeq(r, i+1, Len(r)))
<1>1. PICK s : s = SubSeq(r, i+1, Len(r))
    OBVIOUS
<1>2. /\ Len(r) \in Nat /\ Len(s) = Len(r) - i /\ Len(s) \in Nat
      /\ \A j \in 1..Len(s) : s[j] = r[j+i]
    BY <1>1
<1> DEFINE f == [x \in 1..Len(s) |-> x + i]
<1>3. f \in [1..Len(s) -> 1..Len(r)]
    BY <1>2
<1>4. \A x \in 1..Len(s) : s[x] = r[f[x]]
    BY <1>2
<1>5. \A x, y \in 1..Len(s) : x < y => f[x] < f[y]
    BY <1>2
<1> HIDE DEF f
<1>6. Keeps(q, s)
    BY ZenonT(60), <1>2, <1>3, <1>4, <1>5, KeepsPart
<1> QED  BY <1>1, <1>6

\* Two disciplined queues related by Keeps, in the words of NoOvertaking.
LEMMA KeepsIsOrder ==
    ASSUME NEW q \in Seq(Proc), NEW r \in Seq(Proc), NoRepeats(q), NoRepeats(r), Keeps(q, r),
           NEW x \in Proc, NEW y \in Proc, x # y,
           InQueue(q, x), InQueue(r, x), InQueue(r, y),
           InQueue(q, y) => FirstMatch(q, x) < FirstMatch(q, y)
    PROVE  FirstMatch(r, x) < FirstMatch(r, y)
<1>1. DOMAIN q = 1..Len(q) /\ DOMAIN r = 1..Len(r) /\ Len(q) \in Nat /\ Len(r) \in Nat
    OBVIOUS
<1>2. PICK i \in 1..Len(q) : q[i] = x
    BY <1>1 DEF InQueue
<1>3. PICK m \in 1..Len(r) : r[m] = x
    BY <1>1 DEF InQueue
<1>4. PICK n \in 1..Len(r) : r[n] = y
    BY <1>1 DEF InQueue
<1>5. FirstMatch(q, x) = i /\ FirstMatch(r, x) = m /\ FirstMatch(r, y) = n
    BY <1>2, <1>3, <1>4, FirstMatchProperties DEF NoRepeats
<1>6. \A j \in 1..Len(q) : q[j] = r[n] => i < j
  <2> SUFFICES ASSUME NEW j \in 1..Len(q), q[j] = y
               PROVE  i < j
      BY <1>4
  <2>1. FirstMatch(q, y) = j
      BY FirstMatchProperties DEF NoRepeats
  <2>2. InQueue(q, y)
      BY <1>1 DEF InQueue
  <2> QED  BY <1>5, <2>1, <2>2
<1> QED  BY <1>2, <1>3, <1>4, <1>5, <1>6 DEF Keeps

\* Every level keeps its order.
TableKeeps == \A l \in Priority : Keeps(queues[l], queues'[l])

\* The queues of a disciplined table, and the processes they cannot hold.
LEMMA QueueFacts ==
    ASSUME IInv
    PROVE  /\ \A l \in Priority : queues[l] \in Seq(Proc) /\ NoRepeats(queues[l])
           /\ \A l \in Priority : Keeps(queues[l], queues[l])
           /\ \A p \in Proc : state[p] # "READY" =>
                \A l \in Priority : \A i \in 1..Len(queues[l]) : queues[l][i] # p
           /\ \A p \in Proc, k \in Priority : priority[p] # k =>
                \A i \in 1..Len(queues[k]) : queues[k][i] # p
<1>1. queues \in Tables /\ Disciplined(state, priority, queues)
    BY TypeFacts
<1>2. \A l \in Priority : queues[l] \in Seq(Proc) /\ NoRepeats(queues[l])
    BY <1>1 DEF Tables, Disciplined, NoRepeats
<1>3. \A l \in Priority : Keeps(queues[l], queues[l])
    BY <1>2, KeepsItself
<1> QED  BY <1>1, <1>2, <1>3 DEF Disciplined

\* queueComp finds the first node that holds p, whatever else the queue holds.
LEMMA FirstMatchExists ==
    ASSUME NEW q \in Seq(Proc), NEW p \in Proc, InQueue(q, p)
    PROVE  /\ FirstMatch(q, p) \in 1..Len(q) /\ q[FirstMatch(q, p)] = p
           /\ \A j \in 1..(FirstMatch(q, p) - 1) : q[j] # p
<1> DEFINE S == {k \in 1..Len(q) : q[k] = p}
<1>1. Len(q) \in Nat /\ DOMAIN q = 1..Len(q) /\ S \in SUBSET Nat
    OBVIOUS
<1>2. S # {}
    BY <1>1 DEF InQueue
<1>3. PICK k \in S : \A j \in S : k <= j
    BY <1>1, <1>2, Least
<1>4. k \in DOMAIN q /\ q[k] = p /\ \A j \in 1..(k-1) : q[j] # p
    BY <1>1, <1>3
<1> QED  BY <1>1, <1>4 DEF FirstMatch

\* A process appended to a queue overtakes nobody, even if it already is in it.
LEMMA AppendOrder ==
    ASSUME NEW q \in Seq(Proc), NEW p \in Proc, NEW x \in Proc, NEW y \in Proc, x # y,
           InQueue(q, x), InQueue(enqueue(q, p), y),
           InQueue(q, y) => FirstMatch(q, x) < FirstMatch(q, y)
    PROVE  FirstMatch(enqueue(q, p), x) < FirstMatch(enqueue(q, p), y)
<1> DEFINE r == enqueue(q, p)
<1>1. /\ r \in Seq(Proc) /\ Len(q) \in Nat /\ Len(r) = Len(q) + 1
      /\ DOMAIN q = 1..Len(q) /\ DOMAIN r = 1..Len(r)
      /\ r[Len(q) + 1] = p /\ \A i \in 1..Len(q) : r[i] = q[i]
    BY DEF enqueue
<1> HIDE DEF r
<1>2. ASSUME NEW z \in Proc, InQueue(q, z)
      PROVE  FirstMatch(r, z) = FirstMatch(q, z) /\ FirstMatch(q, z) \in 1..Len(q)
  <2>1. PICK k \in 1..Len(q) : k = FirstMatch(q, z) /\ q[k] = z /\ \A j \in 1..(k-1) : q[j] # z
      BY <1>2, FirstMatchExists
  <2>2. k \in DOMAIN r /\ r[k] = z /\ \A j \in 1..(k-1) : r[j] # z
      BY <1>1, <2>1
  <2>3. \A m \in DOMAIN r : r[m] = z /\ (\A j \in 1..(m-1) : r[j] # z) => m = k
      BY <1>1, <2>1, <2>2
  <2> QED  BY <2>1, <2>2, <2>3 DEF FirstMatch
<1>3. CASE InQueue(q, y)
    BY <1>2, <1>3 DEF r
<1>4. CASE ~InQueue(q, y)
  <2>1. FirstMatch(r, y) \in 1..Len(r) /\ r[FirstMatch(r, y)] = y
      BY <1>1, FirstMatchExists DEF r
  <2>2. \A i \in 1..Len(q) : r[i] # y
      BY <1>1, <1>4 DEF InQueue
  <2>3. FirstMatch(r, y) = Len(q) + 1
      BY <1>1, <2>1, <2>2
  <2>4. FirstMatch(r, x) \in 1..Len(q)
      BY <1>2
  <2> QED  BY <1>1, <2>3, <2>4 DEF r
<1> QED  BY <1>3, <1>4

\* add_to_scheduler, for a process that is not READY yet.
LEMMA AddKeeps ==
    ASSUME IInv, NEW p \in Proc, NEW k \in Priority, state[p] # "READY"
    PROVE  /\ Added(p, k) \in Tables
           /\ \A l \in Priority : Keeps(queues[l], Added(p, k)[l])
<1>1. queues \in Tables
    BY TypeFacts
<1>2. Added(p, k) \in Tables
    BY <1>1, EnqueueProperties DEF Added
<1>3. Added(p, k)[k] = enqueue(queues[k], p) /\ \A l \in Priority \ {k} : Added(p, k)[l] = queues[l]
    BY <1>1 DEF Tables, Added
<1>4. Keeps(queues[k], enqueue(queues[k], p))
    BY QueueFacts, KeepsAppend
<1> QED  BY <1>2, <1>3, <1>4, QueueFacts

\* remove_from_all_priority_queues.
LEMMA RemoveKeeps ==
    ASSUME IInv, NEW p \in Proc, queues' = Removed(p)
    PROVE  TableKeeps
<1>1. PICK k \in Priority : k = priority[p]
    BY TypeFacts DEF Priorities
<1>2. PICK q \in Seq(Proc) : q = queues[k] /\ NoRepeats(q)
    BY QueueFacts
<1>3. queues'[k] = queueRemove(q, p) /\ \A l \in Priority \ {k} : queues'[l] = queues[l]
    BY <1>1, <1>2, TypeFacts DEF Removed, Tables
<1>4. Keeps(q, queueRemove(q, p))
  <2>1. CASE ~InQueue(q, p)
      BY <1>2, <2>1, KeepsItself DEF queueRemove
  <2>2. CASE InQueue(q, p)
    <3>1. PICK n \in 1..Len(q) : q[n] = p
        BY <1>2, <2>2 DEF InQueue
    <3>2. FirstMatch(q, p) = n
        BY <1>2, <3>1, FirstMatchProperties DEF NoRepeats
    <3> QED  BY <1>2, <2>2, <3>2, KeepsCut DEF queueRemove
  <2> QED  BY <2>1, <2>2
<1> QED  BY <1>1, <1>2, <1>3, <1>4, QueueFacts DEF TableKeeps

\* apply_aging takes a process out of the middle of its level and puts it
\* behind everyone at the highest one.
LEMMA RaiseKeeps ==
    ASSUME IInv, NEW p \in Proc, AgingRaise(p)
    PROVE  TableKeeps
<1>1. PICK k \in Priority : k = level
    BY VisitFacts DEF AgingRaise
<1>2. PICK q \in Seq(Proc) : q = queues[k] /\ NoRepeats(q)
    BY QueueFacts
<1>3. /\ k < MaxPriority /\ MaxPriority \in Priority
      /\ cyclicIter \in 1..Len(q) /\ priority[p] = k
      /\ FirstMatch(q, p) = cyclicIter
    BY <1>1, <1>2, VisitFacts, LimitAssumption DEF AgingRaise, Priority
<1>4. /\ queues'[k] = CutAt(q, cyclicIter)
      /\ queues'[MaxPriority] = enqueue(queues[MaxPriority], p)
      /\ \A l \in Priority \ {k, MaxPriority} : queues'[l] = queues[l]
    BY <1>1, <1>2, <1>3 DEF AgingRaise, Priority
<1>5. Keeps(q, CutAt(q, cyclicIter))
    BY <1>2, <1>3, KeepsCut
<1>6. Keeps(queues[MaxPriority], enqueue(queues[MaxPriority], p))
  <2>1. priority[p] # MaxPriority
      BY <1>3, LimitAssumption DEF Priority
  <2> QED  BY <1>3, <2>1, QueueFacts, KeepsAppend
<1> QED  BY <1>2, <1>4, <1>5, <1>6, QueueFacts DEF TableKeeps

\* schedule() puts the interrupted process back behind everyone of its level.
LEMMA BackKeeps ==
    ASSUME IInv
    PROVE  \A l \in Priority : Keeps(queues[l], QueuesBack[l])
<1>1. CASE Interrupted /\ running_process # Idle
  <2>1. PICK r \in Proc : r = running_process
      BY <1>1 DEF IInv, TypeOK, Interrupted
  <2>2. priority[r] \in Priority /\ state[r] # "READY"
      BY <1>1, <2>1, TypeFacts DEF Priorities, Interrupted
  <2>3. QueuesBack = Added(r, priority[r])
      BY <1>1, <2>1 DEF QueuesBack
  <2> QED  BY <2>2, <2>3, AddKeeps
<1>2. CASE ~(Interrupted /\ running_process # Idle)
    BY <1>2, QueueFacts DEF QueuesBack
<1> QED  BY <1>1, <1>2

\* The search loop of schedule() only drops nodes from the front.
LEMMA SwitchKeeps ==
    ASSUME IInv, NEW l \in Priority, NEW i \in DOMAIN QueuesBack[l], SwitchTo(l, i)
    PROVE  TableKeeps
<1>1. QueuesBack \in Tables
    BY BackFacts
<1>2. queues' = [m \in Priority |->
                   CASE m > l -> <<>>
                     [] m = l -> SubSeq(QueuesBack[m], i+1, Len(QueuesBack[m]))
                     [] m < l -> QueuesBack[m]]
    BY DEF SwitchTo
<1> SUFFICES ASSUME NEW m \in Priority
             PROVE  Keeps(queues[m], queues'[m])
    BY DEF TableKeeps
<1>3. m \in Nat /\ l \in Nat
    BY LimitAssumption DEF Priority
<1>4. CASE m > l
  <2>1. queues'[m] = <<>>
      BY <1>2, <1>3, <1>4
  <2>2. Len(queues'[m]) = 0
      BY <2>1
  <2> QED  BY <2>2 DEF Keeps
<1>5. CASE m = l
  <2>1. PICK r \in Seq(Proc) : r = QueuesBack[l] /\ i \in 1..Len(r)
      BY <1>1 DEF Tables
  <2>2. queues'[m] = SubSeq(r, i+1, Len(r))
    <3>1. queues'[l] = SubSeq(QueuesBack[l], i+1, Len(QueuesBack[l]))
        BY <1>2, <1>3, ~(l > l), ~(l < l)
    <3> QED  BY <1>5, <2>1, <3>1
  <2>3. Keeps(queues[m], r)
      BY <1>5, <2>1, BackKeeps
  <2> QED  BY <2>1, <2>2, <2>3, KeepsRest
<1>6. CASE m < l
  <2>1. queues'[m] = QueuesBack[m]
      BY <1>2, <1>3, <1>6
  <2> QED  BY <2>1, BackKeeps
<1> QED  BY <1>3, <1>4, <1>5, <1>6

\* Every step of the system keeps every level in order.
LEMMA NextKeeps ==
    ASSUME IInv, WindowSound, NextCalm, ~\E c \in Proc : unblock_process_act(c)
    PROVE  TableKeeps /\ ~raced'
<1>1. ASSUME NEW c \in Proc, NEW p \in Proc, NEW k \in Priority, create_process(c, p, k)
      PROVE  TableKeeps
    BY <1>1, AddKeeps DEF create_process, TableKeeps
<1>2. ASSUME NEW p \in Proc, unblock_process(p)
      PROVE  TableKeeps
  <2>1. priority[p] \in Priority
      BY TypeFacts DEF Priorities
  <2> QED  BY <1>2, <2>1, AddKeeps DEF unblock_process, TableKeeps
<1>3. ASSUME NEW p \in Proc,
             \/ kill_process(p) \/ process_terminator(p) \/ block_process_act(p)
             \/ \E c \in Proc : block_process(c, p)
      PROVE  TableKeeps
    BY <1>3, RemoveKeeps DEF kill_process, process_terminator, block_process, block_process_act
<1>4. ASSUME queues' = queues PROVE TableKeeps
    BY <1>4, QueueFacts DEF TableKeeps
<1>5. ASSUME SwitchToIdle PROVE TableKeeps
  <2>1. \A l \in Priority : Len(queues'[l]) = 0
      BY <1>5 DEF SwitchToIdle
  <2> QED  BY <2>1 DEF TableKeeps, Keeps
<1>6. ASSUME NEW c \in Proc, reap_terminated_processes(c) \/ yield_cpu(c) \/ ForceSchedule(c)
      PROVE  queues' = queues
    BY <1>6 DEF reap_terminated_processes, yield_cpu, ForceSchedule, EnterSchedule
<1>7. ASSUME NEW p \in Proc, AgingSkip(p) \/ AgingCount(p)
      PROVE  queues' = queues
    BY <1>7 DEF AgingSkip, AgingCount
<1>8. TimerTick \/ AgingEmptyLevel \/ AgingDone \/ KeepRunning => queues' = queues
    BY DEF TimerTick, EnterSchedule, AgingEmptyLevel, AgingDone, KeepRunning
<1>9. ASSUME NEW c \in Proc, NEW p \in Proc, NEW k \in Priority, set_priority(c, p, k)
      PROVE  queues' = queues
    BY <1>9 DEF set_priority
<1>10. ASSUME NEW c \in Proc, block_process_test(c) \/ \E p \in Proc : unblock_process_test(c, p)
       PROVE  queues' = queues
    BY <1>10 DEF block_process_test, unblock_process_test
<1>11. ~raced'
    BY DEF NextCalm, Step, KernelCall, create_process, reap_terminated_processes, yield_cpu,
           block_process, block_process_test, block_process_act, unblock_process_test,
           process_terminator, ForceSchedule, EnterSchedule, TimerTick, unblock_process,
           kill_process, Aging, AgingSkip, AgingCount, AgingRaise, AgingEmptyLevel, AgingDone,
           set_priority, Dispatch, KeepRunning, SwitchTo, SwitchToIdle
<1> QED
    BY <1>1, <1>2, <1>3, <1>4, <1>5, <1>6, <1>7, <1>8, <1>9, <1>10, RaiseKeeps, SwitchKeeps, <1>11
    DEF NextCalm, Step, KernelCall, Aging, Dispatch

\* Nobody is overtaken within a level, neither by a process that stood behind
\* nor by one that arrives later, through any call, any pass of apply_aging and
\* any choice of schedule().
THEOREM NobodyIsOvertaken == Spec => NoOvertaking
<1> DEFINE Order ==
      \A l \in Priority : \A x, y \in Proc :
         /\ x # y
         /\ InQueue(queues[l], x) /\ InQueue(queues'[l], x) /\ InQueue(queues'[l], y)
         /\ InQueue(queues[l], y) => FirstMatch(queues[l], x) < FirstMatch(queues[l], y)
         => FirstMatch(queues'[l], x) < FirstMatch(queues'[l], y)
<1>1. ASSUME SInv, SInv', [Next]_vars PROVE [Order]_vars
  <2> SUFFICES ASSUME ~UNCHANGED vars PROVE Order
      BY <1>1
  <2>1. IInv /\ WindowSound /\ NextCalm
      BY <1>1, StepsAreCalm
  <2>2. \A l \in Priority : queues[l] \in Seq(Proc) /\ NoRepeats(queues[l])
      BY <2>1, QueueFacts
  <2>3. CASE \E c \in Proc : unblock_process_act(c)
    <3>1. PICK c \in Proc : unblock_process_act(c)
        BY <2>3
    <3>2. PICK p \in Proc : p = tested[c]
        BY <2>1, <3>1 DEF WindowSound, unblock_process_act
    <3>3. PICK k \in Priority : k = priority[p]
        BY <2>1, TypeFacts DEF Priorities
    <3>4. queues'[k] = enqueue(queues[k], p) /\ \A l \in Priority \ {k} : queues'[l] = queues[l]
        BY <2>1, <3>1, <3>2, <3>3, TypeFacts DEF unblock_process_act, Added, Tables
    <3> SUFFICES ASSUME NEW l \in Priority, NEW x \in Proc, NEW y \in Proc, x # y,
                        InQueue(queues[l], x), InQueue(queues'[l], x), InQueue(queues'[l], y),
                        InQueue(queues[l], y) => FirstMatch(queues[l], x) < FirstMatch(queues[l], y)
                 PROVE  FirstMatch(queues'[l], x) < FirstMatch(queues'[l], y)
        OBVIOUS
    <3>5. CASE l = k
        BY <2>2, <3>4, <3>5, AppendOrder
    <3>6. CASE l # k
      <4>1. queues'[l] = queues[l]
          BY <3>4, <3>6
      <4> QED  BY <4>1
    <3> QED  BY <3>5, <3>6
  <2>4. CASE ~\E c \in Proc : unblock_process_act(c)
    <3>1. TableKeeps /\ ~raced'
        BY <2>1, <2>4, NextKeeps
    <3>2. IInv'
        BY <1>1, <3>1 DEF SInv, AfterRaceInv
    <3>3. \A l \in Priority : queues'[l] \in Seq(Proc) /\ NoRepeats(queues'[l])
      <4>1. queues' \in Tables /\ Disciplined(state', priority', queues')
          BY <3>2, DisciplinedIsDisciplineNext DEF IInv, TypeOK, Tables
      <4> QED  BY <4>1 DEF Tables, Disciplined, NoRepeats
    <3> QED  BY <2>2, <3>1, <3>3, KeepsIsOrder DEF TableKeeps
  <2> QED  BY <2>3, <2>4
<1>2. Spec => [][Next]_vars
    BY DEF Spec
<1> QED  BY <1>1, <1>2, InvariantHolds, PTL DEF NoOvertaking

-----------------------------------------------------------------------------
(* set_priority on a queued process leaves its entry in the queue of the   *)
(* old level (NextNice), so the discipline is lost.  What is left of it:   *)
(* a READY process stays in some queue.                                    *)

\* Reachability, as a predicate on arbitrary PCB states and queue tables.
Reachable(st, qs) ==
    \A p \in Proc \ {Idle} : st[p] = "READY" =>
        \E l \in Priority : \E i \in 1..Len(qs[l]) : qs[l][i] = p

NiceTypes ==
    /\ state \in States /\ priority \in Priorities /\ queues \in Tables
    /\ running_process \in Proc \cup {NoProc} /\ level \in Nat

NiceInv == NiceTypes /\ Reachable(state, queues)

\* The predicate says what ReadyIsReachable says.
LEMMA ReachableIsReachable ==
    ASSUME NiceInv
    PROVE  ReadyIsReachable
    BY DEF NiceInv, NiceTypes, Tables, Reachable, ReadyIsReachable, InQueue

\* Whoever was READY still is in a queue if only p leaves the queues.
LEMMA ReachableSubset ==
    ASSUME NEW st, NEW st2, NEW qs, NEW qs2, Reachable(st, qs), NEW p,
           \A r \in Proc \ {p, Idle} : st2[r] = "READY" => st[r] = "READY",
           p \in Proc \ {Idle} /\ st2[p] = "READY" =>
              \E l \in Priority : \E i \in 1..Len(qs2[l]) : qs2[l][i] = p,
           \A l \in Priority : \A i \in 1..Len(qs[l]) :
              qs[l][i] # p => \E j \in 1..Len(qs2[l]) : qs2[l][j] = qs[l][i]
    PROVE  Reachable(st2, qs2)
<1> SUFFICES ASSUME NEW r \in Proc \ {Idle}, st2[r] = "READY", r # p
             PROVE  \E l \in Priority : \E i \in 1..Len(qs2[l]) : qs2[l][i] = r
    BY DEF Reachable
<1>1. PICK l \in Priority : \E i \in 1..Len(qs[l]) : qs[l][i] = r
    BY DEF Reachable
<1>2. PICK i \in 1..Len(qs[l]) : qs[l][i] = r
    BY <1>1
<1> QED  BY <1>2

\* Unlinking a node loses nobody but the process it holds.
LEMMA CutLosesOne ==
    ASSUME NEW q \in Seq(Proc), NEW k \in 1..Len(q), NEW i \in 1..Len(q), i # k
    PROVE  \E j \in 1..Len(CutAt(q, k)) : CutAt(q, k)[j] = q[i]
<1>1. PICK r : r = CutAt(q, k)
    OBVIOUS
<1>2. /\ Len(q) \in Nat /\ Len(r) = Len(q) - 1 /\ Len(r) \in Nat
      /\ \A j \in 1..(Len(q)-1) : r[j] = IF j < k THEN q[j] ELSE q[j+1]
  <2>1. Len(q) \in Nat /\ Len(q) - 1 \in Nat
      OBVIOUS
  <2> QED  BY <1>1, <2>1, CutAtProperties
<1>3. CASE i < k
  <2>1. i \in 1..Len(r) /\ r[i] = q[i]
      BY <1>2, <1>3
  <2> QED  BY <1>1, <2>1
<1>4. CASE i > k
  <2>1. i - 1 \in 1..Len(r) /\ r[i-1] = q[i]
      BY <1>2, <1>4
  <2> QED  BY <1>1, <2>1
<1> QED  BY <1>2, <1>3, <1>4

\* add_to_scheduler in a table with stale entries.
LEMMA AddReachable ==
    ASSUME NEW st \in States, NEW qs \in Tables, Reachable(st, qs), NEW p \in Proc, NEW k \in Priority
    PROVE  LET qs2 == [qs EXCEPT ![k] = enqueue(@, p)]
           IN  qs2 \in Tables /\ Reachable([st EXCEPT ![p] = "READY"], qs2)
<1> DEFINE qs2 == [qs EXCEPT ![k] = enqueue(@, p)]
           st2 == [st EXCEPT ![p] = "READY"]
<1>1. /\ qs2 \in Tables
      /\ \A l \in Priority \ {k} : qs2[l] = qs[l]
      /\ Len(qs2[k]) = Len(qs[k]) + 1 /\ Len(qs[k]) \in Nat
      /\ \A i \in 1..Len(qs[k]) : qs2[k][i] = qs[k][i]
      /\ qs2[k][Len(qs[k]) + 1] = p
    BY EnqueueProperties DEF Tables
<1>2. \A r \in Proc \ {p, Idle} : st2[r] = "READY" => st[r] = "READY"
    BY DEF States
<1> HIDE DEF qs2, st2
<1>3. Len(qs[k]) + 1 \in 1..Len(qs2[k])
    BY <1>1
<1>4. \A l \in Priority : \A i \in 1..Len(qs[l]) : i \in 1..Len(qs2[l]) /\ qs2[l][i] = qs[l][i]
    BY <1>1
<1>5. Reachable(st2, qs2)
    BY <1>1, <1>2, <1>3, <1>4, ReachableSubset
<1> QED  BY <1>1, <1>5 DEF qs2, st2

\* remove_from_all_priority_queues in a table with stale entries: it may find
\* nothing at the level of p, and it removes nobody else.
LEMMA RemoveReachable ==
    ASSUME NEW st \in States, NEW pr \in Priorities, NEW qs \in Tables, Reachable(st, qs),
           NEW p \in Proc, NEW s \in ProcessState \ {"READY"}
    PROVE  LET qs2 == [qs EXCEPT ![pr[p]] = queueRemove(@, p)]
           IN  qs2 \in Tables /\ Reachable([st EXCEPT ![p] = s], qs2)
<1>1. PICK k \in Priority : k = pr[p]
    BY DEF Priorities
<1>2. PICK q \in Seq(Proc) : q = qs[k]
    BY DEF Tables
<1>3. /\ queueRemove(q, p) \in Seq(Proc)
      /\ \A i \in 1..Len(q) : q[i] # p =>
           \E j \in 1..Len(queueRemove(q, p)) : queueRemove(q, p)[j] = q[i]
  <2>1. CASE ~InQueue(q, p)
      BY <2>1 DEF queueRemove
  <2>2. CASE InQueue(q, p)
    <3>1. PICK n \in 1..Len(q) : n = FirstMatch(q, p) /\ q[n] = p
        BY <2>2, FirstMatchExists
    <3>2. queueRemove(q, p) = CutAt(q, n)
        BY <2>2, <3>1 DEF queueRemove
    <3>3. CutAt(q, n) \in Seq(Proc)
        BY CutAtProperties
    <3> QED  BY <3>1, <3>2, <3>3, CutLosesOne
  <2> QED  BY <2>1, <2>2
<1> DEFINE qs2 == [qs EXCEPT ![k] = queueRemove(@, p)]
           st2 == [st EXCEPT ![p] = s]
<1>4. /\ qs2 \in Tables /\ qs2[k] = queueRemove(q, p)
      /\ \A l \in Priority \ {k} : qs2[l] = qs[l]
    BY <1>2, <1>3 DEF Tables
<1>5. st2[p] # "READY" /\ \A r \in Proc \ {p} : st2[r] = st[r]
    BY DEF States
<1> HIDE DEF qs2, st2
<1>6. \A l \in Priority : \A i \in 1..Len(qs[l]) :
         qs[l][i] # p => \E j \in 1..Len(qs2[l]) : qs2[l][j] = qs[l][i]
    BY <1>2, <1>3, <1>4
<1>7. Reachable(st2, qs2)
    BY <1>5, <1>6, ReachableSubset
<1> QED  BY <1>1, <1>4, <1>7 DEF qs2, st2

\* apply_aging moves a process it finds at a level, perhaps a stale entry.
LEMMA RaiseNice ==
    ASSUME NiceInv, NEW p \in Proc, AgingRaise(p)
    PROVE  NiceInv'
<1>1. PICK k \in Priority : k = level
    BY LimitAssumption DEF NiceInv, NiceTypes, AgingRaise, Visits, Priority
<1>2. PICK q \in Seq(Proc) : q = queues[k]
    BY DEF NiceInv, NiceTypes, Tables
<1>3. k < MaxPriority /\ MaxPriority \in Priority
    BY <1>1, LimitAssumption DEF AgingRaise, Visits, Priority
<1>4. InQueue(q, p)
    BY <1>1, <1>2 DEF AgingRaise, Visits, InQueue
<1>5. PICK n \in 1..Len(q) : n = FirstMatch(q, p) /\ q[n] = p
    BY <1>4, FirstMatchExists
<1>6. /\ queues'[k] = CutAt(q, n)
      /\ queues'[MaxPriority] = Append(queues[MaxPriority], p)
      /\ \A l \in Priority \ {k, MaxPriority} : queues'[l] = queues[l]
    BY <1>1, <1>2, <1>3, <1>5 DEF AgingRaise, Priority, enqueue
<1>7. \A l \in Priority : queues[l] \in Seq(Proc)
    BY DEF NiceInv, NiceTypes, Tables
<1>8. queues' \in Tables
  <2>1. CutAt(q, n) \in Seq(Proc)
      BY CutAtProperties
  <2>2. \A l \in Priority : queues'[l] \in Seq(Proc)
    <3>1. Append(queues[MaxPriority], p) \in Seq(Proc)
        BY <1>3, <1>7
    <3> QED  BY <1>6, <1>7, <2>1, <3>1
  <2>3. queues' = [l \in Priority |-> queues'[l]]
      BY DEF AgingRaise
  <2> QED  BY <2>2, <2>3 DEF Tables
<1>9. \A l \in Priority : \A i \in 1..Len(queues[l]) :
         queues[l][i] # p => \E j \in 1..Len(queues'[l]) : queues'[l][j] = queues[l][i]
  <2> SUFFICES ASSUME NEW l \in Priority, NEW i \in 1..Len(queues[l]), queues[l][i] # p
               PROVE  \E j \in 1..Len(queues'[l]) : queues'[l][j] = queues[l][i]
      OBVIOUS
  <2>1. CASE l = k
      BY <1>2, <1>5, <1>6, <2>1, CutLosesOne
  <2>2. CASE l = MaxPriority
    <3>1. i \in 1..Len(queues'[l]) /\ queues'[l][i] = queues[l][i]
        BY <1>6, <1>7, <2>2
    <3> QED  BY <3>1
  <2>3. CASE l \notin {k, MaxPriority}
      BY <1>6, <2>3
  <2> QED  BY <2>1, <2>2, <2>3
<1>10. \E i \in 1..Len(queues'[MaxPriority]) : queues'[MaxPriority][i] = p
  <2>1. PICK m \in Seq(Proc) : m = queues[MaxPriority]
      BY <1>3, <1>7
  <2>2. Len(m) + 1 \in 1..Len(Append(m, p)) /\ Append(m, p)[Len(m) + 1] = p
      OBVIOUS
  <2> QED  BY <1>6, <2>1, <2>2
<1>11. state' = state /\ running_process' = running_process
       /\ priority' = [priority EXCEPT ![p] = MaxPriority]
    BY DEF AgingRaise
<1>12. Reachable(state', queues')
  <2>1. /\ Reachable(state, queues)
        /\ \A r \in Proc \ {p, Idle} : state'[r] = "READY" => state[r] = "READY"
        /\ \E l \in Priority : \E i \in 1..Len(queues'[l]) : queues'[l][i] = p
      BY <1>3, <1>10, <1>11 DEF NiceInv
  <2> QED  BY <1>9, <2>1, ReachableSubset
<1>13. level' \in Nat
    BY DEF AgingRaise, AgingContinue, NiceInv, NiceTypes
<1> QED  BY <1>3, <1>8, <1>11, <1>12, <1>13 DEF NiceInv, NiceTypes, Priorities

\* Putting the interrupted process back.
LEMMA BackNice ==
    ASSUME NiceInv
    PROVE  StateBack \in States /\ QueuesBack \in Tables /\ Reachable(StateBack, QueuesBack)
<1>1. CASE ~Interrupted
    BY <1>1 DEF StateBack, QueuesBack, NiceInv, NiceTypes
<1>2. CASE Interrupted
  <2>1. PICK r \in Proc : r = running_process
      BY <1>2 DEF Interrupted, NiceInv, NiceTypes
  <2>2. StateBack = [state EXCEPT ![r] = "READY"] /\ StateBack \in States
      BY <1>2, <2>1 DEF StateBack, NiceInv, NiceTypes, States, ProcessState
  <2>3. CASE r = Idle
    <3>1. QueuesBack = queues
        BY <2>1, <2>3 DEF QueuesBack
    <3>2. \A p \in Proc \ {Idle} : StateBack[p] = state[p]
        BY <2>2, <2>3 DEF NiceInv, NiceTypes, States
    <3> QED  BY <2>2, <3>1, <3>2 DEF NiceInv, NiceTypes, Reachable
  <2>4. CASE r # Idle
    <3>1. QueuesBack = [queues EXCEPT ![priority[r]] = enqueue(@, r)]
        BY <1>2, <2>1, <2>4 DEF QueuesBack, Added
    <3>2. priority[r] \in Priority
        BY DEF NiceInv, NiceTypes, Priorities
    <3> QED  BY <2>2, <3>1, <3>2, AddReachable DEF NiceInv, NiceTypes
  <2> QED  BY <2>3, <2>4
<1> QED  BY <1>1, <1>2

\* The search loop drops only nodes of processes that are not READY, and the
\* node of the process that now runs.
LEMMA SwitchNice ==
    ASSUME NiceInv, NEW l \in Priority, NEW i \in DOMAIN QueuesBack[l], SwitchTo(l, i)
    PROVE  NiceInv'
<1>1. PICK st \in States, qs \in Tables : st = StateBack /\ qs = QueuesBack /\ Reachable(st, qs)
    BY BackNice
<1>2. PICK q \in Seq(Proc) : q = qs[l] /\ i \in 1..Len(q)
    BY <1>1 DEF Tables
<1>3. PICK next \in Proc : next = q[i]
    BY <1>2
<1>4. /\ queues' = [m \in Priority |->
                      CASE m > l -> <<>>
                        [] m = l -> SubSeq(qs[m], i+1, Len(qs[m]))
                        [] m < l -> qs[m]]
      /\ state' = [st EXCEPT ![next] = "RUNNING"]
      /\ running_process' = next
      /\ UNCHANGED <<priority, agingVars>>
    BY <1>1, <1>2, <1>3 DEF SwitchTo
<1>5. l \in Nat /\ \A m \in Priority : m \in Nat /\ m <= MaxPriority
    BY LimitAssumption DEF Priority
<1>6. PICK s : s = SubSeq(q, i+1, Len(q))
    OBVIOUS
<1>6a. /\ s \in Seq(Proc) /\ Len(q) \in Nat /\ Len(s) = Len(q) - i
       /\ \A j \in 1..Len(s) : s[j] = q[j+i]
    BY SMTT(40), <1>2, <1>6
<1>7. /\ queues'[l] = s
      /\ \A m \in Priority : m > l => queues'[m] = <<>>
      /\ \A m \in Priority : m < l => queues'[m] = qs[m]
  <2>1. queues'[l] = SubSeq(qs[l], i+1, Len(qs[l]))
      BY <1>4, <1>5, ~(l > l), ~(l < l)
  <2>2. \A m \in Priority : m > l => queues'[m] = <<>>
      BY <1>4, <1>5
  <2>3. \A m \in Priority : m < l => queues'[m] = qs[m]
      BY <1>4, <1>5
  <2> QED  BY <1>2, <1>6, <2>1, <2>2, <2>3
<1>8. queues' \in Tables
  <2>1. \A m \in Priority : queues'[m] \in Seq(Proc)
    <3> SUFFICES ASSUME NEW m \in Priority PROVE queues'[m] \in Seq(Proc)
        OBVIOUS
    <3>1. CASE m = l
        BY <1>6a, <1>7, <3>1
    <3>2. CASE m > l
      <4>1. queues'[m] = <<>> /\ <<>> \in Seq(Proc)
          BY <1>7, <3>2
      <4> QED  BY <4>1
    <3>3. CASE m < l
        BY <1>7, <3>3 DEF Tables
    <3> QED  BY <1>5, <3>1, <3>2, <3>3
  <2> DEFINE G(m) == CASE m > l -> <<>>
                       [] m = l -> SubSeq(qs[m], i+1, Len(qs[m]))
                       [] m < l -> qs[m]
  <2>2. queues' = [m \in Priority |-> G(m)]
      BY <1>4
  <2> HIDE DEF G
  <2>3. \A m \in Priority : G(m) \in Seq(Proc)
      BY <2>1, <2>2
  <2> QED  BY <2>2, <2>3 DEF Tables
<1>9. /\ \A j \in 1..(i-1) : ~(st[q[j]] = "READY" /\ q[j] # Idle)
      /\ \A m \in (l+1)..MaxPriority : \A j \in DOMAIN qs[m] :
            ~(st[qs[m][j]] = "READY" /\ qs[m][j] # Idle)
    BY <1>1, <1>2 DEF SwitchTo, FirstRunnable, Runnable
<1>10. state' \in States /\ state'[next] = "RUNNING" /\ \A p \in Proc \ {next} : state'[p] = st[p]
    BY <1>4 DEF States, ProcessState
<1>11. Reachable(state', queues')
  <2> SUFFICES ASSUME NEW p \in Proc \ {Idle}, state'[p] = "READY"
               PROVE  \E m \in Priority : \E j \in 1..Len(queues'[m]) : queues'[m][j] = p
      BY DEF Reachable
  <2>1. p # next /\ st[p] = "READY"
      BY <1>10
  <2>2. PICK m \in Priority : \E j \in 1..Len(qs[m]) : qs[m][j] = p
      BY <1>1, <2>1 DEF Reachable
  <2>3. PICK j \in 1..Len(qs[m]) : qs[m][j] = p
      BY <2>2
  <2>4. CASE m > l
    <3>1. m \in (l+1)..MaxPriority /\ j \in DOMAIN qs[m]
        BY <1>5, <2>4 DEF Tables
    <3> QED  BY <1>9, <2>1, <2>3, <3>1
  <2>5. CASE m = l
    <3>1. j \in 1..Len(q) /\ q[j] = p /\ j # i
        BY <1>2, <1>3, <2>1, <2>3, <2>5
    <3>2. j > i
        BY <1>2, <1>9, <2>1, <3>1
    <3>3. j - i \in 1..Len(s) /\ s[j - i] = p
        BY SMTT(40), <1>2, <1>6a, <3>1, <3>2
    <3> QED  BY <1>7, <3>3
  <2>6. CASE m < l
      BY <1>7, <2>3, <2>6
  <2> QED  BY <1>5, <2>4, <2>5, <2>6
<1> QED  BY <1>4, <1>8, <1>10, <1>11 DEF NiceInv, NiceTypes

\* The search finds nobody only when nobody is READY.
LEMMA SwitchToIdleNice ==
    ASSUME NiceInv, SwitchToIdle
    PROVE  NiceInv'
<1>1. PICK st \in States, qs \in Tables : st = StateBack /\ qs = QueuesBack /\ Reachable(st, qs)
    BY BackNice
<1>2. \A m \in Priority : \A j \in 1..Len(qs[m]) : ~(st[qs[m][j]] = "READY" /\ qs[m][j] # Idle)
    BY <1>1 DEF SwitchToIdle, Runnable, Tables
<1>3. ASSUME NEW p \in Proc \ {Idle}, st[p] = "READY" PROVE FALSE
  <2>1. PICK m \in Priority : \E j \in 1..Len(qs[m]) : qs[m][j] = p
      BY <1>1, <1>3 DEF Reachable
  <2>2. PICK j \in 1..Len(qs[m]) : qs[m][j] = p
      BY <2>1
  <2> QED  BY <1>2, <1>3, <2>2
<1>4. /\ queues' = [m \in Priority |-> <<>>] /\ state' = [st EXCEPT ![Idle] = "RUNNING"]
      /\ running_process' = Idle /\ UNCHANGED <<priority, agingVars>>
    BY <1>1 DEF SwitchToIdle
<1>5. state' \in States /\ \A p \in Proc \ {Idle} : state'[p] = st[p]
    BY <1>4 DEF States, ProcessState
<1>6. queues' \in Tables
    BY <1>4 DEF Tables
<1> QED  BY <1>3, <1>4, <1>5, <1>6, ProcAssumption DEF NiceInv, NiceTypes, Reachable

\* The invariant is inductive, set_priority on a queued process included.
LEMMA NextNiceInv ==
    ASSUME NiceInv, WindowSound, [NextNice]_vars
    PROVE  NiceInv'
<1> USE ProcAssumption
<1>0. /\ state \in States /\ priority \in Priorities /\ queues \in Tables
      /\ Reachable(state, queues)
      /\ running_process \in Proc \cup {NoProc} /\ level \in Nat
      /\ \A p \in Proc : priority[p] \in Priority
    BY DEF NiceInv, NiceTypes, Priorities
<1>a. {"FREE", "BLOCKED", "TERMINATED"} \subseteq ProcessState \ {"READY"}
    BY DEF ProcessState
<1>1. ASSUME NEW c \in Proc, NEW p \in Proc, NEW k \in Priority, create_process(c, p, k)
      PROVE  NiceInv'
  <2>1. queues' \in Tables /\ Reachable(state', queues')
      BY <1>0, <1>1, AddReachable DEF create_process, Added
  <2> QED  BY <1>0, <1>1, <2>1 DEF create_process, NiceInv, NiceTypes, States, Priorities, ProcessState
<1>2. ASSUME NEW p \in Proc, unblock_process(p)
      PROVE  NiceInv'
  <2>1. queues' \in Tables /\ Reachable(state', queues')
      BY <1>0, <1>2, AddReachable DEF unblock_process, Added
  <2> QED  BY <1>0, <1>2, <2>1 DEF unblock_process, NiceInv, NiceTypes, States, ProcessState
<1>12. ASSUME NEW c \in Proc, unblock_process_act(c)
       PROVE  NiceInv'
  <2>0. PICK p \in Proc : p = tested[c]
      BY <1>12 DEF unblock_process_act, WindowSound
  <2>1. queues' \in Tables /\ Reachable(state', queues')
      BY <1>0, <1>12, <2>0, AddReachable DEF unblock_process_act, Added
  <2> QED  BY <1>0, <1>12, <2>0, <2>1 DEF unblock_process_act, NiceInv, NiceTypes, States, ProcessState
<1>13. ASSUME NEW c \in Proc, block_process_act(c)
       PROVE  NiceInv'
  <2>1. queues' \in Tables /\ Reachable(state', queues')
      BY <1>0, <1>a, <1>13, RemoveReachable DEF block_process_act, Removed, WindowSound
  <2> QED  BY <1>0, <1>13, <2>1 DEF block_process_act, NiceInv, NiceTypes, States, ProcessState
<1>3. ASSUME NEW c \in Proc, NEW p \in Proc, block_process(c, p)
      PROVE  NiceInv'
  <2>1. queues' \in Tables /\ Reachable(state', queues')
      BY <1>0, <1>a, <1>3, RemoveReachable DEF block_process, Removed
  <2> QED  BY <1>0, <1>3, <2>1 DEF block_process, NiceInv, NiceTypes, States, ProcessState
<1>4. ASSUME NEW c \in Proc, process_terminator(c)
      PROVE  NiceInv'
  <2>1. queues' \in Tables /\ Reachable(state', queues')
      BY <1>0, <1>a, <1>4, RemoveReachable DEF process_terminator, Removed
  <2> QED  BY <1>0, <1>4, <2>1 DEF process_terminator, NiceInv, NiceTypes, States, ProcessState
<1>5. ASSUME NEW p \in Proc, kill_process(p)
      PROVE  NiceInv'
  <2>1. queues' \in Tables /\ Reachable(state', queues')
      BY <1>0, <1>a, <1>5, RemoveReachable DEF kill_process, Removed
  <2> QED  BY <1>0, <1>5, <2>1 DEF kill_process, NiceInv, NiceTypes, States, ProcessState
<1>6. ASSUME NEW c \in Proc, reap_terminated_processes(c)
      PROVE  NiceInv'
  <2>1. state' \in States /\ \A p \in Proc : state'[p] = "READY" => state[p] = "READY"
      BY <1>0, <1>6 DEF reap_terminated_processes, States, ProcessState
  <2>2. UNCHANGED <<priority, queues, running_process, level>>
      BY <1>6 DEF reap_terminated_processes
  <2> QED  BY <1>0, <2>1, <2>2 DEF NiceInv, NiceTypes, Reachable
<1>7. ASSUME NEW c \in Proc, NEW p \in Proc, NEW k \in Priority, set_priority(c, p, k)
      PROVE  NiceInv'
    BY <1>0, <1>7 DEF set_priority, NiceInv, NiceTypes, Priorities
<1>8. ASSUME UNCHANGED <<state, priority, queues, running_process>>, level' \in Nat
      PROVE  NiceInv'
    BY <1>0, <1>8 DEF NiceInv, NiceTypes
<1>9. ASSUME NEW c \in Proc, yield_cpu(c) \/ ForceSchedule(c)
      PROVE  NiceInv'
    BY <1>0, <1>8, <1>9 DEF yield_cpu, ForceSchedule, EnterSchedule
<1>10. ASSUME NEW p \in Proc, AgingSkip(p) \/ AgingCount(p)
       PROVE  NiceInv'
    BY <1>0, <1>8, <1>10 DEF AgingSkip, AgingCount, AgingContinue
<1>11. CASE TimerTick \/ AgingEmptyLevel \/ AgingDone \/ KeepRunning \/ UNCHANGED vars
    BY <1>0, <1>8, <1>11 DEF TimerTick, EnterSchedule, AgingEmptyLevel, AgingDone, KeepRunning, vars
<1>14. ASSUME NEW c \in Proc, block_process_test(c) \/ \E p \in Proc : unblock_process_test(c, p)
       PROVE  NiceInv'
    BY <1>0, <1>8, <1>14 DEF block_process_test, unblock_process_test
<1> QED
    BY <1>1, <1>2, <1>3, <1>4, <1>5, <1>6, <1>7, <1>9, <1>10, <1>11, <1>12, <1>13, <1>14, RaiseNice, SwitchNice,
       SwitchToIdleNice
    DEF NextNice, Step, KernelCall, Aging, Dispatch

\* Whatever set_priority does to queued processes, and whoever is woken on a test
\* that no longer holds (the race included), a READY process stays in
\* some queue, so schedule() can reach it: a stale level delays it or hurries
\* it, and never loses it.
THEOREM NobodyIsForgotten == SpecNice => []ReadyIsReachable
<1>1. Init => NiceInv
  <2> SUFFICES ASSUME Init PROVE NiceInv
      OBVIOUS
  <2>1. 0 \in Priority /\ 0 \in Nat
      BY LimitAssumption DEF Priority
  <2>2. NiceTypes
      BY <2>1, ProcAssumption DEF Init, NiceTypes, States, Priorities, Tables, ProcessState
  <2>3. Reachable(state, queues)
      BY DEF Init, Reachable
  <2> QED  BY <2>2, <2>3 DEF NiceInv
<1>2. NiceInv /\ WindowSound /\ [NextNice]_vars => NiceInv'
    BY NextNiceInv
<1>4. Init => WindowSound
    BY ProcAssumption DEF Init, WindowSound
<1>5. ASSUME WindowSound, [NextNice]_vars PROVE WindowSound'
  <2>1. NextNice \/ [Next]_vars
      BY <1>5
  <2> QED  BY <1>5, <2>1, NextWindow
<1>3. NiceInv => ReadyIsReachable
    BY ReachableIsReachable
<1> QED  BY <1>1, <1>2, <1>3, <1>4, <1>5, PTL DEF SpecNice

=============================================================================
