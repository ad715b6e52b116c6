----------------------------- MODULE DlSmp_ops ------------------------------
(***************************************************************************)
(* The operations of a runqueue that push and pull are made of, on any      *)
(* number of CPUs, with any number of tasks, any deadlines and any          *)
(* affinities: each keeps the tasks where they belong and what is counted    *)
(* and published of them coherent.                                         *)
(***************************************************************************)
EXTENDS DlSmp, TLAPS

-----------------------------------------------------------------------------
(* What is used of minima and of numbers of elements.  That Counting holds *)
(* is proved with the theorems, in DlSmp_proofs.                           *)

LeastExists == \A S \in SUBSET Nat : S # {} => \E k \in S : \A j \in S : k <= j
CardInterval == \A n \in Nat : IsFiniteSet(1 .. n) /\ Cardinality(1 .. n) = n
CardEmpty == Cardinality({}) = 0 /\ \A S : IsFiniteSet(S) /\ Cardinality(S) = 0 => S = {}
CardType == \A S : IsFiniteSet(S) => Cardinality(S) \in Nat
CardSubset ==
    \A S : IsFiniteSet(S) =>
        \A T \in SUBSET S : IsFiniteSet(T) /\ Cardinality(T) <= Cardinality(S)
CardAdd ==
    \A S, x : IsFiniteSet(S) =>
        Cardinality(S \cup {x}) = IF x \in S THEN Cardinality(S) ELSE Cardinality(S) + 1
CardRemove ==
    \A S, x : IsFiniteSet(S) =>
        Cardinality(S \ {x}) = IF x \in S THEN Cardinality(S) - 1 ELSE Cardinality(S)
Counting ==
    LeastExists /\ CardInterval /\ CardEmpty /\ CardType /\ CardSubset /\ CardAdd /\ CardRemove

\* No task is twice in s.
Simple(s) == \A i, j \in 1 .. Len(s) : i # j => s[i] # s[j]

\* A least element of a set of naturals.
LEMMA Least ==
    ASSUME Counting, NEW S \in SUBSET Nat, S # {}
    PROVE  (CHOOSE k \in S : \A j \in S : k <= j) \in S
  BY Zenon DEF Counting, LeastExists

\* Concatenation.
LEMMA ConcatLemma ==
    ASSUME NEW S, NEW s \in Seq(S), NEW t \in Seq(S)
    PROVE  /\ s \o t \in Seq(S)
           /\ Len(s \o t) = Len(s) + Len(t)
           /\ \A i \in 1 .. Len(s) + Len(t) : (s \o t)[i] = IF i <= Len(s) THEN s[i] ELSE t[i - Len(s)]
  OBVIOUS

\* Insertion into an rb-tree adds the task and no other.
LEMMA InsertLemma ==
    ASSUME Counting, NEW m, NEW s \in Seq(Task), NEW p \in Task
    PROVE  /\ Insert(m, s, p) \in Seq(Task)
           /\ Elems(Insert(m, s, p)) = Elems(s) \cup {p}
           /\ Simple(s) /\ p \notin Elems(s) => Simple(Insert(m, s, p))
<1> DEFINE n == Cardinality({i \in 1 .. Len(s) : m.tsk[s[i]].dl <= m.tsk[p].dl})
           t == Insert(m, s, p)
<1>1. n \in 0 .. Len(s)
  <2>0. Len(s) \in Nat
    OBVIOUS
  <2> DEFINE l == Len(s)
  <2> HIDE DEF n, t, l
  <2>1. IsFiniteSet(1 .. l) /\ Cardinality(1 .. l) = l
    BY <2>0, Z3 DEF l, Counting, CardInterval
  <2> DEFINE S == {i \in 1 .. Len(s) : m.tsk[s[i]].dl <= m.tsk[p].dl}
  <2>2. S \in SUBSET (1 .. l)
    BY DEF l
  <2> HIDE DEF S
  <2>3. IsFiniteSet(S) /\ Cardinality(S) <= Cardinality(1 .. l)
    BY <2>1, <2>2, Zenon DEF Counting, CardSubset
  <2>4. Cardinality(S) \in Nat
    BY <2>3 DEF Counting, CardType
  <2>5. Cardinality(S) \in 0 .. l
    BY <2>0, <2>1, <2>3, <2>4 DEF l
  <2> QED
    BY <2>5 DEF S, n, l
<1>2. t = SubSeq(s, 1, n) \o <<p>> \o SubSeq(s, n + 1, Len(s))
  BY DEF Insert
<1> HIDE DEF n, t
<1>3. /\ t \in Seq(Task)
      /\ Len(t) = Len(s) + 1
      /\ \A i \in 1 .. Len(s) + 1 :
            t[i] = IF i <= n THEN s[i] ELSE IF i = n + 1 THEN p ELSE s[i - 1]
  <2> DEFINE a == SubSeq(s, 1, n)
             b == SubSeq(s, n + 1, Len(s))
  <2>1. /\ a \in Seq(Task) /\ Len(a) = n
        /\ \A i \in 1 .. n : a[i] = s[i]
    BY <1>1, SMTT(30), SMTT(50)
  <2>2. /\ b \in Seq(Task) /\ Len(b) = Len(s) - n
        /\ \A i \in 1 .. Len(s) - n : b[i] = s[n + i]
    BY <1>1, SMTT(30), SMTT(50)
  <2> HIDE DEF a, b
  <2>3. /\ a \o <<p>> \in Seq(Task) /\ Len(a \o <<p>>) = n + 1
        /\ \A i \in 1 .. n + 1 : (a \o <<p>>)[i] = IF i <= n THEN s[i] ELSE p
    BY <1>1, <2>1
  <2> DEFINE e == a \o <<p>>
  <2>4. t = e \o b
    BY <1>2 DEF a, b
  <2> HIDE DEF e
  <2>5. /\ e \in Seq(Task) /\ Len(e) = n + 1
        /\ \A i \in 1 .. n + 1 : e[i] = IF i <= n THEN s[i] ELSE p
    BY <2>3 DEF e
  <2>6. /\ t \in Seq(Task) /\ Len(t) = Len(e) + Len(b)
        /\ \A i \in 1 .. Len(e) + Len(b) :
              t[i] = IF i <= Len(e) THEN e[i] ELSE b[i - Len(e)]
    BY <2>2, <2>4, <2>5, ConcatLemma, Zenon
  <2>7. Len(e) = n + 1 /\ Len(e) + Len(b) = Len(s) + 1
    BY <1>1, <2>2, <2>5
  <2>8. \A i \in 1 .. Len(s) + 1 : t[i] = IF i <= n + 1 THEN e[i] ELSE b[i - (n + 1)]
    BY <2>6, <2>7, Zenon
  <2>9. ASSUME NEW i \in 1 .. Len(s) + 1
        PROVE  t[i] = IF i <= n THEN s[i] ELSE IF i = n + 1 THEN p ELSE s[i - 1]
    <3>0. n \in Nat /\ Len(s) \in Nat /\ n <= Len(s)
      BY <1>1
    <3>1. CASE i <= n + 1
      <4>1. i \in 1 .. n + 1 /\ (~(i <= n) => i = n + 1)
        BY <3>0, <3>1
      <4>2. t[i] = e[i]
        BY <2>8, <3>1
      <4>3. e[i] = IF i <= n THEN s[i] ELSE p
        BY <2>5, <4>1
      <4> QED
        BY <4>1, <4>2, <4>3
    <3>2. CASE i > n + 1
      <4>1. i - (n + 1) \in 1 .. Len(s) - n /\ n + (i - (n + 1)) = i - 1
            /\ ~(i <= n + 1) /\ ~(i <= n) /\ i # n + 1
        BY <3>0, <3>2
      <4>2. t[i] = b[i - (n + 1)]
        BY <2>8, <4>1
      <4>3. b[i - (n + 1)] = s[i - 1]
        BY <2>2, <4>1
      <4> QED
        BY <4>1, <4>2, <4>3
    <3> QED
      BY <3>0, <3>1, <3>2
  <2> QED
    BY <2>6, <2>7, <2>9
<1>4. Elems(t) = Elems(s) \cup {p}
  <2>1. \A i \in 1 .. Len(t) : t[i] \in Elems(s) \cup {p}
    BY <1>1, <1>3 DEF Elems
  <2>2. t[n + 1] = p /\ n + 1 \in 1 .. Len(t)
    BY <1>1, <1>3
  <2>3. ASSUME NEW i \in 1 .. Len(s) PROVE s[i] \in Elems(t)
    <3>1. CASE i <= n
      BY <1>1, <1>3, <3>1 DEF Elems
    <3>2. CASE i > n
      <4>1. i + 1 \in 1 .. Len(t) /\ t[i + 1] = s[i]
        BY <1>1, <1>3, <3>2
      <4> QED
        BY <4>1 DEF Elems
    <3> QED
      BY <1>1, <3>1, <3>2
  <2> QED
    BY <2>1, <2>2, <2>3, Zenon DEF Elems
<1>5. ASSUME Simple(s), p \notin Elems(s) PROVE Simple(t)
  <2>1. \A i \in 1 .. Len(s) : s[i] # p
    BY <1>5 DEF Elems
  <2>2. \A i, j \in 1 .. Len(s) : i # j => s[i] # s[j]
    BY <1>5 DEF Simple
  <2> DEFINE f(i) == IF i <= n THEN i ELSE i - 1
  <2>3. \A i \in 1 .. Len(s) + 1 : i # n + 1 => f(i) \in 1 .. Len(s) /\ t[i] = s[f(i)]
    BY <1>1, <1>3
  <2>4. \A i, j \in 1 .. Len(s) + 1 : i # j /\ i # n + 1 /\ j # n + 1 => f(i) # f(j)
    BY <1>1
  <2>5. t[n + 1] = p
    BY <1>1, <1>3
  <2> HIDE DEF f
  <2>6. \A i \in 1 .. Len(s) + 1 : i # n + 1 => t[i] # p
    BY <2>1, <2>3
  <2>7. \A i, j \in 1 .. Len(s) + 1 : i # j /\ i # n + 1 /\ j # n + 1 => t[i] # t[j]
    <3> SUFFICES ASSUME NEW i \in 1 .. Len(s) + 1, NEW j \in 1 .. Len(s) + 1,
                        i # j, i # n + 1, j # n + 1
                 PROVE  s[f(i)] # s[f(j)]
      BY <2>3
    <3>1. f(i) \in 1 .. Len(s) /\ f(j) \in 1 .. Len(s) /\ f(i) # f(j)
      BY <2>3, <2>4
    <3> QED
      BY <2>2, <3>1
  <2> QED
    BY <1>3, <2>5, <2>6, <2>7 DEF Simple
<1> QED
  BY <1>3, <1>4, <1>5 DEF t

\* Removal takes out the task and no other.
LEMMA WithoutLemma ==
    ASSUME NEW s \in Seq(Task), NEW p, Simple(s)
    PROVE  /\ Without(s, p) \in Seq(Task)
           /\ Elems(Without(s, p)) = Elems(s) \ {p}
           /\ Simple(Without(s, p))
<1>1. CASE p \notin Elems(s)
  BY <1>1 DEF Without
<1>2. CASE p \in Elems(s)
  <2> DEFINE n == Len(s)
             t == Without(s, p)
  <2>1. PICK k \in 1 .. n : s[k] = p
    BY <1>2 DEF Elems
  <2>2. \A i \in 1 .. n : s[i] = p <=> i = k
    BY <2>1 DEF Simple
  <2>3. t = [i \in 1 .. n - 1 |-> IF \E j \in 1 .. i : s[j] = p THEN s[i + 1] ELSE s[i]]
    BY <1>2 DEF Without
  <2>4. \A i \in 1 .. n - 1 : t[i] = IF k <= i THEN s[i + 1] ELSE s[i]
    <3> SUFFICES ASSUME NEW i \in 1 .. n - 1 PROVE t[i] = IF k <= i THEN s[i + 1] ELSE s[i]
      OBVIOUS
    <3>1. (\E j \in 1 .. i : s[j] = p) <=> k <= i
      BY <2>1, <2>2
    <3> QED
      BY <2>3, <3>1
  <2>5. n \in Nat /\ n > 0 /\ \A i \in 1 .. n - 1 : t[i] \in Task
    BY <2>1, <2>4
  <2>6. t \in Seq(Task) /\ Len(t) = n - 1
    BY <2>3, <2>5
  <2> HIDE DEF t
  <2>7. Elems(t) = Elems(s) \ {p}
    <3>1. ASSUME NEW i \in 1 .. n - 1 PROVE t[i] \in Elems(s) \ {p}
      BY <2>2, <2>4, <2>5 DEF Elems
    <3>2. ASSUME NEW i \in 1 .. n, i # k PROVE s[i] \in Elems(t)
      <4>1. CASE i < k
        BY <2>4, <2>5, <2>6, <4>1 DEF Elems
      <4>2. CASE i > k
        <5>1. i - 1 \in 1 .. n - 1 /\ t[i - 1] = s[i]
          BY <2>4, <2>5, <4>2
        <5> QED
          BY <2>6, <5>1 DEF Elems
      <4> QED
        BY <3>2, <4>1, <4>2
    <3> QED
      BY <2>1, <2>2, <2>6, <3>1, <3>2, Zenon DEF Elems
  <2>8. Simple(t)
    BY <2>4, <2>5, <2>6, SMTT(40), SMTT(60) DEF Simple
  <2> QED
    BY <2>6, <2>7, <2>8 DEF t
<1> QED
  BY <1>1, <1>2

-----------------------------------------------------------------------------
(* The inductive invariant, as predicates of a machine state.              *)

Runqueue == [curr : Task \cup {Idle}, tree : Seq(Task), push : Seq(Task), first : Int,
             next : Int, nr_migratory : Int, overloaded : BOOLEAN, resched : BOOLEAN]
Entity == [cpu : Cpu, allowed : SUBSET Cpu, on_rq : BOOLEAN, dl : Int, throttled : BOOLEAN,
           armed : BOOLEAN]
RootDomain == [dlo_mask : SUBSET Cpu, dlo_count : Int, cpudl : [Cpu -> Int]]
Bugs == {"none", "pushable", "on_dl_rq", "pick_next_pushable", "nr_migratory", "wrong_rq"}
Machine == [rq : [Cpu -> Runqueue], tsk : [Task -> Entity], rd : RootDomain, bug : Bugs]

Movers(m, c) == {p \in Elems(m.rq[c].tree) : Migratory(m, p)}

\* Tasks are where they say.  X is the task being woken, which is queued before it is on_rq.
Placed(m, X) ==
    \A c \in Cpu :
        /\ Simple(m.rq[c].tree)
        /\ \A p \in Elems(m.rq[c].tree) :
              m.tsk[p].cpu = c /\ ~m.tsk[p].throttled /\ (p \in X \/ m.tsk[p].on_rq)
        /\ m.rq[c].curr \in Task => m.tsk[m.rq[c].curr].cpu = c

\* The pushable trees hold tasks that are queued and can go, and the count is right.
Counted(m) ==
    \A c \in Cpu :
        /\ Simple(m.rq[c].push) /\ Elems(m.rq[c].push) \subseteq Movers(m, c)
        /\ m.rq[c].nr_migratory = Cardinality(Movers(m, c))

\* Published, but for the runqueues in X, whose mark is being updated.
Shown(m, X) ==
    /\ m.rd.dlo_mask = {c \in Cpu : m.rq[c].overloaded}
    /\ m.rd.dlo_count = Cardinality(m.rd.dlo_mask)
    /\ \A c \in Cpu :
          /\ m.rd.cpudl[c] = m.rq[c].first
          /\ c \in X \/ m.rq[c].overloaded = (m.rq[c].nr_migratory > 0 /\ Len(m.rq[c].tree) > 1)

\* The running tasks are not pushable.
Idlers(m) == \A c \in Cpu : m.rq[c].curr \notin Elems(m.rq[c].push)

Good(m, X) == m \in Machine /\ Placed(m, X) /\ Counted(m) /\ Shown(m, {})

\* The types of the parts of a machine.
LEMMA MachineType ==
    ASSUME NEW m \in Machine
    PROVE  /\ m.rq \in [Cpu -> Runqueue] /\ m.tsk \in [Task -> Entity]
           /\ m.rd \in RootDomain
           /\ \A c \in Cpu : /\ m.rq[c] \in Runqueue
                             /\ m.rq[c].curr \in Task \cup {Idle}
                             /\ m.rq[c].tree \in Seq(Task) /\ m.rq[c].push \in Seq(Task)
                             /\ Elems(m.rq[c].tree) \subseteq Task
                             /\ Elems(m.rq[c].push) \subseteq Task
                             /\ m.rq[c].first \in Int /\ m.rq[c].nr_migratory \in Int
           /\ \A p \in Task : /\ m.tsk[p] \in Entity /\ m.tsk[p].cpu \in Cpu
                              /\ m.tsk[p].dl \in Int /\ m.tsk[p].on_rq \in BOOLEAN
<1>1. /\ m.rq \in [Cpu -> Runqueue] /\ m.tsk \in [Task -> Entity] /\ m.rd \in RootDomain
  BY DEF Machine
<1>2. \A c \in Cpu : m.rq[c] \in Runqueue
  BY <1>1
<1>3. \A q \in Runqueue :
        /\ q.curr \in Task \cup {Idle} /\ q.tree \in Seq(Task) /\ q.push \in Seq(Task)
        /\ q.first \in Int /\ q.nr_migratory \in Int
  BY DEF Runqueue
<1>4. \A s \in Seq(Task) : Elems(s) \subseteq Task
  BY DEF Elems
<1>5. \A p \in Task : m.tsk[p] \in Entity
  BY <1>1
<1>6. \A e \in Entity : e.cpu \in Cpu /\ e.dl \in Int /\ e.on_rq \in BOOLEAN
  BY DEF Entity
<1> QED
  BY <1>1, <1>2, <1>3, <1>4, <1>5, <1>6

\* The same tasks run and are queued in m and r, and nothing is published anew.
Alike(m, r) ==
    /\ r \in Machine /\ r.tsk = m.tsk /\ r.rd = m.rd /\ r.bug = m.bug
    /\ \A c \in Cpu :
          /\ r.rq[c].curr = m.rq[c].curr /\ r.rq[c].tree = m.rq[c].tree
          /\ r.rq[c].push = m.rq[c].push /\ r.rq[c].first = m.rq[c].first
          /\ r.rq[c].nr_migratory = m.rq[c].nr_migratory
          /\ r.rq[c].overloaded = m.rq[c].overloaded

\* What is said of a machine is true of one that is alike.
LEMMA AlikeLemma ==
    ASSUME NEW m, NEW r, NEW X, Alike(m, r), Good(m, X)
    PROVE  Good(r, X) /\ (Idlers(m) => Idlers(r))
<1>1. Placed(r, X)
  BY DEF Alike, Good, Placed
<1>2. \A c \in Cpu : Movers(r, c) = Movers(m, c)
  BY DEF Alike, Movers, Migratory
<1>3. Counted(r)
  BY <1>2 DEF Alike, Good, Counted
<1>4. Shown(r, {})
  BY DEF Alike, Good, Shown
<1> QED
  BY <1>1, <1>3, <1>4 DEF Alike, Good, Idlers

\* What is published depends on the queues and their caches only.
LEMMA ShownLemma ==
    ASSUME NEW m, NEW r, Shown(m, {}), r.rd = m.rd,
           \A d \in Cpu : /\ r.rq[d].tree = m.rq[d].tree /\ r.rq[d].first = m.rq[d].first
                          /\ r.rq[d].nr_migratory = m.rq[d].nr_migratory
                          /\ r.rq[d].overloaded = m.rq[d].overloaded
    PROVE  Shown(r, {})
  BY ZenonT(60) DEF Shown

\* set_tsk_need_resched() marks a runqueue and no more.
LEMMA ReschedLemma ==
    ASSUME NEW m \in Machine, NEW c \in Cpu
    PROVE  Alike(m, resched_task(m, c)) /\ Alike(m, m)
  BY ZenonT(60) DEF Alike, resched_task, Machine, Runqueue

\* Whether to preempt changes no queue.
LEMMA PreemptLemma ==
    ASSUME NEW m \in Machine, NEW c \in Cpu, NEW p
    PROVE  Alike(m, check_preempt_curr(m, c, p))
  BY ReschedLemma
     DEF check_preempt_curr, check_preempt_curr_dl, check_preempt_equal_dl

\* Only what is cached of the deadlines of runqueue c differs.
Redated(m, r, c) ==
    /\ r \in Machine /\ r.tsk = m.tsk /\ r.bug = m.bug
    /\ r.rd.dlo_mask = m.rd.dlo_mask /\ r.rd.dlo_count = m.rd.dlo_count
    /\ \/ r.rd.cpudl[c] = m.rd.cpudl[c] /\ r.rq[c].first = m.rq[c].first
       \/ r.rd.cpudl[c] = r.rq[c].first
    /\ \A d \in Cpu :
          /\ d # c => r.rq[d] = m.rq[d] /\ r.rd.cpudl[d] = m.rd.cpudl[d]
          /\ r.rq[d].curr = m.rq[d].curr /\ r.rq[d].tree = m.rq[d].tree
          /\ r.rq[d].push = m.rq[d].push
          /\ r.rq[d].nr_migratory = m.rq[d].nr_migratory
          /\ r.rq[d].overloaded = m.rq[d].overloaded

\* The task that another CPU may take is queued, behind the first, and does not run.
LEMMA EarliestLemma ==
    ASSUME Counting, NEW m \in Machine, NEW c \in Cpu, NEW d
    PROVE  LET p == pick_next_earliest_dl_task(m, c, d)
           IN  /\ p \in Task \cup {Idle}
               /\ p # Idle => p \in Elems(m.rq[c].tree) /\ m.rq[c].curr # p
<1> DEFINE s == m.rq[c].tree
           takes == {i \in 2 .. Len(s) : pick_dl_task(m, c, s[i], d)}
           k == CHOOSE i \in takes : \A j \in takes : i <= j
<1>1. s \in Seq(Task)
  BY MachineType
<1>2. pick_next_earliest_dl_task(m, c, d) = IF takes = {} THEN Idle ELSE s[k]
  BY DEF pick_next_earliest_dl_task
<1>3. takes \in SUBSET Nat
  BY <1>1
<1>4. ASSUME takes # {} PROVE k \in takes
  <2> HIDE DEF takes
  <2> QED
    BY <1>3, <1>4, Least, Zenon
<1>5. ASSUME takes # {} PROVE k \in 1 .. Len(s) /\ pick_dl_task(m, c, s[k], d)
  <2> HIDE DEF k
  <2> QED
    BY <1>1, <1>4, <1>5
<1> HIDE DEF takes, k
<1>6. ASSUME takes # {} PROVE s[k] \in Task /\ s[k] \in Elems(s) /\ m.rq[c].curr # s[k]
  BY <1>1, <1>5, <1>6, SMT, Zenon, SMTT(40) DEF Elems, pick_dl_task
<1> QED
  BY <1>2, <1>6

\* next_deadline() is a deadline or 0.
LEMMA NextLemma ==
    ASSUME Counting, NEW m \in Machine, NEW c \in Cpu
    PROVE  next_deadline(m, c) \in Int
<1>1. pick_next_earliest_dl_task(m, c, c) \in Task \cup {Idle}
  BY EarliestLemma
<1> QED
  BY <1>1, MachineType DEF next_deadline

\* Setting the cached deadlines of one runqueue.
LEMMA RedateLemma ==
    ASSUME NEW m \in Machine, NEW c \in Cpu, NEW d \in Int, NEW e \in Int
    PROVE  /\ Redated(m, m, c)
           /\ Redated(m, [m EXCEPT !.rq[c].next = e], c)
           /\ Redated(m, [m EXCEPT !.rq[c].next = e, !.rq[c].first = d, !.rd.cpudl[c] = d], c)
<1>1. Redated(m, m, c)
  BY DEF Redated
<1>2. Redated(m, [m EXCEPT !.rq[c].next = e], c)
  BY ZenonT(60) DEF Redated, Machine, Runqueue
<1> DEFINE q == [m.rq[c] EXCEPT !.next = e, !.first = d]
           v == [m.rd EXCEPT !.cpudl = [m.rd.cpudl EXCEPT ![c] = d]]
           r == [m EXCEPT !.rq = [m.rq EXCEPT ![c] = q], !.rd = v]
<1>3. r = [m EXCEPT !.rq[c].next = e, !.rq[c].first = d, !.rd.cpudl[c] = d]
  <2>1. m.rq \in [Cpu -> Runqueue] /\ m.rd \in RootDomain /\ m.rq[c] \in Runqueue
    BY MachineType
  <2>2. [m EXCEPT !.rq[c].next = e, !.rq[c].first = d]
        = [m EXCEPT !.rq = [m.rq EXCEPT ![c] = q]]
    BY <2>1, Zenon DEF Machine, Runqueue
  <2> QED
    BY <2>1, <2>2, Zenon DEF Machine, RootDomain
<1>4. Redated(m, r, c)
  <2>1. m.rq \in [Cpu -> Runqueue] /\ m.rd \in RootDomain /\ m.rq[c] \in Runqueue
    BY MachineType
  <2>2. /\ q \in Runqueue /\ q.first = d
        /\ q.curr = m.rq[c].curr /\ q.tree = m.rq[c].tree /\ q.push = m.rq[c].push
        /\ q.nr_migratory = m.rq[c].nr_migratory /\ q.overloaded = m.rq[c].overloaded
    BY <2>1, Zenon DEF Runqueue
  <2>3. /\ v \in RootDomain /\ v.cpudl[c] = d
        /\ v.dlo_mask = m.rd.dlo_mask /\ v.dlo_count = m.rd.dlo_count
        /\ \A x \in Cpu : x # c => v.cpudl[x] = m.rd.cpudl[x]
    BY <2>1 DEF RootDomain
  <2> HIDE DEF q, v
  <2>4. /\ r \in Machine /\ r.tsk = m.tsk /\ r.bug = m.bug /\ r.rd = v /\ r.rq[c] = q
        /\ \A x \in Cpu : x # c => r.rq[x] = m.rq[x]
    BY <2>2, <2>3, Zenon DEF Machine
  <2> HIDE DEF r
  <2> QED
    BY <2>2, <2>3, <2>4 DEF Redated
<1> QED
  BY <1>1, <1>2, <1>3, <1>4

\* inc_dl_deadline() publishes what it caches,
LEMMA IncLemma ==
    ASSUME Counting, NEW m \in Machine, NEW c \in Cpu, NEW d \in Int
    PROVE  Redated(m, inc_dl_deadline(m, c, d), c)
<1>1. m.rq[c].first \in Int /\ next_deadline(m, c) \in Int
  BY MachineType, NextLemma
<1> QED
  BY <1>1, RedateLemma, Zenon DEF inc_dl_deadline

\* and so does dec_dl_deadline().
LEMMA DecLemma ==
    ASSUME Counting, NEW m \in Machine, NEW c \in Cpu
    PROVE  Redated(m, dec_dl_deadline(m, c), c)
<1> DEFINE s == m.rq[c].tree
           d == IF s = <<>> THEN 0 ELSE m.tsk[s[1]].dl
           e == IF s = <<>> THEN 0 ELSE next_deadline(m, c)
<1>1. s \in Seq(Task) /\ (s # <<>> => s[1] \in Task)
  BY MachineType
<1>2. d \in Int /\ e \in Int
  BY <1>1, MachineType, NextLemma
<1>3. dec_dl_deadline(m, c)
      = [m EXCEPT !.rq[c].next = e, !.rq[c].first = d, !.rd.cpudl[c] = d]
  BY DEF dec_dl_deadline
<1> HIDE DEF d, e
<1>4. Redated(m, [m EXCEPT !.rq[c].next = e, !.rq[c].first = d, !.rd.cpudl[c] = d], c)
  BY <1>2, RedateLemma, Zenon
<1> QED
  BY <1>3, <1>4, Zenon

\* update_dl_migration() brings the mark, the mask and the count up to date together.
LEMMA UpdateLemma ==
    ASSUME Counting, NEW m \in Machine, NEW c \in Cpu, Shown(m, {c})
    PROVE  LET r == update_dl_migration(m, c)
           IN  /\ r \in Machine /\ r.tsk = m.tsk /\ r.bug = m.bug /\ Shown(r, {})
               /\ \A d \in Cpu :
                     /\ r.rq[d].curr = m.rq[d].curr /\ r.rq[d].tree = m.rq[d].tree
                     /\ r.rq[d].push = m.rq[d].push
                     /\ r.rq[d].nr_migratory = m.rq[d].nr_migratory
<1> DEFINE over == m.rq[c].nr_migratory > 0 /\ Len(m.rq[c].tree) > 1
           r == update_dl_migration(m, c)
           mask == IF over THEN m.rd.dlo_mask \cup {c} ELSE m.rd.dlo_mask \ {c}
           n == IF over THEN m.rd.dlo_count + 1 ELSE m.rd.dlo_count - 1
<1>1. over \in BOOLEAN /\ m.rq[c].overloaded \in BOOLEAN
  BY DEF Machine, Runqueue
<1>2. CASE over = m.rq[c].overloaded
  <2>1. r = m
    BY <1>2 DEF update_dl_migration
  <2> QED
    BY <1>2, <2>1, Zenon DEF Shown
<1>3. CASE over # m.rq[c].overloaded
  <2>1. r = [m EXCEPT !.rq[c].overloaded = over, !.rd.dlo_mask = mask, !.rd.dlo_count = n]
    BY <1>3 DEF update_dl_migration
  <2>2. m.rd.dlo_mask \in SUBSET Cpu /\ m.rd.dlo_count \in Int
    BY DEF Machine, RootDomain
  <2>3. mask \in SUBSET Cpu /\ n \in Int
    BY <2>2
  <2>4. IsFiniteSet(m.rd.dlo_mask) /\ m.rd.dlo_count = Cardinality(m.rd.dlo_mask)
    BY <2>2, SmpAssumption DEF Shown, Counting, CardSubset
  <2>5. c \in m.rd.dlo_mask <=> ~over
    BY <1>1, <1>3 DEF Shown
  <2>6. n = Cardinality(mask)
    <3>1. CASE over
      <4>1. Cardinality(m.rd.dlo_mask \cup {c}) = Cardinality(m.rd.dlo_mask) + 1
        BY <2>4, <2>5, <3>1 DEF Counting, CardAdd
      <4> QED
        BY <2>4, <3>1, <4>1
    <3>2. CASE ~over
      <4>1. Cardinality(m.rd.dlo_mask \ {c}) = Cardinality(m.rd.dlo_mask) - 1
        BY <2>4, <2>5, <3>2 DEF Counting, CardRemove
      <4> QED
        BY <2>4, <3>2, <4>1
    <3> QED
      BY <3>1, <3>2
  <2> DEFINE o == over
  <2>7. o \in BOOLEAN /\ (o <=> m.rq[c].nr_migratory > 0 /\ Len(m.rq[c].tree) > 1)
    BY <1>1
  <2>8. r = [m EXCEPT !.rq[c].overloaded = o, !.rd.dlo_mask = mask, !.rd.dlo_count = n]
    BY <2>1
  <2>9. mask = IF o THEN m.rd.dlo_mask \cup {c} ELSE m.rd.dlo_mask \ {c}
    OBVIOUS
  <2> HIDE DEF r, mask, n, o
  <2>10. /\ r \in Machine /\ r.tsk = m.tsk /\ r.bug = m.bug
         /\ r.rd.dlo_mask = mask /\ r.rd.dlo_count = n /\ r.rd.cpudl = m.rd.cpudl
         /\ r.rq[c].overloaded = o /\ r.rq[c].first = m.rq[c].first
         /\ \A d \in Cpu : d # c => r.rq[d] = m.rq[d]
         /\ \A d \in Cpu :
               /\ r.rq[d].curr = m.rq[d].curr /\ r.rq[d].tree = m.rq[d].tree
               /\ r.rq[d].push = m.rq[d].push
               /\ r.rq[d].nr_migratory = m.rq[d].nr_migratory
    <3> DEFINE q == [m.rq[c] EXCEPT !.overloaded = o]
               v == [m.rd EXCEPT !.dlo_mask = mask, !.dlo_count = n]
    <3>1. m.rq \in [Cpu -> Runqueue] /\ m.rd \in RootDomain /\ m.rq[c] \in Runqueue
      BY MachineType
    <3>2. r = [m EXCEPT !.rq = [m.rq EXCEPT ![c] = q], !.rd = v]
      BY <2>8, <3>1, Zenon DEF Machine, RootDomain
    <3>3. /\ q \in Runqueue /\ q.overloaded = o /\ q.first = m.rq[c].first
          /\ q.curr = m.rq[c].curr /\ q.tree = m.rq[c].tree /\ q.push = m.rq[c].push
          /\ q.nr_migratory = m.rq[c].nr_migratory
      BY <2>7, <3>1, Zenon DEF Runqueue
    <3>4. /\ v \in RootDomain /\ v.dlo_mask = mask /\ v.dlo_count = n
          /\ v.cpudl = m.rd.cpudl
      BY <2>3, <3>1, Zenon DEF RootDomain
    <3> HIDE DEF q, v
    <3>5. /\ r \in Machine /\ r.tsk = m.tsk /\ r.bug = m.bug /\ r.rd = v /\ r.rq[c] = q
          /\ \A x \in Cpu : x # c => r.rq[x] = m.rq[x]
      BY <3>2, <3>3, <3>4, Zenon DEF Machine
    <3> QED
      BY <3>3, <3>4, <3>5
  <2>11. mask = {d \in Cpu : r.rq[d].overloaded}
    BY <2>7, <2>9, <2>10, ZenonT(60) DEF Shown
  <2>12. Shown(r, {})
    BY <2>6, <2>7, <2>10, <2>11 DEF Shown
  <2> QED
    BY <2>10, <2>12 DEF r
<1> QED
  BY <1>2, <1>3

SetTree(m, c, s)  == [m EXCEPT !.rq[c].tree = s]
SetPush(m, c, s)  == [m EXCEPT !.rq[c].push = s]
SetCount(m, c, n) == [m EXCEPT !.rq[c].nr_migratory = n]

\* The tree of a runqueue is replaced.
LEMMA TreeLemma ==
    ASSUME NEW m \in Machine, NEW c \in Cpu, NEW s \in Seq(Task),
           NEW r, r = SetTree(m, c, s)
    PROVE  /\ r \in Machine /\ r.tsk = m.tsk /\ r.rd = m.rd /\ r.bug = m.bug
           /\ r.rq[c].tree = s
           /\ \A d \in Cpu :
                 /\ d # c => r.rq[d] = m.rq[d]
                 /\ r.rq[d].curr = m.rq[d].curr /\ r.rq[d].push = m.rq[d].push
                 /\ r.rq[d].first = m.rq[d].first
                 /\ r.rq[d].nr_migratory = m.rq[d].nr_migratory
                 /\ r.rq[d].overloaded = m.rq[d].overloaded
  BY ZenonT(60) DEF Machine, Runqueue, SetTree

\* The pushable tree of a runqueue is replaced.
LEMMA PushLemma ==
    ASSUME NEW m \in Machine, NEW c \in Cpu, NEW s \in Seq(Task),
           NEW r, r = SetPush(m, c, s)
    PROVE  /\ r \in Machine /\ r.tsk = m.tsk /\ r.rd = m.rd /\ r.bug = m.bug
           /\ r.rq[c].push = s
           /\ \A d \in Cpu :
                 /\ d # c => r.rq[d] = m.rq[d]
                 /\ r.rq[d].curr = m.rq[d].curr /\ r.rq[d].tree = m.rq[d].tree
                 /\ r.rq[d].first = m.rq[d].first
                 /\ r.rq[d].nr_migratory = m.rq[d].nr_migratory
                 /\ r.rq[d].overloaded = m.rq[d].overloaded
  BY ZenonT(60) DEF Machine, Runqueue, SetPush

\* The count of the tasks that can go is replaced.
LEMMA CountLemma ==
    ASSUME NEW m \in Machine, NEW c \in Cpu, NEW n \in Int,
           NEW r, r = SetCount(m, c, n)
    PROVE  /\ r \in Machine /\ r.tsk = m.tsk /\ r.rd = m.rd /\ r.bug = m.bug
           /\ r.rq[c].nr_migratory = n
           /\ \A d \in Cpu :
                 /\ d # c => r.rq[d] = m.rq[d]
                 /\ r.rq[d].curr = m.rq[d].curr /\ r.rq[d].tree = m.rq[d].tree
                 /\ r.rq[d].push = m.rq[d].push
                 /\ r.rq[d].first = m.rq[d].first
                 /\ r.rq[d].overloaded = m.rq[d].overloaded
  BY ZenonT(60) DEF Machine, Runqueue, SetCount

\* A task more or less that can go.
LEMMA MoversLemma ==
    ASSUME Counting, NEW m \in Machine, NEW c \in Cpu, NEW p
    PROVE  /\ Cardinality(Movers(m, c)) \in Nat
           /\ p \in Movers(m, c) => Cardinality(Movers(m, c)) > 0
           /\ Cardinality(Movers(m, c) \cup {p}) =
                IF p \in Movers(m, c) THEN Cardinality(Movers(m, c))
                ELSE Cardinality(Movers(m, c)) + 1
           /\ Cardinality(Movers(m, c) \ {p}) =
                IF p \in Movers(m, c) THEN Cardinality(Movers(m, c)) - 1
                ELSE Cardinality(Movers(m, c))
<1>1. Movers(m, c) \in SUBSET Task
  BY MachineType DEF Movers
<1>2. IsFiniteSet(Movers(m, c))
  BY <1>1, SmpAssumption DEF Counting, CardSubset
<1>3. p \in Movers(m, c) => Cardinality(Movers(m, c)) > 0
  BY <1>2 DEF Counting, CardType, CardEmpty
<1> QED
  BY <1>2, <1>3 DEF Counting, CardAdd, CardType, CardRemove

\* r is m with the tree s and the count n on CPU c.
Settled(m, r, c, s, n) ==
    /\ r \in Machine /\ r.tsk = m.tsk /\ r.bug = m.bug /\ Shown(r, {})
    /\ r.rq[c].tree = s /\ r.rq[c].nr_migratory = n
    /\ \A d \in Cpu :
          /\ r.rq[d].curr = m.rq[d].curr /\ r.rq[d].push = m.rq[d].push
          /\ d # c => /\ r.rq[d].tree = m.rq[d].tree
                    /\ r.rq[d].nr_migratory = m.rq[d].nr_migratory

\* The tree of a runqueue is changed, then what is cached of it, the count and the mark.
LEMMA SettleLemma ==
    ASSUME Counting, NEW m \in Machine, Shown(m, {}), NEW c \in Cpu, NEW s \in Seq(Task), NEW n \in Int,
           NEW m1, m1 = SetTree(m, c, s),
           NEW m2, Redated(m1, m2, c),
           NEW m3, m3 = SetCount(m2, c, n),
           NEW r, r = update_dl_migration(m3, c)
    PROVE  Settled(m, r, c, s, n)
<1>1. /\ m1.tsk = m.tsk /\ m1.rd = m.rd /\ m1.bug = m.bug
      /\ m1.rq[c].tree = s
      /\ \A d \in Cpu :
            /\ d # c => m1.rq[d] = m.rq[d]
            /\ m1.rq[d].curr = m.rq[d].curr /\ m1.rq[d].push = m.rq[d].push
            /\ m1.rq[d].first = m.rq[d].first
            /\ m1.rq[d].overloaded = m.rq[d].overloaded
  BY TreeLemma, SMTT(40), SMTT(60)
<1>2. Redated(m1, m2, c)
  OBVIOUS
<1>3. m2 \in Machine
  BY <1>2, SMT, Zenon, SMTT(40) DEF Redated
<1>4. /\ m3 \in Machine /\ m3.tsk = m2.tsk /\ m3.rd = m2.rd /\ m3.bug = m2.bug
      /\ m3.rq[c].nr_migratory = n
      /\ \A d \in Cpu :
            /\ d # c => m3.rq[d] = m2.rq[d]
            /\ m3.rq[d].curr = m2.rq[d].curr /\ m3.rq[d].tree = m2.rq[d].tree
            /\ m3.rq[d].push = m2.rq[d].push
            /\ m3.rq[d].first = m2.rq[d].first
            /\ m3.rq[d].overloaded = m2.rq[d].overloaded
  BY <1>3, CountLemma, SMTT(40), SMTT(60)
<1>5. m3.tsk = m.tsk /\ m3.bug = m.bug /\ m3.rq[c].tree = s
  BY <1>1, <1>2, <1>4, SMTT(40), SMTT(60) DEF Redated
<1>6. ASSUME NEW d \in Cpu
      PROVE  /\ m3.rq[d].curr = m.rq[d].curr /\ m3.rq[d].push = m.rq[d].push
             /\ m3.rq[d].overloaded = m.rq[d].overloaded
             /\ d # c => m3.rq[d] = m.rq[d]
             /\ m3.rd.cpudl[d] = m3.rq[d].first
  <2>1. m.rd.cpudl[d] = m.rq[d].first
    BY ZenonT(60) DEF Shown
  <2>2. CASE d = c
    BY <1>1, <1>2, <1>4, <2>1, <2>2, SMTT(40), SMTT(60) DEF Redated
  <2>3. CASE d # c
    BY <1>1, <1>2, <1>4, <2>1, <2>3, SMTT(40), SMTT(60) DEF Redated
  <2> QED
    BY <2>2, <2>3, SMT, Zenon, SMTT(40)
<1>7. m3.rd.dlo_mask = m.rd.dlo_mask /\ m3.rd.dlo_count = m.rd.dlo_count
  BY <1>1, <1>2, <1>4, Zenon DEF Redated
<1>8. Shown(m3, {c})
  <2>1. m3.rd.dlo_mask = {d \in Cpu : m3.rq[d].overloaded}
    BY <1>6, <1>7, SMT, Zenon, SMTT(40) DEF Shown
  <2>2. \A d \in Cpu : d # c =>
          m3.rq[d].overloaded = (m3.rq[d].nr_migratory > 0 /\ Len(m3.rq[d].tree) > 1)
    BY <1>6, SMT, Zenon, SMTT(40) DEF Shown
  <2>3. m3.rd.dlo_count = Cardinality(m3.rd.dlo_mask)
    BY <1>7, SMTT(40), SMTT(60) DEF Shown
  <2> QED
    BY <1>6, <2>1, <2>2, <2>3, SMT, Zenon, SMTT(40) DEF Shown
<1>9. /\ r \in Machine /\ r.tsk = m3.tsk /\ r.bug = m3.bug /\ Shown(r, {})
      /\ \A d \in Cpu :
            /\ r.rq[d].curr = m3.rq[d].curr /\ r.rq[d].tree = m3.rq[d].tree
            /\ r.rq[d].push = m3.rq[d].push
            /\ r.rq[d].nr_migratory = m3.rq[d].nr_migratory
  BY <1>4, <1>8, UpdateLemma, ZenonT(60)
<1>11. /\ r \in Machine /\ r.tsk = m.tsk /\ r.bug = m.bug /\ Shown(r, {})
       /\ r.rq[c].tree = s /\ r.rq[c].nr_migratory = n
  BY <1>4, <1>5, <1>9, Zenon
<1>12. \A d \in Cpu :
         /\ r.rq[d].curr = m.rq[d].curr /\ r.rq[d].push = m.rq[d].push
         /\ d # c => /\ r.rq[d].tree = m.rq[d].tree
                   /\ r.rq[d].nr_migratory = m.rq[d].nr_migratory
  BY <1>6, <1>9, SMTT(40), SMTT(60)
<1> QED
  BY <1>11, <1>12 DEF Settled

\* r is m with p in the tree of its CPU; without p; with p pushable; without.
Queued(m, r, p, X) ==
    /\ Good(r, X) /\ r.tsk = m.tsk /\ r.bug = m.bug
    /\ \A d \in Cpu :
          /\ r.rq[d].curr = m.rq[d].curr /\ r.rq[d].push = m.rq[d].push
          /\ Elems(r.rq[d].tree) = Elems(m.rq[d].tree) \cup IF d = m.tsk[p].cpu THEN {p} ELSE {}
Dequeued(m, r, p, X) ==
    /\ Good(r, X) /\ r.tsk = m.tsk /\ r.bug = m.bug
    /\ \A d \in Cpu :
          /\ r.rq[d].curr = m.rq[d].curr
          /\ Elems(r.rq[d].tree) = Elems(m.rq[d].tree) \ {p}
          /\ Elems(r.rq[d].push) = Elems(m.rq[d].push) \ {p}
MadePushable(m, r, c, p, X) ==
    /\ Good(r, X) /\ r.tsk = m.tsk /\ r.bug = m.bug
    /\ \A d \in Cpu :
          /\ r.rq[d].curr = m.rq[d].curr /\ r.rq[d].tree = m.rq[d].tree
          /\ Elems(r.rq[d].push) = Elems(m.rq[d].push) \cup IF d = c THEN {p} ELSE {}
Unpushable(m, r, c, p, X) ==
    /\ Good(r, X) /\ r.tsk = m.tsk /\ r.bug = m.bug
    /\ \A d \in Cpu :
          /\ r.rq[d].curr = m.rq[d].curr /\ r.rq[d].tree = m.rq[d].tree
          /\ Elems(r.rq[d].push) = Elems(m.rq[d].push) \ IF d = c THEN {p} ELSE {}

\* __enqueue_dl_entity() adds the task to the tree of its CPU, once.
LEMMA EnqueueEntity ==
    ASSUME Counting, NEW m, NEW X, Good(m, X), NEW p \in Task,
           \A c \in Cpu : p \notin Elems(m.rq[c].tree),
           ~m.tsk[p].throttled, p \in X \/ m.tsk[p].on_rq
    PROVE  Queued(m, __enqueue_dl_entity(m, p), p, X)
<1> DEFINE c  == m.tsk[p].cpu
           s  == Insert(m, m.rq[c].tree, p)
           m1 == SetTree(m, c, s)
           m2 == inc_dl_deadline(m1, c, m.tsk[p].dl)
           n  == m2.rq[c].nr_migratory + Count(m, p)
           m3 == SetCount(m2, c, n)
           r  == update_dl_migration(m3, c)
<1>1. __enqueue_dl_entity(m, p) = r
  BY Zenon DEF __enqueue_dl_entity, SetTree, SetCount
<1>2. m \in Machine /\ c \in Cpu /\ m.tsk[p].dl \in Int /\ m.rq[c].tree \in Seq(Task)
  BY MachineType DEF Good
<1>3. m.tsk[p].cpu = c
  BY SMT, Zenon, SMTT(40)
<1> HIDE DEF c
<1>4. s \in Seq(Task) /\ Elems(s) = Elems(m.rq[c].tree) \cup {p} /\ Simple(s)
  BY <1>2, InsertLemma DEF Good, Placed
<1> HIDE DEF s
<1>5. m1 = SetTree(m, c, s)
  BY SMT, Zenon, SMTT(40)
<1> HIDE DEF m1
<1>6. m1 \in Machine /\ m1.rq[c].nr_migratory = m.rq[c].nr_migratory
  BY <1>2, <1>4, <1>5, TreeLemma, SMT, Zenon, SMTT(40)
<1>7. Redated(m1, m2, c)
  BY <1>2, <1>6, IncLemma
<1> HIDE DEF m2
<1>8. n = m.rq[c].nr_migratory + Count(m, p) /\ n \in Int
  <2>1. m2.rq[c].nr_migratory = m1.rq[c].nr_migratory
    BY <1>2, <1>7 DEF Redated
  <2>2. m.rq[c].nr_migratory \in Int
    BY <1>2, MachineType
  <2> QED
    BY <1>6, <2>1, <2>2, SMT, Zenon, SMTT(40) DEF Count
<1> HIDE DEF n
<1>9. m3 = SetCount(m2, c, n) /\ r = update_dl_migration(m3, c)
  OBVIOUS
<1> HIDE DEF m3, r
<1>10. /\ r \in Machine /\ r.tsk = m.tsk /\ r.bug = m.bug /\ Shown(r, {})
      /\ r.rq[c].tree = s /\ r.rq[c].nr_migratory = n
      /\ \A d \in Cpu :
            /\ r.rq[d].curr = m.rq[d].curr /\ r.rq[d].push = m.rq[d].push
            /\ d # c => /\ r.rq[d].tree = m.rq[d].tree
                      /\ r.rq[d].nr_migratory = m.rq[d].nr_migratory
  <2>1. Shown(m, {})
    BY Zenon DEF Good
  <2> QED
    <3>1. Settled(m, r, c, s, n)
      BY <1>2, <1>4, <1>5, <1>7, <1>8, <1>9, <2>1, SettleLemma, Zenon
    <3> QED
      BY <3>1 DEF Settled
<1>11. Placed(r, X)
  BY <1>3, <1>4, <1>10 DEF Good, Placed
<1>12. Counted(r)
  <2>1. \A d \in Cpu : d # c => Movers(r, d) = Movers(m, d)
    BY <1>10, SMT, Zenon, SMTT(40) DEF Movers, Migratory
  <2>2. Movers(r, c) = IF Migratory(m, p) THEN Movers(m, c) \cup {p} ELSE Movers(m, c)
    BY <1>4, <1>10 DEF Movers, Migratory
  <2>3. p \notin Movers(m, c)
    BY <1>2 DEF Movers
  <2>4. n = Cardinality(Movers(r, c))
    <3>1. m.rq[c].nr_migratory = Cardinality(Movers(m, c))
      BY <1>2 DEF Good, Counted
    <3>2. /\ Cardinality(Movers(m, c)) \in Nat
          /\ Cardinality(Movers(m, c) \cup {p}) = Cardinality(Movers(m, c)) + 1
      BY <1>2, <2>3, MoversLemma
    <3> QED
      BY <1>8, <2>2, <3>1, <3>2 DEF Count
  <2> QED
    BY <1>2, <1>10, <2>1, <2>2, <2>4, Zenon DEF Good, Counted
<1>13. \A d \in Cpu : Elems(r.rq[d].tree) =
                        Elems(m.rq[d].tree) \cup IF d = m.tsk[p].cpu THEN {p} ELSE {}
  BY <1>3, <1>4, <1>10
<1>14. Good(r, X)
  BY <1>10, <1>11, <1>12 DEF Good
<1> QED
  BY <1>1, <1>10, <1>13, <1>14, SMT, Zenon, SMTT(40) DEF r, Queued

\* A change to a task.
SetTask(m, p, e) == [m EXCEPT !.tsk[p] = e]

\* It changes that task alone,
LEMMA SetTaskLemma ==
    ASSUME NEW m \in Machine, NEW p \in Task, NEW e \in Entity
    PROVE  LET r == SetTask(m, p, e)
           IN  /\ r \in Machine /\ r.rq = m.rq /\ r.rd = m.rd /\ r.bug = m.bug
               /\ r.tsk[p] = e /\ \A q \in Task : q # p => r.tsk[q] = m.tsk[q]
  BY SMT, Zenon, SMTT(40) DEF SetTask, Machine

\* and keeps the machine good if the task is not queued, or is queued where it was and can
\* go as before.
LEMMA TaskLemma ==
    ASSUME NEW m, NEW X, Good(m, X), NEW p \in Task, NEW e \in Entity,
           \/ \A c \in Cpu : p \notin Elems(m.rq[c].tree)
           \/ /\ e.cpu = m.tsk[p].cpu /\ e.throttled = m.tsk[p].throttled
              /\ m.tsk[p].on_rq => e.on_rq
              /\ (Cardinality(e.allowed) > 1) <=> Migratory(m, p),
           (\A c \in Cpu : m.rq[c].curr # p) \/ e.cpu = m.tsk[p].cpu
    PROVE  Good(SetTask(m, p, e), X)
<1> DEFINE r == SetTask(m, p, e)
<1>1. m \in Machine
  BY DEF Good
<1>2. /\ r \in Machine /\ r.rq = m.rq /\ r.rd = m.rd /\ r.bug = m.bug
      /\ r.tsk[p] = e /\ \A q \in Task : q # p => r.tsk[q] = m.tsk[q]
  BY <1>1, SetTaskLemma, SMT, Zenon, SMTT(40)
<1> HIDE DEF r
<1>3. \A c \in Cpu : /\ Elems(m.rq[c].tree) \subseteq Task
                     /\ m.rq[c].curr \in Task \cup {Idle}
  BY <1>1, MachineType
<1>4. \A q \in Task : \A c \in Cpu : q \in Elems(m.rq[c].tree) =>
        /\ r.tsk[q].cpu = m.tsk[q].cpu /\ r.tsk[q].throttled = m.tsk[q].throttled
        /\ m.tsk[q].on_rq => r.tsk[q].on_rq
        /\ Migratory(r, q) <=> Migratory(m, q)
  BY <1>2 DEF Migratory
<1>5. \A c \in Cpu : m.rq[c].curr \in Task =>
        r.tsk[m.rq[c].curr].cpu = m.tsk[m.rq[c].curr].cpu
  BY <1>2, ZenonT(60)
<1>6. Placed(r, X)
  BY <1>2, <1>3, <1>4, <1>5, SMTT(40), SMTT(60) DEF Good, Placed
<1>7. \A c \in Cpu : Movers(r, c) = Movers(m, c)
  BY <1>2, <1>3, <1>4, Zenon DEF Movers
<1>8. Counted(r)
  BY <1>2, <1>7, SMT, Zenon, SMTT(40) DEF Good, Counted
<1>9. Shown(r, {})
  <2>1. Shown(m, {})
    BY DEF Good
  <2> QED
    BY <1>2, <2>1, ShownLemma
<1> QED
  BY <1>2, <1>6, <1>8, <1>9 DEF Good, r

\* A queued task is in no other tree, and pushable nowhere else.
LEMMA OnceLemma ==
    ASSUME NEW m, NEW X, Good(m, X), NEW p \in Task, NEW c \in Cpu, m.tsk[p].cpu = c
    PROVE  /\ on_dl_rq(m, p) <=> p \in Elems(m.rq[c].tree)
           /\ \A d \in Cpu : d # c => p \notin Elems(m.rq[d].tree) /\ p \notin Elems(m.rq[d].push)
           /\ p \in Elems(m.rq[c].push) => p \in Elems(m.rq[c].tree) /\ Migratory(m, p)
<1>1. \A d \in Cpu : p \in Elems(m.rq[d].tree) => d = c
  BY DEF Good, Placed
<1>2. \A d \in Cpu : p \in Elems(m.rq[d].push) => p \in Elems(m.rq[d].tree) /\ Migratory(m, p)
  BY ZenonT(60) DEF Good, Counted, Movers
<1> QED
  BY <1>1, <1>2 DEF on_dl_rq

\* __dequeue_dl_entity() takes the task out of the tree of its CPU.
LEMMA DequeueEntity ==
    ASSUME Counting, NEW m, NEW X, Good(m, X), NEW p \in Task
    PROVE  LET r == __dequeue_dl_entity(m, p)
           IN  /\ r \in Machine /\ r.tsk = m.tsk /\ r.bug = m.bug /\ Shown(r, {})
               /\ \A d \in Cpu :
                     /\ r.rq[d].curr = m.rq[d].curr /\ r.rq[d].push = m.rq[d].push
                     /\ Simple(r.rq[d].tree)
                     /\ Elems(r.rq[d].tree) = Elems(m.rq[d].tree) \ {p}
                     /\ r.rq[d].nr_migratory = Cardinality(Movers(r, d))
<1> DEFINE c  == m.tsk[p].cpu
           s  == Without(m.rq[c].tree, p)
           m1 == SetTree(m, c, s)
           m2 == dec_dl_deadline(m1, c)
           n  == m2.rq[c].nr_migratory - Count(m, p)
           m3 == SetCount(m2, c, n)
           r  == update_dl_migration(m3, c)
<1>1. __dequeue_dl_entity(m, p) = IF ~on_dl_rq(m, p) THEN m ELSE r
  BY ZenonT(60) DEF __dequeue_dl_entity, SetTree, SetCount
<1>2. m \in Machine /\ c \in Cpu /\ m.rq[c].tree \in Seq(Task) /\ Simple(m.rq[c].tree)
  BY MachineType DEF Good, Placed
<1>3. m.tsk[p].cpu = c
  BY Zenon
<1> HIDE DEF c
<1>4. /\ on_dl_rq(m, p) <=> p \in Elems(m.rq[c].tree)
      /\ \A d \in Cpu : d # c => p \notin Elems(m.rq[d].tree)
  BY <1>2, <1>3, OnceLemma, ZenonT(60)
<1>5. CASE ~on_dl_rq(m, p)
  BY <1>1, <1>4, <1>5, SMTT(40), SMTT(60) DEF Good, Placed, Counted
<1>6. CASE on_dl_rq(m, p)
  <2>1. s \in Seq(Task) /\ Elems(s) = Elems(m.rq[c].tree) \ {p} /\ Simple(s)
    BY <1>2, WithoutLemma
  <2> HIDE DEF s
  <2>2. m1 = SetTree(m, c, s)
    OBVIOUS
  <2> HIDE DEF m1
  <2>3. m1 \in Machine /\ m1.rq[c].nr_migratory = m.rq[c].nr_migratory
    BY <1>2, <2>1, <2>2, TreeLemma
  <2>4. Redated(m1, m2, c)
    BY <1>2, <2>3, DecLemma
  <2> HIDE DEF m2
  <2>5. n = m.rq[c].nr_migratory - Count(m, p) /\ n \in Int
    <3>1. m2.rq[c].nr_migratory = m1.rq[c].nr_migratory
      BY <1>2, <2>4, SMT, Zenon, SMTT(40) DEF Redated
    <3>2. m.rq[c].nr_migratory \in Int
      BY <1>2, MachineType, SMT, Zenon, SMTT(40)
    <3> QED
      BY <2>3, <3>1, <3>2, SMTT(40), SMTT(60) DEF Count
  <2> HIDE DEF n
  <2>6. m3 = SetCount(m2, c, n) /\ r = update_dl_migration(m3, c)
    OBVIOUS
  <2> HIDE DEF m3, r
  <2>7. /\ r \in Machine /\ r.tsk = m.tsk /\ r.bug = m.bug /\ Shown(r, {})
        /\ r.rq[c].tree = s /\ r.rq[c].nr_migratory = n
        /\ \A d \in Cpu :
              /\ r.rq[d].curr = m.rq[d].curr /\ r.rq[d].push = m.rq[d].push
              /\ d # c => /\ r.rq[d].tree = m.rq[d].tree
                        /\ r.rq[d].nr_migratory = m.rq[d].nr_migratory
    <3>1. Shown(m, {})
      BY DEF Good
    <3> QED
      <4>1. Settled(m, r, c, s, n)
        BY <1>2, <2>1, <2>2, <2>4, <2>5, <2>6, <3>1, SettleLemma, Zenon
      <4> QED
        BY <4>1, SMT, Zenon, SMTT(40) DEF Settled
  <2>8. \A d \in Cpu : d # c => Movers(r, d) = Movers(m, d)
    BY <2>7, Zenon DEF Movers, Migratory
  <2>9. Movers(r, c) = Movers(m, c) \ {p} /\ (p \in Movers(m, c) <=> Migratory(m, p))
    BY <1>4, <1>6, <2>1, <2>7, Zenon DEF Movers, Migratory
  <2>10. n = Cardinality(Movers(r, c))
    <3>1. m.rq[c].nr_migratory = Cardinality(Movers(m, c))
      BY <1>2, SMT, Zenon, SMTT(40) DEF Good, Counted
    <3>2. /\ Cardinality(Movers(m, c)) \in Nat
          /\ Cardinality(Movers(m, c) \ {p}) =
               IF p \in Movers(m, c) THEN Cardinality(Movers(m, c)) - 1
               ELSE Cardinality(Movers(m, c))
      BY <1>2, MoversLemma, Zenon
    <3> QED
      BY <2>5, <2>9, <3>1, <3>2, SMTT(40), SMTT(60) DEF Count
  <2>11. ASSUME NEW d \in Cpu
         PROVE  /\ Simple(r.rq[d].tree)
                /\ Elems(r.rq[d].tree) = Elems(m.rq[d].tree) \ {p}
                /\ r.rq[d].nr_migratory = Cardinality(Movers(r, d))
    <3>1. CASE d = c
      BY <2>1, <2>7, <2>10, <3>1, ZenonT(60)
    <3>2. CASE d # c
      BY <1>4, <2>7, <2>8, <3>2, SMT, Zenon, SMTT(40) DEF Good, Placed, Counted
    <3> QED
      BY <3>1, <3>2, Zenon
  <2>12. __dequeue_dl_entity(m, p) = r
    BY <1>1, <1>6, ZenonT(60) DEF r
  <2> QED
    BY <2>7, <2>11, <2>12
<1> QED
  BY <1>5, <1>6

\* __dequeue_task_dl() takes the task out of both trees of its CPU.
LEMMA DequeueTask ==
    ASSUME Counting, NEW m, NEW X, Good(m, X), NEW p \in Task, NEW c \in Cpu, m.tsk[p].cpu = c
    PROVE  Dequeued(m, __dequeue_task_dl(m, c, p), p, X)
<1> DEFINE q == __dequeue_dl_entity(m, p)
           s == Without(q.rq[c].push, p)
           r == SetPush(q, c, s)
<1>1. __dequeue_task_dl(m, c, p) = r
  BY ZenonT(60) DEF __dequeue_task_dl, dequeue_pushable_dl_task, SetPush
<1>2. /\ q \in Machine /\ q.tsk = m.tsk /\ q.bug = m.bug /\ Shown(q, {})
      /\ \A d \in Cpu :
            /\ q.rq[d].curr = m.rq[d].curr /\ q.rq[d].push = m.rq[d].push
            /\ Simple(q.rq[d].tree)
            /\ Elems(q.rq[d].tree) = Elems(m.rq[d].tree) \ {p}
            /\ q.rq[d].nr_migratory = Cardinality(Movers(q, d))
  BY DequeueEntity, SMTT(40), SMTT(60)
<1> HIDE DEF q
<1>3. /\ s \in Seq(Task) /\ Simple(s) /\ Elems(s) = Elems(m.rq[c].push) \ {p}
  <2>1. q.rq[c].push \in Seq(Task) /\ Simple(q.rq[c].push)
    BY <1>2, MachineType, SMT, Zenon, SMTT(40) DEF Good, Counted
  <2> QED
    BY <1>2, <2>1, WithoutLemma, ZenonT(60)
<1> HIDE DEF s
<1>4. r = SetPush(q, c, s)
  BY ZenonT(60)
<1> HIDE DEF r
<1>5. /\ r \in Machine /\ r.tsk = q.tsk /\ r.rd = q.rd /\ r.bug = q.bug
      /\ r.rq[c].push = s
      /\ \A d \in Cpu :
            /\ d # c => r.rq[d] = q.rq[d]
            /\ r.rq[d].curr = q.rq[d].curr /\ r.rq[d].tree = q.rq[d].tree
            /\ r.rq[d].first = q.rq[d].first
            /\ r.rq[d].nr_migratory = q.rq[d].nr_migratory
            /\ r.rq[d].overloaded = q.rq[d].overloaded
  BY <1>2, <1>3, <1>4, PushLemma, SMTT(40), SMTT(60)
<1>6. \A d \in Cpu : /\ Elems(r.rq[d].push) = Elems(m.rq[d].push) \ {p}
                     /\ Simple(r.rq[d].push)
  <2>1. \A d \in Cpu : d # c => p \notin Elems(m.rq[d].push)
    BY OnceLemma, Zenon
  <2>2. ASSUME NEW d \in Cpu, d # c
        PROVE  Elems(r.rq[d].push) = Elems(m.rq[d].push) \ {p} /\ Simple(r.rq[d].push)
    BY <1>2, <1>5, <2>1, <2>2, SMTT(40), SMTT(60) DEF Good, Counted
  <2> QED
    BY <1>3, <1>5, <2>2, ZenonT(60)
<1>7. Placed(r, X)
  BY <1>2, <1>5, SMTT(40), SMTT(60) DEF Good, Placed
<1>8. Shown(r, {})
  BY <1>2, <1>5, ShownLemma, SMT, Zenon, SMTT(40)
<1>9. \A d \in Cpu : Movers(r, d) = Movers(q, d) /\ Movers(r, d) = Movers(m, d) \ {p}
  <2>1. \A x : Migratory(r, x) = Migratory(m, x) /\ Migratory(q, x) = Migratory(m, x)
    BY <1>2, <1>5, SMT, Zenon, SMTT(40) DEF Migratory
  <2> QED
    BY <1>2, <1>5, <2>1, ZenonT(60) DEF Movers
<1>10. Counted(r)
  BY <1>2, <1>5, <1>6, <1>9, SMT, Zenon, SMTT(40) DEF Counted, Good
<1> QED
  BY <1>1, <1>2, <1>5, <1>6, <1>7, <1>8, <1>10, SMTT(40), SMTT(60) DEF Good, Dequeued

\* enqueue_pushable_dl_task() of a queued task that can go: its BUG_ON is not reached.
LEMMA EnqueuePushable ==
    ASSUME Counting, NEW m, NEW X, Good(m, X), NEW p \in Task, NEW c \in Cpu,
           p \in Movers(m, c), p \notin Elems(m.rq[c].push)
    PROVE  MadePushable(m, enqueue_pushable_dl_task(m, c, p), c, p, X)
<1> DEFINE s == Insert(m, m.rq[c].push, p)
           r == SetPush(m, c, s)
<1>1. m.tsk[p].cpu = c
  BY DEF Good, Placed, Movers
<1>2. ~\E d \in Cpu : p \in Elems(m.rq[d].push)
  BY <1>1, OnceLemma
<1>3. enqueue_pushable_dl_task(m, c, p) = r
  BY <1>2 DEF enqueue_pushable_dl_task, BUG_ON, SetPush
<1>4. m \in Machine /\ s \in Seq(Task) /\ Simple(s) /\ Elems(s) = Elems(m.rq[c].push) \cup {p}
  <2>1. m \in Machine /\ m.rq[c].push \in Seq(Task) /\ Simple(m.rq[c].push)
    BY MachineType DEF Good, Counted
  <2> QED
    BY <2>1, InsertLemma, SMTT(40), SMTT(60)
<1> HIDE DEF s
<1>5. r = SetPush(m, c, s)
  OBVIOUS
<1> HIDE DEF r
<1>6. /\ r \in Machine /\ r.tsk = m.tsk /\ r.rd = m.rd /\ r.bug = m.bug
      /\ r.rq[c].push = s
      /\ \A d \in Cpu :
            /\ d # c => r.rq[d] = m.rq[d]
            /\ r.rq[d].curr = m.rq[d].curr /\ r.rq[d].tree = m.rq[d].tree
            /\ r.rq[d].first = m.rq[d].first
            /\ r.rq[d].nr_migratory = m.rq[d].nr_migratory
            /\ r.rq[d].overloaded = m.rq[d].overloaded
  BY <1>4, <1>5, PushLemma, SMTT(40), SMTT(60)
<1>7. Placed(r, X)
  BY <1>6, SMT, Zenon, SMTT(40) DEF Good, Placed
<1>8. Shown(r, {})
  BY <1>6, ZenonT(60) DEF Good, Shown
<1>9. \A d \in Cpu : Movers(r, d) = Movers(m, d)
  BY <1>6, SMT, Zenon, SMTT(40) DEF Movers, Migratory
<1>10. Counted(r)
  BY <1>4, <1>6, <1>9 DEF Counted, Good
<1> QED
  BY <1>3, <1>4, <1>6, <1>7, <1>8, <1>10 DEF Good, MadePushable

\* dequeue_pushable_dl_task().
LEMMA DequeuePushable ==
    ASSUME NEW m, NEW X, Good(m, X), NEW p, NEW c \in Cpu
    PROVE  Unpushable(m, dequeue_pushable_dl_task(m, c, p), c, p, X)
<1> DEFINE s == Without(m.rq[c].push, p)
           r == SetPush(m, c, s)
<1>1. dequeue_pushable_dl_task(m, c, p) = r
  BY DEF dequeue_pushable_dl_task, SetPush
<1>2. m \in Machine /\ s \in Seq(Task) /\ Simple(s) /\ Elems(s) = Elems(m.rq[c].push) \ {p}
  <2>1. m \in Machine /\ m.rq[c].push \in Seq(Task) /\ Simple(m.rq[c].push)
    BY MachineType, SMT, Zenon, SMTT(40) DEF Good, Counted
  <2> QED
    BY <2>1, WithoutLemma
<1> HIDE DEF s
<1>3. r = SetPush(m, c, s)
  BY Zenon
<1> HIDE DEF r
<1>4. /\ r \in Machine /\ r.tsk = m.tsk /\ r.rd = m.rd /\ r.bug = m.bug
      /\ r.rq[c].push = s
      /\ \A d \in Cpu :
            /\ d # c => r.rq[d] = m.rq[d]
            /\ r.rq[d].curr = m.rq[d].curr /\ r.rq[d].tree = m.rq[d].tree
            /\ r.rq[d].first = m.rq[d].first
            /\ r.rq[d].nr_migratory = m.rq[d].nr_migratory
            /\ r.rq[d].overloaded = m.rq[d].overloaded
  BY <1>2, <1>3, PushLemma, SMTT(40), SMTT(60)
<1>5. Placed(r, X)
  BY <1>4, SMT, Zenon, SMTT(40) DEF Good, Placed
<1>6. Shown(r, {})
  BY <1>4, ZenonT(60) DEF Good, Shown
<1>7. \A d \in Cpu : Movers(r, d) = Movers(m, d)
  BY <1>4, SMT, Zenon, SMTT(40) DEF Movers, Migratory
<1>8. Counted(r)
  BY <1>2, <1>4, <1>7 DEF Counted, Good
<1> QED
  BY <1>1, <1>2, <1>4, <1>5, <1>6, <1>8 DEF Good, Unpushable

-----------------------------------------------------------------------------
(* What the operations do to the tasks.                                    *)

\* Nobody else runs, and a task at most becomes throttled, with its timer started.
Frame(m, r) ==
    /\ r.bug = m.bug
    /\ \A c \in Cpu : r.rq[c].curr = m.rq[c].curr
    /\ \A q \in Task :
          /\ r.tsk[q].on_rq = m.tsk[q].on_rq
          /\ \/ r.tsk[q].throttled = m.tsk[q].throttled /\ r.tsk[q].armed = m.tsk[q].armed
             \/ ~m.tsk[q].throttled /\ r.tsk[q].throttled /\ r.tsk[q].armed

\* Nobody moves either, but p.
Stay(m, r, p) == Frame(m, r) /\ \A q \in Task \ {p} : r.tsk[q].cpu = m.tsk[q].cpu

\* enqueue_task_dl(), with its BUG_ON.
LEMMA EnqueueTask ==
    ASSUME Counting, NEW m, NEW X, Good(m, X), Idlers(m), NEW p \in Task, NEW c \in Cpu, m.tsk[p].cpu = c,
           \A e \in Cpu : p \notin Elems(m.rq[e].tree),
           p \in X \/ m.tsk[p].on_rq, NEW d \in Int
    PROVE  LET r == enqueue_task_dl(m, c, p, d)
           IN  Good(r, X) /\ Idlers(r) /\ Stay(m, r, Idle)
<1> DEFINE e  == [m.tsk[p] EXCEPT !.dl = d]
           m1 == SetTask(m, p, e)
           m2 == __enqueue_dl_entity(m1, p)
           r  == IF m2.rq[c].curr # p /\ Migratory(m2, p)
                 THEN enqueue_pushable_dl_task(m2, c, p) ELSE m2
<1>1. m \in Machine /\ m.tsk[p] \in Entity /\ ~on_dl_rq(m, p)
  BY MachineType, SMT, Zenon, SMTT(40) DEF Good, on_dl_rq
<1>2. [m EXCEPT !.tsk[p].dl = d] = m1
  BY <1>1 DEF SetTask, Machine, Entity
<1>3. BUG_ON([m EXCEPT !.tsk[p].dl = d], on_dl_rq(m, p), "on_dl_rq") = m1
  BY <1>1, <1>2 DEF BUG_ON
<1>4. enqueue_task_dl(m, c, p, d) = IF m.tsk[p].throttled THEN m ELSE r
  BY <1>3 DEF enqueue_task_dl
<1>5. CASE m.tsk[p].throttled
  <2>1. Stay(m, m, Idle)
    BY SMT, Zenon, SMTT(40) DEF Stay, Frame
  <2> QED
    BY <1>4, <1>5, <2>1
<1>6. CASE ~m.tsk[p].throttled
  <2>1. /\ e \in Entity /\ e.cpu = c /\ e.throttled = m.tsk[p].throttled
        /\ e.on_rq = m.tsk[p].on_rq /\ e.armed = m.tsk[p].armed
    BY <1>1, SMTT(40), SMTT(60) DEF Entity
  <2> HIDE DEF e
  <2>2. Good(m1, X)
    BY <2>1, TaskLemma, SMTT(40), SMTT(60)
  <2>3. /\ m1.rq = m.rq /\ m1.bug = m.bug
        /\ m1.tsk[p] = e /\ \A q \in Task : q # p => m1.tsk[q] = m.tsk[q]
    BY <1>1, <2>1, SetTaskLemma, SMT, Zenon, SMTT(40)
  <2> HIDE DEF m1
  <2>4. Queued(m1, m2, p, X)
    <3>1. /\ \A x \in Cpu : p \notin Elems(m1.rq[x].tree)
          /\ ~m1.tsk[p].throttled /\ (p \in X \/ m1.tsk[p].on_rq)
      BY <1>6, <2>1, <2>3, SMT, Zenon, SMTT(40)
    <3> QED
      BY <2>2, <3>1, EnqueueEntity, SMT, Zenon, SMTT(40)
  <2> HIDE DEF m2
  <2>5. Idlers(m2)
    BY <2>3, <2>4, ZenonT(60) DEF Idlers, Queued
  <2>6. ASSUME m2.rq[c].curr # p, Migratory(m2, p)
        PROVE  /\ Good(r, X) /\ Idlers(r) /\ r.tsk = m2.tsk /\ r.bug = m2.bug
               /\ \A x \in Cpu : r.rq[x].curr = m2.rq[x].curr
    <3>1. p \in Movers(m2, c)
      BY <2>1, <2>3, <2>4, <2>6, SMT, Zenon, SMTT(40) DEF Movers, Queued
    <3>2. p \notin Elems(m2.rq[c].push)
      <4>1. p \notin Elems(m.rq[c].push)
        BY OnceLemma, Zenon
      <4> QED
        BY <2>3, <2>4, <4>1, SMTT(40), SMTT(60) DEF Queued
    <3>3. MadePushable(m2, enqueue_pushable_dl_task(m2, c, p), c, p, X)
      BY <2>4, <3>1, <3>2, EnqueuePushable, Zenon DEF Queued
    <3>4. r = enqueue_pushable_dl_task(m2, c, p)
      BY <2>6, Zenon
    <3> HIDE DEF r
    <3> QED
      BY <2>5, <2>6, <3>3, <3>4, SMTT(40), SMTT(60) DEF Idlers, MadePushable
  <2>7. /\ Good(r, X) /\ Idlers(r) /\ r.tsk = m2.tsk /\ r.bug = m2.bug
        /\ \A x \in Cpu : r.rq[x].curr = m2.rq[x].curr
    BY <2>4, <2>5, <2>6, ZenonT(60) DEF Queued
  <2> HIDE DEF r
  <2>8. Stay(m, r, Idle)
    <3>1. \A q \in Task : /\ r.tsk[q].on_rq = m.tsk[q].on_rq /\ r.tsk[q].cpu = m.tsk[q].cpu
                          /\ r.tsk[q].throttled = m.tsk[q].throttled
                          /\ r.tsk[q].armed = m.tsk[q].armed
      BY <2>1, <2>3, <2>4, <2>7, SMTT(40), SMTT(60) DEF Queued
    <3> QED
      BY <2>3, <2>4, <2>7, <3>1, SMTT(40), SMTT(60) DEF Stay, Frame, Queued
  <2> QED
    BY <1>4, <1>6, <2>7, <2>8, SMT, Zenon, SMTT(40)
<1> QED
  BY <1>5, <1>6, SMT, Zenon, SMTT(40)

\* What Frame and Stay say of two operations in a row.
LEMMA StayLemma ==
    ASSUME NEW m, NEW q, NEW r, NEW p, Stay(m, q, p), Stay(q, r, p)
    PROVE  Stay(m, r, p)
  BY SMT, Zenon, SMTT(40) DEF Stay, Frame

\* Alike machines keep everything.
LEMMA AlikeStays ==
    ASSUME NEW m, NEW r, NEW p, Alike(m, r)
    PROVE  Stay(m, r, p)
  BY DEF Alike, Stay, Frame

\* update_curr_dl(): the running task is accounted for, and may be throttled or replenished.
LEMMA UpdateCurr ==
    ASSUME Counting, NEW m, Good(m, {}), Idlers(m), NEW c \in Cpu, NEW b \in Int
    PROVE  LET r == update_curr_dl(m, c, b)
           IN  Good(r, {}) /\ Idlers(r) /\ Stay(m, r, Idle)
<1> DEFINE p  == m.rq[c].curr
           m1 == __dequeue_task_dl(m, c, p)
           e  == [m1.tsk[p] EXCEPT !.throttled = TRUE, !.armed = TRUE]
           m2 == IF b = Exhausted
                 THEN [m1 EXCEPT !.tsk[p].throttled = TRUE, !.tsk[p].armed = TRUE]
                 ELSE enqueue_task_dl(m1, c, p, b)
           leftmost == m2.rq[c].tree # <<>> /\ m2.rq[c].tree[1] = p
           r  == update_curr_dl(m, c, b)
<1>1. m \in Machine /\ p \in Task \cup {Idle} /\ p = m.rq[c].curr
  BY MachineType, SMT, Zenon, SMTT(40) DEF Good
<1>2. CASE ~dl_task(p) \/ b = Left \/ ~on_dl_rq(m, p)
  <2>1. r = m
    BY <1>2, Zenon DEF update_curr_dl
  <2>2. Stay(m, m, Idle)
    BY DEF Stay, Frame
  <2> QED
    BY <2>1, <2>2
<1>3. CASE dl_task(p) /\ b # Left /\ on_dl_rq(m, p)
  <2>1. p \in Task /\ m.tsk[p].cpu = c
    BY <1>1, <1>3, SMT, Zenon, SMTT(40) DEF dl_task, Good, Placed
  <2>5. r = IF leftmost THEN m2 ELSE resched_task(m2, c)
    BY <1>3, ZenonT(60) DEF update_curr_dl
  <2> HIDE DEF p
  <2>2. ~m.tsk[p].throttled /\ m.tsk[p].on_rq
    BY <1>3, <2>1 DEF on_dl_rq, Good, Placed
  <2>3. Dequeued(m, m1, p, {})
    BY <2>1, DequeueTask
  <2>4. [m1 EXCEPT !.tsk[p].throttled = TRUE, !.tsk[p].armed = TRUE] = SetTask(m1, p, e)
    <3>1. m1 \in Machine /\ m1.tsk \in [Task -> Entity] /\ m1.tsk[p] \in Entity
      BY <2>1, <2>3, MachineType, ZenonT(60) DEF Good, Dequeued
    <3> HIDE DEF m1
    <3> QED
      BY <2>1, <3>1, Zenon DEF SetTask, Machine, Entity
  <2>6. Idlers(m1) /\ Stay(m, m1, Idle)
    BY <2>3, ZenonT(60) DEF Idlers, Stay, Frame, Dequeued
  <2> HIDE DEF m1
  <2>7. Good(m2, {}) /\ Idlers(m2) /\ Stay(m, m2, Idle)
    <3>1. CASE b = Exhausted
      <4>1. m1 \in Machine /\ m1.tsk[p] \in Entity
        BY <2>1, <2>3, MachineType, SMT, Zenon, SMTT(40) DEF Good, Dequeued
      <4>2. /\ e \in Entity /\ e.cpu = m1.tsk[p].cpu /\ e.on_rq = m1.tsk[p].on_rq
            /\ e.throttled /\ e.armed
        BY <4>1, Zenon DEF Entity
      <4>3. m2 = SetTask(m1, p, e)
        BY <2>4, <3>1, ZenonT(60)
      <4> HIDE DEF e, m2
      <4>4. /\ m2.rq = m1.rq /\ m2.bug = m1.bug
            /\ m2.tsk[p] = e /\ \A q \in Task : q # p => m2.tsk[q] = m1.tsk[q]
        BY <2>1, <4>1, <4>2, <4>3, SetTaskLemma, SMTT(40), SMTT(60)
      <4>5. \A d \in Cpu : p \notin Elems(m1.rq[d].tree)
        BY <2>3, ZenonT(60) DEF Dequeued
      <4>6. Good(m2, {})
        BY <2>1, <2>3, <4>2, <4>3, <4>5, TaskLemma, SMTT(40), SMTT(60) DEF Dequeued
      <4>7. Idlers(m2)
        BY <2>6, <4>4, Zenon DEF Idlers
      <4>8. Stay(m, m2, Idle)
        <5>1. ASSUME NEW q \in Task
              PROVE  /\ m2.tsk[q].on_rq = m.tsk[q].on_rq /\ m2.tsk[q].cpu = m.tsk[q].cpu
                     /\ \/ /\ m2.tsk[q].throttled = m.tsk[q].throttled
                           /\ m2.tsk[q].armed = m.tsk[q].armed
                        \/ ~m.tsk[q].throttled /\ m2.tsk[q].throttled /\ m2.tsk[q].armed
          <6>1. CASE q = p
            BY <2>2, <2>3, <4>2, <4>4, <6>1, Zenon DEF Dequeued
          <6>2. CASE q # p
            BY <2>3, <4>4, <6>2, SMT, Zenon, SMTT(40) DEF Dequeued
          <6> QED
            BY <6>1, <6>2, Zenon
        <5> QED
          BY <2>3, <4>4, <5>1, ZenonT(60) DEF Stay, Frame, Dequeued
      <4> QED
        BY <4>6, <4>7, <4>8, Zenon
    <3>2. CASE b # Exhausted
      <4>1. m2 = enqueue_task_dl(m1, c, p, b)
        BY <3>2
      <4>2. /\ m1.tsk[p].cpu = c /\ m1.tsk[p].on_rq
            /\ \A d \in Cpu : p \notin Elems(m1.rq[d].tree)
        BY <2>1, <2>2, <2>3, Zenon DEF Dequeued
      <4> HIDE DEF m2
      <4>3. Good(m2, {}) /\ Idlers(m2) /\ Stay(m1, m2, Idle)
        <5> DEFINE pp == p
        <5>1. pp \in Task /\ m2 = enqueue_task_dl(m1, c, pp, b)
              /\ m1.tsk[pp].cpu = c /\ m1.tsk[pp].on_rq
              /\ \A d \in Cpu : pp \notin Elems(m1.rq[d].tree)
          BY <2>1, <4>1, <4>2
        <5> HIDE DEF pp
        <5> QED
          BY <2>3, <2>6, <5>1, EnqueueTask, Zenon DEF Dequeued
      <4> QED
        BY <2>6, <4>3, StayLemma
    <3> QED
      BY <3>1, <3>2
  <2>8. m2 \in Machine
    BY <2>7, Zenon DEF Good
  <2> HIDE DEF m2
  <2>9. Alike(m2, r)
    BY <2>5, <2>8, ReschedLemma, Zenon
  <2> HIDE DEF r
  <2> QED
    BY <2>7, <2>9, AlikeLemma, AlikeStays, StayLemma, ZenonT(60) DEF r
<1> QED
  BY <1>2, <1>3, ZenonT(60)

\* dequeue_task_dl() accounts for the running task and takes p off its runqueue.
LEMMA DequeueTaskDl ==
    ASSUME Counting, NEW m, Good(m, {}), Idlers(m), NEW c \in Cpu, NEW p \in Task, m.tsk[p].cpu = c,
           NEW b \in Int
    PROVE  LET r == dequeue_task_dl(m, c, p, b)
           IN  /\ Good(r, {}) /\ Idlers(r) /\ Stay(m, r, Idle)
               /\ \A d \in Cpu : p \notin Elems(r.rq[d].tree)
<1> DEFINE q == update_curr_dl(m, c, b)
           r == __dequeue_task_dl(q, c, p)
<1>1. dequeue_task_dl(m, c, p, b) = r
  BY DEF dequeue_task_dl
<1>2. Good(q, {}) /\ Idlers(q) /\ Stay(m, q, Idle)
  BY UpdateCurr
<1> HIDE DEF q
<1>3. q.tsk[p].cpu = c
  BY <1>2, SmpAssumption DEF Stay
<1>4. Dequeued(q, r, p, {})
  BY <1>2, <1>3, DequeueTask, Zenon
<1> HIDE DEF r
<1>5. Idlers(r)
  BY <1>2, <1>4, Zenon DEF Idlers, Dequeued
<1>6. Stay(q, r, Idle)
  BY <1>4 DEF Dequeued, Stay, Frame
<1>7. Stay(m, r, Idle)
  BY <1>2, <1>6, StayLemma, Zenon
<1>8. Good(r, {}) /\ \A d \in Cpu : p \notin Elems(r.rq[d].tree)
  BY <1>4, Zenon DEF Dequeued
<1> QED
  BY <1>1, <1>5, <1>7, <1>8

\* A push or a pull of a task that does not run: it is queued on the other CPU only.
LEMMA MigrateLemma ==
    ASSUME Counting, NEW m, Good(m, {}), Idlers(m), NEW c \in Cpu, NEW d \in Cpu, NEW p \in Task,
           m.tsk[p].cpu = c, m.tsk[p].on_rq, m.rq[c].curr # p, NEW b \in Int, NEW dl \in Int
    PROVE  LET r == Migrate(m, c, d, p, b, dl)
           IN  Good(r, {}) /\ Idlers(r) /\ Stay(m, r, p) /\ r.tsk[p].cpu = d
<1> DEFINE q == dequeue_task_dl(m, c, p, b)
           e == [q.tsk[p] EXCEPT !.cpu = d]
           t == SetTask(q, p, e)
           r == enqueue_task_dl(t, d, p, dl)
<1>1. /\ Good(q, {}) /\ Idlers(q) /\ Stay(m, q, Idle)
      /\ \A x \in Cpu : p \notin Elems(q.rq[x].tree)
  BY DequeueTaskDl, ZenonT(60)
<1>2. q \in Machine /\ q.tsk[p] \in Entity
  BY <1>1, MachineType DEF Good
<1>3. [q EXCEPT !.tsk[p].cpu = d] = t
  <2> HIDE DEF q
  <2> QED
    BY <1>2 DEF SetTask, Machine, Entity
<1>4. Migrate(m, c, d, p, b, dl) = r
  BY <1>3 DEF Migrate
<1> HIDE DEF q
<1>5. /\ e \in Entity /\ e.cpu = d /\ e.on_rq = q.tsk[p].on_rq
      /\ e.throttled = q.tsk[p].throttled /\ e.armed = q.tsk[p].armed
  BY <1>2, Zenon DEF Entity
<1> HIDE DEF e
<1>6. \A x \in Cpu : q.rq[x].curr # p
  <2>1. \A x \in Cpu : m.rq[x].curr # p
    BY ZenonT(60) DEF Good, Placed
  <2> QED
    BY <1>1, <2>1, Zenon DEF Stay, Frame
<1>7. Good(t, {})
  BY <1>1, <1>5, <1>6, TaskLemma, ZenonT(60)
<1>8. /\ t.rq = q.rq /\ t.bug = q.bug /\ t.tsk[p] = e
      /\ \A x \in Task : x # p => t.tsk[x] = q.tsk[x]
  BY <1>2, <1>5, SetTaskLemma, SMTT(40), SMTT(60)
<1> HIDE DEF t
<1>9. q.tsk[p].on_rq
  BY <1>1, SMT, Zenon, SMTT(40) DEF Stay, Frame
<1>10. /\ Idlers(t) /\ t.tsk[p].cpu = d /\ t.tsk[p].on_rq
       /\ \A x \in Cpu : p \notin Elems(t.rq[x].tree)
  BY <1>1, <1>5, <1>8, <1>9, Zenon DEF Idlers
<1>11. Good(r, {}) /\ Idlers(r) /\ Stay(t, r, Idle)
  BY <1>7, <1>10, EnqueueTask, Zenon
<1> HIDE DEF r
<1>12. Stay(q, t, p)
  BY <1>5, <1>8, Zenon DEF Stay, Frame
<1>13. Stay(m, q, p) /\ Stay(t, r, p)
  BY <1>1, <1>11, SmpAssumption, Zenon DEF Stay
<1>14. Stay(m, r, p)
  BY <1>12, <1>13, StayLemma, ZenonT(60)
<1>15. r.tsk[p].cpu = d
  BY <1>10, <1>11, SmpAssumption, ZenonT(60) DEF Stay
<1> QED
  BY <1>4, <1>11, <1>14, <1>15, Zenon

\* put_prev_task_dl() makes the task that ran on x pushable, if it is queued and can go.
LEMMA PutPrev ==
    ASSUME Counting, NEW m, Good(m, {}), Idlers(m), NEW x \in Cpu, NEW p \in Task, m.rq[x].curr = p,
           NEW b \in Int
    PROVE  LET r == put_prev_task_dl(m, x, p, b)
           IN  /\ Good(r, {}) /\ Stay(m, r, Idle)
               /\ \A c \in Cpu \ {x} : r.rq[c].curr \notin Elems(r.rq[c].push)
<1> DEFINE q == update_curr_dl(m, x, b)
           t == enqueue_pushable_dl_task(q, x, p)
<1>1. put_prev_task_dl(m, x, p, b) = IF on_dl_rq(q, p) /\ Migratory(q, p) THEN t ELSE q
  BY DEF put_prev_task_dl
<1>2. Good(q, {}) /\ Idlers(q) /\ Stay(m, q, Idle)
  BY UpdateCurr
<1> HIDE DEF q
<1>3. \A c \in Cpu \ {x} : q.rq[c].curr \notin Elems(q.rq[c].push)
  BY <1>2 DEF Idlers
<1>4. ASSUME on_dl_rq(q, p), Migratory(q, p)
      PROVE  /\ Good(t, {}) /\ Stay(m, t, Idle)
             /\ \A c \in Cpu \ {x} : t.rq[c].curr \notin Elems(t.rq[c].push)
  <2>1. q.rq[x].curr = p
    BY <1>2, Zenon DEF Stay, Frame
  <2>2. q.tsk[p].cpu = x
    BY <1>2, <2>1, Zenon DEF Good, Placed
  <2>3. p \in Elems(q.rq[x].tree)
    BY <1>2, <1>4, <2>2, OnceLemma, ZenonT(60)
  <2>4. p \in Movers(q, x) /\ p \notin Elems(q.rq[x].push)
    BY <1>2, <1>4, <2>1, <2>3, SMTT(40), SMTT(60) DEF Movers, Idlers
  <2>5. MadePushable(q, t, x, p, {})
    BY <1>2, <2>4, EnqueuePushable, Zenon
  <2> HIDE DEF t
  <2>6. Stay(q, t, Idle)
    BY <2>5, ZenonT(60) DEF MadePushable, Stay, Frame
  <2> QED
    BY <1>2, <1>3, <2>5, <2>6, StayLemma, Zenon DEF MadePushable
<1> QED
  BY <1>1, <1>2, <1>3, <1>4, SMT, Zenon, SMTT(40)

\* pick_next_task_dl() runs the first task, which is no longer pushable.
LEMMA PickNext ==
    ASSUME NEW m, Good(m, {}), NEW x \in Cpu,
           \A c \in Cpu \ {x} : m.rq[c].curr \notin Elems(m.rq[c].push)
    PROVE  LET r == pick_next_task_dl(m, x)
           IN  /\ Good(r, {}) /\ Idlers(r) /\ r.tsk = m.tsk /\ r.bug = m.bug
               /\ \A c \in Cpu \ {x} : r.rq[c].curr = m.rq[c].curr
               /\ r.rq[x].curr = Idle \/ r.rq[x].curr \in Elems(m.rq[x].tree)
<1> DEFINE s == m.rq[x].tree
           p == IF s = <<>> THEN Idle ELSE s[1]
           q == dequeue_pushable_dl_task(m, x, p)
           e == [q.rq[x] EXCEPT !.curr = p, !.resched = FALSE]
           r == [q EXCEPT !.rq[x].curr = p, !.rq[x].resched = FALSE]
<1>1. pick_next_task_dl(m, x) = r
  BY Zenon DEF pick_next_task_dl
<1>2. p = Idle \/ (p \in Elems(s) /\ p \in Task)
  <2>1. s \in Seq(Task)
    BY MachineType DEF Good
  <2> QED
    BY <2>1, SMTT(40), SMTT(60) DEF Elems
<1> HIDE DEF p
<1>3. Unpushable(m, q, x, p, {})
  BY DequeuePushable, Zenon
<1>4. q \in Machine /\ p \in Task \cup {Idle}
  BY <1>2, <1>3, Zenon DEF Unpushable, Good
<1> HIDE DEF q
<1>5. /\ r \in Machine /\ r.tsk = q.tsk /\ r.rd = q.rd /\ r.bug = q.bug
      /\ r.rq[x].curr = p
      /\ \A d \in Cpu :
            /\ d # x => r.rq[d] = q.rq[d]
            /\ r.rq[d].push = q.rq[d].push /\ r.rq[d].tree = q.rq[d].tree
            /\ r.rq[d].first = q.rq[d].first
            /\ r.rq[d].nr_migratory = q.rq[d].nr_migratory
            /\ r.rq[d].overloaded = q.rq[d].overloaded
  <2>1. q.rq \in [Cpu -> Runqueue] /\ q.rq[x] \in Runqueue
    BY <1>4, MachineType
  <2>2. r = [q EXCEPT !.rq[x] = e]
    BY <1>4, <2>1, Zenon DEF Machine, Runqueue
  <2>3. /\ e \in Runqueue /\ e.curr = p /\ e.push = q.rq[x].push /\ e.tree = q.rq[x].tree
        /\ e.first = q.rq[x].first /\ e.nr_migratory = q.rq[x].nr_migratory
        /\ e.overloaded = q.rq[x].overloaded
    BY <1>4, <2>1, Zenon DEF Runqueue
  <2> HIDE DEF e, r
  <2>4. /\ r \in Machine /\ r.tsk = q.tsk /\ r.rd = q.rd /\ r.bug = q.bug
        /\ r.rq[x] = e /\ \A d \in Cpu : d # x => r.rq[d] = q.rq[d]
    BY <1>4, <2>2, <2>3, ZenonT(60) DEF Machine
  <2> QED
    BY <2>3, <2>4, ZenonT(60)
<1> HIDE DEF r
<1>6. Good(q, {}) /\ Shown(q, {})
  BY <1>3, SMTT(40), SMTT(60) DEF Unpushable, Good
<1>7. Placed(r, {})
  <2>1. p \in Task => q.tsk[p].cpu = x
    BY <1>2, <1>3, SmpAssumption DEF Unpushable, Good, Placed
  <2>2. ASSUME NEW d \in Cpu
        PROVE  /\ Simple(r.rq[d].tree)
               /\ \A a \in Elems(r.rq[d].tree) :
                     r.tsk[a].cpu = d /\ ~r.tsk[a].throttled /\ (a \in {} \/ r.tsk[a].on_rq)
               /\ r.rq[d].curr \in Task => r.tsk[r.rq[d].curr].cpu = d
    <3>1. /\ Simple(q.rq[d].tree)
          /\ \A a \in Elems(q.rq[d].tree) :
                q.tsk[a].cpu = d /\ ~q.tsk[a].throttled /\ (a \in {} \/ q.tsk[a].on_rq)
          /\ q.rq[d].curr \in Task => q.tsk[q.rq[d].curr].cpu = d
      BY <1>6, Zenon DEF Good, Placed
    <3>2. r.tsk = q.tsk /\ r.rq[d].tree = q.rq[d].tree /\ r.rq[d].curr = IF d = x THEN p ELSE q.rq[d].curr
      BY <1>5, Zenon
    <3> QED
      BY <2>1, <3>1, <3>2, Zenon
  <2> QED
    BY <2>2, ZenonT(60) DEF Placed
<1>8. Shown(r, {})
  BY <1>5, <1>6, ShownLemma, Zenon
<1>9. \A d \in Cpu : Movers(r, d) = Movers(q, d)
  BY <1>5, Zenon DEF Movers, Migratory
<1>10. Counted(r)
  BY <1>5, <1>6, <1>9, Zenon DEF Counted, Good
<1>11. Good(r, {})
  BY <1>5, <1>7, <1>8, <1>10, ZenonT(60) DEF Good
<1>12. Idlers(r)
  BY <1>3, <1>5, SMTT(40), SMTT(60) DEF Idlers, Unpushable
<1>13. r.tsk = m.tsk /\ r.bug = m.bug /\ \A c \in Cpu \ {x} : r.rq[c].curr = m.rq[c].curr
  BY <1>3, <1>5, SMT, Zenon, SMTT(40) DEF Unpushable
<1> QED
  BY <1>1, <1>2, <1>5, <1>11, <1>12, <1>13

=============================================================================
