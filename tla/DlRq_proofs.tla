----------------------------- MODULE DlRq_proofs -----------------------------
(***************************************************************************)
(* The structure of the deadline runqueue, for any number of tasks, any    *)
(* reservations, any services and any horizon.                             *)
(***************************************************************************)
EXTENDS DlRq, TLAPS, WellFoundedInduction

\* A non-empty set of naturals has a least element.
LEMMA LeastNat ==
    ASSUME NEW S \in SUBSET Nat, S # {}
    PROVE  \E k \in S : \A j \in S : k <= j
<1>1. PICK x \in S : \A y \in S : ~(<<y, x>> \in OpToRel(<, Nat))
  BY NatLessThanWellFounded, WFMin, Zenon
<1>2. \A y \in S : ~(y < x)
  BY <1>1, Zenon DEF OpToRel
<1> QED
  BY <1>2

Ordered(s, tk) ==
    \A i, j \in 1 .. Len(s) :
        i < j => s[i] # s[j] /\ tk[s[i]].deadline <= tk[s[j]].deadline

Member(s, p) == \E i \in 1 .. Len(s) : s[i] = p

\* The descent of __enqueue_dl_entity() keeps the tree in deadline order and adds
\* exactly the new entity; it is the first iff it is earlier than the old first.
LEMMA InsertLemma ==
    ASSUME NEW m, NEW p \in Task,
           m.dl.tree \in Seq(Task),
           \A q \in Task : m.tsk[q].deadline \in Int,
           Ordered(m.dl.tree, m.tsk),
           ~Member(m.dl.tree, p)
    PROVE  /\ Insert(m, p) \in Seq(Task)
           /\ Len(Insert(m, p)) = Len(m.dl.tree) + 1
           /\ Ordered(Insert(m, p), m.tsk)
           /\ \A q : Member(Insert(m, p), q) <=> Member(m.dl.tree, q) \/ q = p
           /\ Insert(m, p)[1] =
                IF m.dl.tree = <<>> \/ m.tsk[p].deadline < m.tsk[m.dl.tree[1]].deadline
                THEN p ELSE m.dl.tree[1]
<1> DEFINE s == m.dl.tree
           n == Len(s)
           t == Insert(m, p)
           d(q) == m.tsk[q].deadline
<1>1. n \in Nat /\ \A i \in 1 .. n : s[i] \in Task /\ d(s[i]) \in Int
  OBVIOUS
<1>2. d(p) \in Int
  OBVIOUS
<1>3. t = [i \in 1 .. n + 1 |->
             IF i <= n /\ ~(d(p) < d(s[i])) THEN s[i]
             ELSE IF i = 1 \/ ~(d(p) < d(s[i - 1])) THEN p ELSE s[i - 1]]
  BY DEF Insert, dl_time_before
<1>4. \A i, j \in 1 .. n : i < j => s[i] # s[j] /\ d(s[i]) <= d(s[j])
  BY DEF Ordered
<1>5. \A i \in 1 .. n : s[i] # p
  BY DEF Member
<1>6. s = <<>> <=> n = 0
  OBVIOUS
<1> HIDE DEF s, n, d
<1>7. \A i \in 1 .. n + 1 :
        t[i] = IF i <= n /\ d(s[i]) <= d(p) THEN s[i]
               ELSE IF i = 1 \/ d(s[i - 1]) <= d(p) THEN p ELSE s[i - 1]
  <2> SUFFICES ASSUME NEW i \in 1 .. n + 1
               PROVE  t[i] = IF i <= n /\ d(s[i]) <= d(p) THEN s[i]
                             ELSE IF i = 1 \/ d(s[i - 1]) <= d(p) THEN p ELSE s[i - 1]
    OBVIOUS
  <2>1. i <= n => (~(d(p) < d(s[i])) <=> d(s[i]) <= d(p))
    BY <1>1, <1>2
  <2>2. i # 1 => (~(d(p) < d(s[i - 1])) <=> d(s[i - 1]) <= d(p))
    BY <1>1, <1>2
  <2> QED
    BY <1>1, <1>3, <2>1, <2>2, Zenon
<1> HIDE DEF t
<1>8. \A i \in 1 .. n + 1 : t[i] \in Task
  BY <1>1, <1>7
<1>9. t \in Seq(Task) /\ Len(t) = n + 1
  BY <1>1, <1>3, <1>8
<1> DEFINE Before(i) == i \in 1 .. n /\ d(s[i]) <= d(p)
\* A prefix of s precedes p.
<1>10. \A i, j \in 1 .. n : i < j /\ Before(j) => Before(i)
  BY <1>1, <1>2, <1>4
<1>11. Ordered(t, m.tsk)
  <2> SUFFICES ASSUME NEW i \in 1 .. n + 1, NEW j \in 1 .. n + 1, i < j
               PROVE  t[i] # t[j] /\ d(t[i]) <= d(t[j])
    BY <1>1, <1>9, Zenon DEF Ordered, d
  <2>1. CASE Before(j)
    <3>1. Before(i)
      BY <1>1, <1>10, <2>1
    <3>2. t[i] = s[i] /\ t[j] = s[j]
      BY <1>1, <1>7, <2>1, <3>1
    <3> QED
      BY <1>4, <2>1, <3>1, <3>2
  <2>2. CASE ~Before(j) /\ Before(j - 1)
    <3>1. t[j] = p
      BY <1>1, <1>7, <2>2
    <3>2. Before(i)
      BY <1>1, <1>10, <2>2
    <3> QED
      BY <1>1, <1>2, <1>5, <1>7, <3>1, <3>2
  <2>3. CASE ~Before(j) /\ ~Before(j - 1)
    <3>1. t[j] = s[j - 1] /\ j - 1 \in 1 .. n /\ d(p) <= d(s[j - 1])
      BY <1>1, <1>2, <1>7, <2>3
    <3>2. CASE Before(i)
      <4>1. t[i] = s[i] /\ i < j - 1
        BY <1>1, <1>7, <2>3, <3>2
      <4> QED
        BY <1>1, <1>4, <3>1, <4>1
    <3>3. CASE ~Before(i) /\ (i = 1 \/ Before(i - 1))
      <4>1. t[i] = p
        BY <1>1, <1>7, <3>3
      <4> QED
        BY <1>5, <3>1, <4>1
    <3>4. CASE ~Before(i) /\ i # 1 /\ ~Before(i - 1)
      <4>1. t[i] = s[i - 1] /\ i - 1 \in 1 .. n /\ i - 1 < j - 1
        BY <1>1, <1>7, <3>4
      <4> QED
        BY <1>1, <1>4, <3>1, <4>1, Zenon
    <3> QED
      BY <3>2, <3>3, <3>4
  <2> QED
    BY <2>1, <2>2, <2>3
<1>12. \A q : Member(t, q) <=> Member(s, q) \/ q = p
  <2> SUFFICES ASSUME NEW q PROVE Member(t, q) <=> Member(s, q) \/ q = p
    BY Zenon
  <2>1. ASSUME NEW i \in 1 .. n + 1, t[i] = q
        PROVE  q = p \/ \E j \in 1 .. n : s[j] = q
    <3>1. t[i] = p \/ (i \in 1 .. n /\ t[i] = s[i]) \/ (i - 1 \in 1 .. n /\ t[i] = s[i - 1])
      BY <1>1, <1>7
    <3> QED
      BY <2>1, <3>1
  <2>2. ASSUME NEW i \in 1 .. n, s[i] = q PROVE \E j \in 1 .. n + 1 : t[j] = q
    <3>1. CASE Before(i)
      <4>1. i \in 1 .. n + 1 /\ t[i] = q
        BY <1>1, <1>7, <2>2, <3>1
      <4> QED
        BY <4>1, Zenon
    <3>2. CASE ~Before(i)
      <4>1. ~Before(i + 1)
        BY <1>1, <1>10, <3>2
      <4>2. t[i + 1] = q
        BY <1>1, <1>7, <2>2, <3>2, <4>1
      <4> QED
        BY <1>1, <4>2
    <3> QED
      BY <3>1, <3>2
  <2>3. \E j \in 1 .. n + 1 : t[j] = p
    <3> DEFINE S == {i \in 1 .. n + 1 : ~Before(i)}
    <3>1. S \in SUBSET Nat /\ n + 1 \in S
      BY <1>1
    <3>2. PICK k \in S : \A j \in S : k <= j
      BY <3>1, LeastNat, Zenon
    <3>3. k = 1 \/ Before(k - 1)
      <4> SUFFICES ASSUME k # 1, ~Before(k - 1) PROVE FALSE
        OBVIOUS
      <4>1. k \in 1 .. n + 1 /\ k - 1 \in 1 .. n + 1
        BY <1>1
      <4>2. k - 1 \in S
        BY <4>1
      <4> HIDE DEF S
      <4> QED
        BY <3>2, <4>1, <4>2
    <3>4. k \in 1 .. n + 1 /\ t[k] = p
      <4>1. k \in 1 .. n + 1 /\ ~Before(k)
        BY <3>2, Zenon
      <4>2. ~(k <= n /\ d(s[k]) <= d(p))
        BY <1>1, <4>1
      <4>3. k = 1 \/ d(s[k - 1]) <= d(p)
        BY <3>3, Zenon
      <4> QED
        BY <1>7, <4>1, <4>2, <4>3, Zenon
    <3> QED
      BY <3>4
  <2> QED
    BY <1>1, <1>9, <2>1, <2>2, <2>3, Zenon DEF Member, n
<1>13. t[1] = IF s = <<>> \/ d(p) < d(s[1]) THEN p ELSE s[1]
  <2>1. CASE n = 0
    BY <1>6, <1>7, <2>1
  <2>2. CASE n # 0
    <3>1. s # <<>> /\ 1 \in 1 .. n
      BY <1>1, <1>6, <2>2
    <3> QED
      BY <1>1, <1>2, <1>7, <3>1
  <2> QED
    BY <2>1, <2>2
<1> QED
  BY <1>9, <1>11, <1>12, <1>13 DEF t, s, n, d

\* rb_erase() takes out one entity and keeps the order of the others.
LEMMA RemoveLemma ==
    ASSUME NEW s \in Seq(Task), NEW tk, NEW p \in Task,
           Ordered(s, tk), Member(s, p)
    PROVE  /\ Len(s) > 0
           /\ Remove(s, p) \in Seq(Task)
           /\ Len(Remove(s, p)) = Len(s) - 1
           /\ Ordered(Remove(s, p), tk)
           /\ \A q : Member(Remove(s, p), q) <=> Member(s, q) /\ q # p
           /\ s[1] = p => rb_next(s, p) = IF Len(s) > 1 THEN s[2] ELSE NULL
           /\ Len(s) > 1 => Remove(s, p)[1] = IF s[1] = p THEN s[2] ELSE s[1]
<1> DEFINE n == Len(s)
           t == Remove(s, p)
<1>1. n \in Nat /\ \A i \in 1 .. n : s[i] \in Task
  OBVIOUS
<1>2. PICK k \in 1 .. n : s[k] = p
  BY DEF Member
<1>3. \A i, j \in 1 .. n : i < j => s[i] # s[j] /\ tk[s[i]].deadline <= tk[s[j]].deadline
  BY DEF Ordered
<1>4. \A i \in 1 .. n : s[i] = p <=> i = k
  BY <1>1, <1>2, <1>3
<1>5. t = [i \in 1 .. n - 1 |-> IF \E j \in 1 .. i : s[j] = p THEN s[i + 1] ELSE s[i]]
  BY DEF Remove
<1>6. \A i \in 1 .. n - 1 : t[i] = IF k <= i THEN s[i + 1] ELSE s[i]
  <2> SUFFICES ASSUME NEW i \in 1 .. n - 1 PROVE t[i] = IF k <= i THEN s[i + 1] ELSE s[i]
    OBVIOUS
  <2>1. (\E j \in 1 .. i : s[j] = p) <=> k <= i
    BY <1>1, <1>2, <1>4
  <2> QED
    BY <1>5, <2>1
<1>7. \A i \in 1 .. n - 1 : t[i] \in Task
  BY <1>1, <1>6
<1>8. n > 0 /\ t \in Seq(Task) /\ Len(t) = n - 1
  BY <1>1, <1>2, <1>5, <1>7
<1> HIDE DEF t
<1> DEFINE f(i) == IF k <= i THEN i + 1 ELSE i
<1>9. \A i \in 1 .. n - 1 : f(i) \in 1 .. n /\ f(i) # k /\ t[i] = s[f(i)]
  BY <1>1, <1>6
<1>10. \A i, j \in 1 .. n - 1 : i < j => f(i) < f(j)
  BY <1>1
<1>11. Ordered(t, tk)
  <2> SUFFICES ASSUME NEW i \in 1 .. n - 1, NEW j \in 1 .. n - 1, i < j
               PROVE  t[i] # t[j] /\ tk[t[i]].deadline <= tk[t[j]].deadline
    BY <1>8 DEF Ordered
  <2>1. f(i) \in 1 .. n /\ f(j) \in 1 .. n /\ f(i) < f(j) /\ t[i] = s[f(i)] /\ t[j] = s[f(j)]
    BY <1>9, <1>10
  <2> HIDE DEF f
  <2> QED
    BY <1>3, <2>1
<1>12. \A q : Member(t, q) <=> Member(s, q) /\ q # p
  <2> SUFFICES ASSUME NEW q PROVE Member(t, q) <=> Member(s, q) /\ q # p
    OBVIOUS
  <2>1. ASSUME NEW i \in 1 .. n - 1, t[i] = q PROVE q # p /\ \E j \in 1 .. n : s[j] = q
    <3>1. f(i) \in 1 .. n /\ f(i) # k /\ s[f(i)] = q
      BY <1>9, <2>1
    <3> HIDE DEF f
    <3> QED
      BY <1>4, <3>1
  <2>2. ASSUME NEW i \in 1 .. n, s[i] = q, q # p PROVE \E j \in 1 .. n - 1 : t[j] = q
    <3>1. i # k
      BY <1>2, <2>2
    <3>2. CASE i < k
      <4>1. i \in 1 .. n - 1 /\ t[i] = q
        BY <1>1, <1>6, <2>2, <3>2
      <4> QED
        BY <4>1
    <3>3. CASE k < i
      <4>1. i - 1 \in 1 .. n - 1 /\ t[i - 1] = q
        BY <1>1, <1>6, <2>2, <3>3
      <4> QED
        BY <4>1
    <3> QED
      BY <1>1, <3>1, <3>2, <3>3
  <2> QED
    BY <1>8, <2>1, <2>2 DEF Member
<1>13. s[1] = p => rb_next(s, p) = IF n > 1 THEN s[2] ELSE NULL
  <2> SUFFICES ASSUME s[1] = p PROVE rb_next(s, p) = IF n > 1 THEN s[2] ELSE NULL
    OBVIOUS
  <2>1. (CHOOSE i \in 1 .. n : s[i] = p) = k /\ k = 1
    BY <1>2, <1>4, <1>8
  <2>2. rb_next(s, p) = IF k < n THEN s[k + 1] ELSE NULL
    BY <2>1, Zenon DEF rb_next
  <2> QED
    BY <1>1, <2>1, <2>2
<1>14. n > 1 => t[1] = IF s[1] = p THEN s[2] ELSE s[1]
  BY <1>1, <1>4, <1>6
<1> QED
  BY <1>8, <1>11, <1>12, <1>13, <1>14 DEF t
-----------------------------------------------------------------------------
(* The inductive invariant, as predicates of a machine state.              *)

Machine == [rq : Runqueue, dl : DlRunqueue, tsk : [Task -> Entity]]

Caches(m) ==
    /\ m.dl.dl_nr_running = Len(m.dl.tree)
    /\ m.dl.leftmost = IF m.dl.tree = <<>> THEN NULL ELSE m.dl.tree[1]
    /\ m.dl.earliest = IF m.dl.tree = <<>> THEN 0 ELSE m.tsk[m.dl.tree[1]].deadline

\* The tree and its caches.  0 stands for "no task" in earliest_dl.curr, so no
\* queued entity may have it for a deadline.
Good(m) ==
    /\ m \in Machine
    /\ Ordered(m.dl.tree, m.tsk)
    /\ Caches(m)
    /\ \A q \in Task : Member(m.dl.tree, q) => m.tsk[q].deadline > 0

\* q is queued only if it may be, and is not a runnable -deadline task that nobody
\* will ever pick.
Fit(m, q) ==
    LET e == m.tsk[q]
    IN  /\ Member(m.dl.tree, q) => e.on_rq /\ e.prio = DL /\ ~e.dl_throttled /\ ~e.dl_new
        /\ m.rq.bug = "none" /\ e.on_rq /\ e.prio = DL => Member(m.dl.tree, q) \/ e.dl_throttled

\* In the middle of an operation on p, X is {p}: p may be off the tree for now.
Safe(m, X) == Good(m) /\ \A q \in Task \ X : Fit(m, q)

\* The types of the parts of a good machine state.
LEMMA GoodType ==
    ASSUME NEW m, Good(m)
    PROVE  /\ m.rq \in Runqueue
           /\ m.dl \in DlRunqueue
           /\ m.tsk \in [Task -> Entity]
           /\ m.dl.tree \in Seq(Task)
           /\ m.dl.dl_nr_running \in Nat
           /\ m.dl.earliest \in Int
           /\ m.dl.leftmost \in Task \cup {NULL}
           /\ \A q \in Task : m.tsk[q] \in Entity /\ m.tsk[q].deadline \in Int
  BY DEF Good, Machine, DlRunqueue, Entity

\* A change of curr, exec_start, TIF_NEED_RESCHED or bug leaves the tree alone.
LEMMA SetRqLemma ==
    ASSUME NEW m, NEW X, Safe(m, X), NEW x \in Runqueue,
           x.bug = m.rq.bug \/ x.bug # "none"
    PROVE  Safe(SetRq(m, x), X)
<1>1. /\ SetRq(m, x).rq = x /\ SetRq(m, x).tsk = m.tsk /\ SetRq(m, x).dl = m.dl
      /\ SetRq(m, x) \in Machine
  BY GoodType DEF SetRq, Machine, Safe
<1>2. Good(SetRq(m, x))
  BY <1>1 DEF Safe, Good, Caches
<1> QED
  BY <1>1, <1>2 DEF Safe, Fit

\* Changing p keeps the tree in order if p is not in it or keeps its deadline.
LEMMA SetTaskLemma ==
    ASSUME NEW m, Good(m), NEW p \in Task, NEW e \in Entity,
           ~Member(m.dl.tree, p) \/ e.deadline = m.tsk[p].deadline
    PROVE  /\ Good(SetTask(m, p, e))
           /\ SetTask(m, p, e).rq = m.rq
           /\ SetTask(m, p, e).dl = m.dl
           /\ SetTask(m, p, e).tsk[p] = e
           /\ \A q \in Task : q # p => SetTask(m, p, e).tsk[q] = m.tsk[q]
<1> DEFINE r == SetTask(m, p, e)
<1>1. /\ r.rq = m.rq
      /\ r.dl = m.dl
      /\ r.tsk = [m.tsk EXCEPT ![p] = e]
      /\ r \in Machine
  BY GoodType DEF SetTask, Machine
<1>2. r.tsk[p] = e /\ \A q \in Task : q # p => r.tsk[q] = m.tsk[q]
  BY <1>1, GoodType
<1> HIDE DEF r
<1>3. \A i \in 1 .. Len(m.dl.tree) :
         m.dl.tree[i] \in Task /\ r.tsk[m.dl.tree[i]].deadline = m.tsk[m.dl.tree[i]].deadline
  <2>1. \A i \in 1 .. Len(m.dl.tree) : m.dl.tree[i] \in Task
    BY GoodType, SMT, Zenon, SMTT(40)
  <2> QED
    BY <1>2, <2>1, Zenon DEF Member
<1>4. Ordered(r.dl.tree, r.tsk)
  BY <1>1, <1>3 DEF Good, Ordered
<1>5. m.dl.tree # <<>> => 1 \in 1 .. Len(m.dl.tree)
  BY GoodType, SMTT(40), SMTT(60)
<1>6. Caches(r)
  BY <1>1, <1>3, <1>5 DEF Good, Caches
<1>7. \A q \in Task : Member(r.dl.tree, q) => r.tsk[q].deadline > 0
  BY <1>1, <1>2, ZenonT(60) DEF Good
<1> QED
  BY <1>1, <1>2, <1>4, <1>6, <1>7 DEF Good, r

\* A new tree with matching caches.
LEMMA SetDlLemma ==
    ASSUME NEW m, Good(m), NEW t \in Seq(Task), NEW l, NEW n, NEW f,
           Ordered(t, m.tsk),
           \A q \in Task : Member(t, q) => m.tsk[q].deadline > 0,
           n = Len(t),
           l = IF t = <<>> THEN NULL ELSE t[1],
           f = IF t = <<>> THEN 0 ELSE m.tsk[t[1]].deadline
    PROVE  /\ Good(SetDl(m, DlRqOf(t, l, n, f)))
           /\ SetDl(m, DlRqOf(t, l, n, f)).rq = m.rq
           /\ SetDl(m, DlRqOf(t, l, n, f)).dl.tree = t
           /\ SetDl(m, DlRqOf(t, l, n, f)).tsk = m.tsk
<1> DEFINE r == SetDl(m, DlRqOf(t, l, n, f))
<1>1. t # <<>> => t[1] \in Task /\ m.tsk[t[1]].deadline \in Int
  BY GoodType
<1>2. l \in Task \cup {NULL} /\ n \in Nat /\ f \in Int
  BY <1>1
<1>3. DlRqOf(t, l, n, f) \in DlRunqueue
  BY <1>2 DEF DlRqOf, DlRunqueue
<1>4. /\ r.rq = m.rq /\ r.dl = DlRqOf(t, l, n, f) /\ r.tsk = m.tsk /\ r \in Machine
  BY <1>3, GoodType DEF SetDl, Machine
<1> HIDE DEF r
<1>5. /\ r.dl.tree = t /\ r.dl.leftmost = l /\ r.dl.dl_nr_running = n /\ r.dl.earliest = f
  BY <1>4, SMT, Zenon, SMTT(40) DEF DlRqOf
<1>6. Good(r)
  BY <1>4, <1>5, Zenon DEF Good, Caches
<1> QED
  BY <1>4, <1>5, <1>6 DEF r

\* __enqueue_dl_entity(): the tree gains p, its caches follow.
LEMMA EnqueueEntity ==
    ASSUME NEW m, Good(m), NEW p \in Task, ~Member(m.dl.tree, p), m.tsk[p].deadline > 0
    PROVE  /\ Good(__enqueue_dl_entity(m, p))
           /\ __enqueue_dl_entity(m, p).rq = m.rq
           /\ __enqueue_dl_entity(m, p).tsk = m.tsk
           /\ \A q \in Task : Member(__enqueue_dl_entity(m, p).dl.tree, q)
                                <=> Member(m.dl.tree, q) \/ q = p
<1> DEFINE d == m.tsk[p].deadline
           s == m.dl.tree
           t == Insert(m, p)
           l == IF s = <<>> \/ d < m.tsk[s[1]].deadline THEN p ELSE m.dl.leftmost
           n == m.dl.dl_nr_running + 1
           f == IF m.dl.earliest = 0 \/ d < m.dl.earliest THEN d ELSE m.dl.earliest
<1>1. /\ t \in Seq(Task)
      /\ Len(t) = Len(s) + 1
      /\ Ordered(t, m.tsk)
      /\ \A q : Member(t, q) <=> Member(s, q) \/ q = p
      /\ t[1] = IF s = <<>> \/ d < m.tsk[s[1]].deadline THEN p ELSE s[1]
  BY GoodType, InsertLemma DEF Good
<1>2. __enqueue_dl_entity(m, p) = SetDl(m, DlRqOf(t, l, n, f))
  BY DEF __enqueue_dl_entity, dl_time_before
<1> HIDE DEF t
<1>3. t # <<>>
  BY <1>1, GoodType, SMT, Zenon, SMTT(40)
<1>4. s # <<>> => m.tsk[s[1]].deadline \in Int /\ m.tsk[s[1]].deadline > 0
  <2> SUFFICES ASSUME s # <<>> PROVE m.tsk[s[1]].deadline \in Int /\ m.tsk[s[1]].deadline > 0
    OBVIOUS
  <2>1. 1 \in 1 .. Len(s) /\ s[1] \in Task
    BY GoodType
  <2>2. Member(s, s[1])
    BY <2>1, SMT, Zenon, SMTT(40) DEF Member
  <2> QED
    BY <2>1, <2>2, GoodType, SMT, Zenon, SMTT(40) DEF Good
<1>5. n = Len(t)
  BY <1>1, SMT, Zenon, SMTT(40) DEF Good, Caches
<1>6. l = t[1]
  BY <1>1 DEF Good, Caches
<1>7. f = m.tsk[t[1]].deadline
  <2>1. CASE s = <<>>
    BY <1>1, <2>1, ZenonT(60) DEF Good, Caches
  <2>2. CASE s # <<>>
    BY <1>1, <1>4, <2>2, SMT, Zenon, SMTT(40) DEF Good, Caches
  <2> QED
    BY <2>1, <2>2
<1>8. \A q \in Task : Member(t, q) => m.tsk[q].deadline > 0
  BY <1>1 DEF Good
<1> HIDE DEF l, n, f
<1>9. /\ l = IF t = <<>> THEN NULL ELSE t[1]
      /\ f = IF t = <<>> THEN 0 ELSE m.tsk[t[1]].deadline
  BY <1>3, <1>6, <1>7, SMT, Zenon, SMTT(40)
<1>10. t \in Seq(Task) /\ Ordered(t, m.tsk)
  BY <1>1, SMT, Zenon, SMTT(40)
<1>11. /\ Good(SetDl(m, DlRqOf(t, l, n, f)))
       /\ SetDl(m, DlRqOf(t, l, n, f)).rq = m.rq
       /\ SetDl(m, DlRqOf(t, l, n, f)).dl.tree = t
       /\ SetDl(m, DlRqOf(t, l, n, f)).tsk = m.tsk
  BY <1>5, <1>8, <1>9, <1>10, SetDlLemma
<1> QED
  BY <1>1, <1>2, <1>11, SMT, Zenon, SMTT(40)

\* __dequeue_dl_entity(): the tree loses p if p was in it, its caches follow.
LEMMA DequeueEntity ==
    ASSUME NEW m, Good(m), NEW p \in Task
    PROVE  /\ Good(__dequeue_dl_entity(m, p))
           /\ __dequeue_dl_entity(m, p).rq = m.rq
           /\ __dequeue_dl_entity(m, p).tsk = m.tsk
           /\ \A q \in Task : Member(__dequeue_dl_entity(m, p).dl.tree, q)
                                <=> Member(m.dl.tree, q) /\ q # p
<1> DEFINE s == m.dl.tree
           t == Remove(s, p)
           l == IF m.dl.leftmost = p THEN rb_next(s, p) ELSE m.dl.leftmost
           n == m.dl.dl_nr_running - 1
           f == IF n = 0 THEN 0 ELSE m.tsk[l].deadline
<1>1. CASE ~Member(s, p)
  <2>1. __dequeue_dl_entity(m, p) = m
    BY <1>1, Zenon DEF __dequeue_dl_entity, on_dl_rq, Member
  <2> QED
    BY <1>1, <2>1
<1>2. CASE Member(s, p)
  <2>1. /\ Len(s) > 0
        /\ t \in Seq(Task)
        /\ Len(t) = Len(s) - 1
        /\ Ordered(t, m.tsk)
        /\ \A q : Member(t, q) <=> Member(s, q) /\ q # p
        /\ s[1] = p => rb_next(s, p) = IF Len(s) > 1 THEN s[2] ELSE NULL
        /\ Len(s) > 1 => t[1] = IF s[1] = p THEN s[2] ELSE s[1]
    BY <1>2, GoodType, RemoveLemma, Zenon DEF Good
  <2>2. __dequeue_dl_entity(m, p) = SetDl(m, DlRqOf(t, l, n, f))
    BY <1>2 DEF __dequeue_dl_entity, on_dl_rq, Member
  <2> HIDE DEF t
  <2>3. s \in Seq(Task) /\ s # <<>> /\ Len(s) \in Nat
    BY <2>1, GoodType
  <2>4. m.dl.leftmost = s[1] /\ m.dl.dl_nr_running = Len(s)
    BY <2>3 DEF Good, Caches
  <2>5. n = Len(t) /\ (t = <<>> <=> n = 0) /\ (t = <<>> <=> ~(Len(s) > 1))
    <3>1. n = Len(t) /\ t \in Seq(Task)
      BY <2>1, <2>4
    <3>2. t = <<>> <=> Len(t) = 0
      BY <3>1
    <3>3. Len(s) > 0 /\ Len(t) = Len(s) - 1
      BY <2>1
    <3>4. Len(t) = 0 <=> ~(Len(s) > 1)
      <4>1. \A a, b \in Nat : a > 0 /\ b = a - 1 => (b = 0 <=> ~(a > 1))
        OBVIOUS
      <4>2. Len(t) \in Nat
        BY <3>1
      <4> QED
        BY <2>3, <3>3, <4>1, <4>2, Zenon
    <3> QED
      BY <3>1, <3>2, <3>4, Zenon
  <2>6. l = IF t = <<>> THEN NULL ELSE t[1]
    <3>1. CASE Len(s) > 1
      BY <2>1, <2>4, <2>5, <3>1
    <3>2. CASE ~(Len(s) > 1)
      <4>1. s[1] = p
        BY <1>2, <2>1, <2>3, <3>2, SMT, Zenon, SMTT(40) DEF Member
      <4> QED
        BY <2>1, <2>4, <2>5, <3>2, <4>1
    <3> QED
      BY <3>1, <3>2
  <2>7. f = IF t = <<>> THEN 0 ELSE m.tsk[t[1]].deadline
    BY <2>5, <2>6
  <2>8. \A q \in Task : Member(t, q) => m.tsk[q].deadline > 0
    BY <2>1 DEF Good
  <2> HIDE DEF l, n, f
  <2>9. n = Len(t)
    BY <2>5
  <2> QED
    BY <2>1, <2>2, <2>6, <2>7, <2>8, <2>9, SetDlLemma, SMTT(40), SMTT(60)
<1> QED
  BY <1>1, <1>2
-----------------------------------------------------------------------------
(* Entities.                                                               *)

\* What the updates of an entity leave alone.
SameStatus(e, f) ==
    /\ f.on_rq = e.on_rq /\ f.prio = e.prio /\ f.policy = e.policy
    /\ f.dl_throttled = e.dl_throttled

\* A renewed entity is well typed, keeps its status and is due from now on.
LEMMA RenewLemma ==
    ASSUME clock \in Nat, clock >= 1, NEW e \in Entity, NEW pi \in Entity
    PROVE  /\ Renew(e, pi) \in Entity
           /\ SameStatus(e, Renew(e, pi))
           /\ Renew(e, pi).dl_new = e.dl_new
           /\ Renew(e, pi).deadline >= clock
<1> DEFINE d == clock + pi.dl_deadline
           v == pi.dl_runtime
<1>1. d \in Int /\ v \in Int /\ d >= clock
  BY DEF Entity
<1>2. Renew(e, pi) = [e EXCEPT !.deadline = d, !.runtime = v]
  BY DEF Renew
<1> HIDE DEF d, v
<1>3. /\ Renew(e, pi) \in Entity
      /\ SameStatus(e, Renew(e, pi))
      /\ Renew(e, pi).dl_new = e.dl_new
      /\ Renew(e, pi).deadline = d
  BY <1>1, <1>2, Zenon DEF Entity, SameStatus
<1> QED
  BY <1>1, <1>3

\* setup_new_dl_entity() also ends the life of dl_new.
LEMMA SetupLemma ==
    ASSUME clock \in Nat, clock >= 1, NEW e \in Entity, NEW pi \in Entity
    PROVE  /\ setup_new_dl_entity(e, pi) \in Entity
           /\ SameStatus(e, setup_new_dl_entity(e, pi))
           /\ ~setup_new_dl_entity(e, pi).dl_new
           /\ setup_new_dl_entity(e, pi).deadline >= clock
<1> DEFINE f == Renew(e, pi)
<1>1. f \in Entity /\ SameStatus(e, f) /\ f.deadline >= clock
  BY RenewLemma
<1>2. setup_new_dl_entity(e, pi) = [f EXCEPT !.dl_new = FALSE]
  BY DEF setup_new_dl_entity
<1> HIDE DEF f
<1>3. /\ setup_new_dl_entity(e, pi) \in Entity
      /\ SameStatus(f, setup_new_dl_entity(e, pi))
      /\ ~setup_new_dl_entity(e, pi).dl_new
      /\ setup_new_dl_entity(e, pi).deadline = f.deadline
  BY <1>1, <1>2, Zenon DEF Entity, SameStatus
<1> QED
  BY <1>1, <1>3 DEF SameStatus

\* update_dl_entity() leaves an entity that is not new with a deadline ahead.
LEMMA UpdateEntity ==
    ASSUME clock \in Nat, clock >= 1, NEW e \in Entity, NEW pi \in Entity
    PROVE  /\ update_dl_entity(e, pi) \in Entity
           /\ SameStatus(e, update_dl_entity(e, pi))
           /\ ~update_dl_entity(e, pi).dl_new
           /\ update_dl_entity(e, pi).deadline >= clock
<1>1. CASE e.dl_new
  BY <1>1, SetupLemma DEF update_dl_entity
<1>2. CASE ~e.dl_new /\ update_dl_entity(e, pi) = Renew(e, pi)
  BY <1>2, RenewLemma
<1>3. CASE ~e.dl_new /\ ~dl_time_before(e.deadline, clock) /\ update_dl_entity(e, pi) = e
  BY <1>3 DEF SameStatus, dl_time_before, Entity
<1> QED
  BY <1>1, <1>2, <1>3 DEF update_dl_entity

\* So does replenish_dl_entity(), if there is a runtime to replenish with.
LEMMA ReplenishEntity ==
    ASSUME clock \in Nat, clock >= 1, NEW e \in Entity, NEW pi \in Entity,
           pi.dl_runtime > 0, ~e.dl_new
    PROVE  /\ replenish_dl_entity(e, pi) \in Entity
           /\ SameStatus(e, replenish_dl_entity(e, pi))
           /\ ~replenish_dl_entity(e, pi).dl_new
           /\ replenish_dl_entity(e, pi).deadline >= clock
<1> DEFINE e1 == IF e.dl_deadline = 0 THEN Renew(e, pi) ELSE e
           k  == Instances(e1.runtime, pi.dl_runtime)
           d  == e1.deadline + k * pi.dl_period
           v  == e1.runtime + k * pi.dl_runtime
           e2 == [e1 EXCEPT !.deadline = d, !.runtime = v]
<1>1. e1 \in Entity /\ SameStatus(e, e1) /\ ~e1.dl_new
  BY RenewLemma DEF SameStatus
<1>2. pi.dl_runtime \in Nat /\ pi.dl_period \in Nat /\ e1.runtime \in Int /\ e1.deadline \in Int
  BY <1>1 DEF Entity
<1> HIDE DEF e1
<1>3. k \in Int
  BY <1>2 DEF Instances
<1> HIDE DEF k
<1>4. d \in Int /\ v \in Int
  BY <1>2, <1>3
<1> HIDE DEF d, v
<1>5. e2 \in Entity /\ SameStatus(e, e2) /\ ~e2.dl_new
  BY <1>1, <1>4, Zenon DEF Entity, SameStatus
<1>6. replenish_dl_entity(e, pi) = IF dl_time_before(e2.deadline, clock) THEN Renew(e2, pi) ELSE e2
  BY DEF replenish_dl_entity, e1, k, d, v
<1> HIDE DEF e2
<1>7. CASE dl_time_before(e2.deadline, clock)
  BY <1>5, <1>6, <1>7, RenewLemma DEF SameStatus
<1>8. CASE ~dl_time_before(e2.deadline, clock)
  <2>1. e2.deadline \in Int
    BY <1>5 DEF Entity
  <2> QED
    BY <1>5, <1>6, <1>8, <2>1 DEF dl_time_before
<1> QED
  BY <1>7, <1>8
-----------------------------------------------------------------------------
(* The operations of the class.                                            *)

\* resched_task() touches neither tree nor entities.
LEMMA ReschedLemma ==
    ASSUME NEW m, NEW X, Safe(m, X), NEW p \in Task \cup {Idle}
    PROVE  Safe(resched_task(m, p), X)
<1> DEFINE x == [m.rq EXCEPT !.resched = @ \cup {p}]
<1>1. m.rq \in Runqueue
  BY GoodType DEF Safe
<1>2. x \in Runqueue /\ x.bug = m.rq.bug
  BY <1>1 DEF Runqueue
<1> QED
  BY <1>2, SetRqLemma, Zenon DEF resched_task

\* BUG_ON() may stop an operation on p anywhere: nothing is owed to p then.
LEMMA BugLemma ==
    ASSUME NEW m, NEW X, NEW Y, Safe(m, X), NEW w \in {"on_dl_rq", "dl_runtime"},
           \A q \in Task \ Y : Member(m.dl.tree, q) =>
              LET e == m.tsk[q] IN e.on_rq /\ e.prio = DL /\ ~e.dl_throttled /\ ~e.dl_new
    PROVE  Safe(BUG_ON(m, w), Y)
<1> DEFINE x == [m.rq EXCEPT !.bug = w]
<1>1. m.rq \in Runqueue
  BY GoodType DEF Safe
<1>2. x \in Runqueue /\ x.bug = w /\ w # "none"
  BY <1>1 DEF Runqueue
<1>3. Safe(SetRq(m, x), X)
  BY <1>2, SetRqLemma, Zenon
<1>4. SetRq(m, x).rq = x /\ SetRq(m, x).dl = m.dl /\ SetRq(m, x).tsk = m.tsk
  BY SMT, Zenon, SMTT(40) DEF SetRq
<1> HIDE DEF x
<1>5. Safe(SetRq(m, x), Y)
  BY <1>2, <1>3, <1>4 DEF Safe, Fit
<1> QED
  BY <1>5 DEF BUG_ON, x

\* enqueue_task_dl() repairs what an operation on p may have left open: p is in the
\* tree, or throttled, or the machine stops.
LEMMA EnqueueTask ==
    ASSUME clock \in Nat, clock >= 1,
           NEW m, NEW p \in Task, NEW rep \in BOOLEAN, Safe(m, {p}),
           m.tsk[p].on_rq, m.tsk[p].prio = DL,
           Member(m.dl.tree, p) => ~m.tsk[p].dl_throttled /\ ~m.tsk[p].dl_new
    PROVE  Safe(enqueue_task_dl(m, p, rep), {})
<1> DEFINE e  == m.tsk[p]
           pi == PiSe(m, p)
           r  == rep /\ ~e.dl_new
           g  == IF r THEN replenish_dl_entity(e, pi) ELSE update_dl_entity(e, pi)
           m1 == SetTask(m, p, g)
<1>1. Good(m) /\ e \in Entity /\ pi \in Entity
  <2>1. Good(m) /\ \A q \in Task : m.tsk[q] \in Entity
    BY GoodType DEF Safe
  <2>2. e.pi_top \in Task \cup {NULL}
    BY <2>1, SMT, Zenon, SMTT(40) DEF Entity
  <2> QED
    BY <2>1, <2>2 DEF PiSe
<1>2. CASE e.dl_throttled
  <2>1. enqueue_task_dl(m, p, rep) = m
    BY <1>2 DEF enqueue_task_dl
  <2> QED
    BY <1>2, <2>1 DEF Safe, Fit
<1>3. CASE ~e.dl_throttled /\ Member(m.dl.tree, p)
  <2>1. enqueue_task_dl(m, p, rep) = BUG_ON(m, "on_dl_rq")
    BY <1>3 DEF enqueue_task_dl, on_dl_rq, Member
  <2>2. \A q \in Task : Member(m.dl.tree, q) =>
           LET f == m.tsk[q] IN f.on_rq /\ f.prio = DL /\ ~f.dl_throttled /\ ~f.dl_new
    BY <1>3 DEF Safe, Fit
  <2> QED
    BY <2>1, <2>2, BugLemma, Zenon
<1>4. CASE ~e.dl_throttled /\ ~Member(m.dl.tree, p) /\ r /\ pi.dl_runtime <= 0
  <2>1. enqueue_task_dl(m, p, rep) = BUG_ON(m, "dl_runtime")
    BY <1>4, SMT, Zenon, SMTT(40) DEF enqueue_task_dl, on_dl_rq, Member
  <2>2. \A q \in Task : Member(m.dl.tree, q) =>
           LET f == m.tsk[q] IN f.on_rq /\ f.prio = DL /\ ~f.dl_throttled /\ ~f.dl_new
    BY <1>4 DEF Safe, Fit
  <2> QED
    BY <2>1, <2>2, BugLemma, SMT, Zenon, SMTT(40)
<1>5. CASE ~e.dl_throttled /\ ~Member(m.dl.tree, p) /\ ~(r /\ pi.dl_runtime <= 0)
  <2>1. enqueue_task_dl(m, p, rep) = __enqueue_dl_entity(m1, p)
    BY <1>5 DEF enqueue_task_dl, on_dl_rq, Member
  <2>2. g \in Entity /\ SameStatus(e, g) /\ ~g.dl_new /\ g.deadline >= clock
    <3>1. CASE r
      <4>1. pi.dl_runtime \in Nat
        BY <1>1 DEF Entity
      <4>2. pi.dl_runtime > 0 /\ ~e.dl_new
        BY <1>5, <3>1, <4>1, SMTT(40), SMTT(60)
      <4> QED
        BY <1>1, <3>1, <4>2, ReplenishEntity, Zenon
    <3>2. CASE ~r
      BY <1>1, <3>2, UpdateEntity
    <3> QED
      BY <3>1, <3>2, Zenon
  <2>3. g.deadline > 0
    <3>1. g.deadline \in Int
      BY <2>2, SMTT(40), SMTT(60) DEF Entity
    <3> HIDE DEF g
    <3> QED
      BY <2>2, <3>1, SMTT(40), SMTT(60)
  <2> HIDE DEF g
  <2>4. /\ Good(m1) /\ m1.rq = m.rq /\ m1.dl = m.dl /\ m1.tsk[p] = g
        /\ \A q \in Task : q # p => m1.tsk[q] = m.tsk[q]
    BY <1>1, <1>5, <2>2, SetTaskLemma, SMTT(40), SMTT(60)
  <2> HIDE DEF m1
  <2> DEFINE m2 == __enqueue_dl_entity(m1, p)
  <2>5. /\ Good(m2) /\ m2.rq = m1.rq /\ m2.tsk = m1.tsk
        /\ \A q \in Task : Member(m2.dl.tree, q) <=> Member(m1.dl.tree, q) \/ q = p
    BY <1>5, <2>3, <2>4, EnqueueEntity, Zenon
  <2> HIDE DEF m2
  <2>6. Fit(m2, p)
    BY <1>5, <2>2, <2>4, <2>5, Zenon DEF Fit, SameStatus
  <2>7. \A q \in Task \ {p} : Fit(m2, q)
    BY <2>4, <2>5, ZenonT(60) DEF Safe, Fit
  <2>8. Safe(m2, {})
    BY <2>5, <2>6, <2>7 DEF Safe
  <2> QED
    BY <2>1, <2>8, SMT, Zenon, SMTT(40) DEF m2
<1> QED
  BY <1>2, <1>3, <1>4, <1>5, SMT, Zenon, SMTT(40)

\* Off the tree, an operation on p may set p to anything.
LEMMA OffTree ==
    ASSUME NEW m, NEW p \in Task, Safe(m, {p}), ~Member(m.dl.tree, p), NEW e \in Entity
    PROVE  /\ Safe(SetTask(m, p, e), {p})
           /\ ~Member(SetTask(m, p, e).dl.tree, p)
           /\ SetTask(m, p, e).tsk[p] = e
           /\ ~e.on_rq \/ e.prio # DL \/ e.dl_throttled => Safe(SetTask(m, p, e), {})
<1> DEFINE m1 == SetTask(m, p, e)
<1>1. /\ Good(m1) /\ m1.rq = m.rq /\ m1.dl = m.dl /\ m1.tsk[p] = e
      /\ \A q \in Task : q # p => m1.tsk[q] = m.tsk[q]
  BY SetTaskLemma DEF Safe
<1> HIDE DEF m1
<1>2. Safe(m1, {p}) /\ ~Member(m1.dl.tree, p)
  BY <1>1, SMT, Zenon, SMTT(40) DEF Safe, Fit
<1>3. ~e.on_rq \/ e.prio # DL \/ e.dl_throttled => Safe(m1, {})
  BY <1>1, <1>2 DEF Safe, Fit
<1> QED
  BY <1>1, <1>2, <1>3 DEF m1

\* __dequeue_dl_entity() leaves p off the tree and every entity as it was.
LEMMA DequeueSafe ==
    ASSUME NEW m, NEW p \in Task, Safe(m, {p})
    PROVE  /\ Safe(__dequeue_dl_entity(m, p), {p})
           /\ ~Member(__dequeue_dl_entity(m, p).dl.tree, p)
           /\ __dequeue_dl_entity(m, p).tsk = m.tsk
<1> DEFINE m1 == __dequeue_dl_entity(m, p)
<1>1. /\ Good(m1) /\ m1.rq = m.rq /\ m1.tsk = m.tsk
      /\ \A q \in Task : Member(m1.dl.tree, q) <=> Member(m.dl.tree, q) /\ q # p
  BY DequeueEntity, SMT, Zenon, SMTT(40) DEF Safe
<1> HIDE DEF m1
<1>2. Safe(m1, {p})
  BY <1>1 DEF Safe, Fit
<1> QED
  BY <1>1, <1>2 DEF m1

\* When its budget is gone, p is off the tree and throttled, or replenished at once.
LEMMA ThrottleLemma ==
    ASSUME clock \in Nat, clock >= 1,
           NEW m, NEW p \in Task, Safe(m, {p}), m.tsk[p].on_rq, m.tsk[p].prio = DL
    PROVE  Safe(Throttle(m, p), {})
<1> DEFINE m1 == __dequeue_dl_entity(m, p)
           e  == m1.tsk[p]
           g  == [start_dl_timer(e) EXCEPT !.dl_throttled = TRUE]
           m2 == IF CanStartTimer(e) THEN SetTask(m1, p, g) ELSE enqueue_task_dl(m1, p, TRUE)
<1>1. Safe(m1, {p}) /\ ~Member(m1.dl.tree, p) /\ e = m.tsk[p]
  BY DequeueSafe
<1> HIDE DEF m1
<1>2. Safe(m2, {})
  <2>1. CASE CanStartTimer(e)
    <3>1. e \in Entity
      BY <1>1, GoodType DEF Safe
    <3> HIDE DEF e
    <3>2. g \in Entity /\ g.dl_throttled
      BY <3>1, Zenon DEF Entity, start_dl_timer
    <3> HIDE DEF g
    <3> QED
      BY <1>1, <2>1, <3>2, OffTree, SMT, Zenon, SMTT(40)
  <2>2. CASE ~CanStartTimer(e)
    <3>1. e.on_rq /\ e.prio = DL
      BY <1>1
    <3> QED
      BY <1>1, <2>2, <3>1, EnqueueTask, Zenon
  <2> QED
    BY <2>1, <2>2, Zenon
<1>3. Throttle(m, p) = IF m2.dl.leftmost # p THEN resched_task(m2, p) ELSE m2
  BY SMT, Zenon, SMTT(40) DEF Throttle, m1
<1> HIDE DEF m2
<1> QED
  BY <1>2, <1>3, ReschedLemma

\* update_curr_dl().  yield_task_dl() calls it with curr queued, exhausted and new.
LEMMA UpdateCurr ==
    ASSUME clock \in Nat, clock >= 1,
           NEW m, Good(m), \A q \in Task : q # m.rq.curr => Fit(m, q),
           m.rq.curr \in Task =>
              \/ Fit(m, m.rq.curr)
              \/ LET e == m.tsk[m.rq.curr]
                 IN  /\ Member(m.dl.tree, m.rq.curr)
                     /\ e.on_rq /\ e.prio = DL /\ ~e.dl_throttled /\ e.runtime <= 0
    PROVE  Safe(update_curr_dl(m), {})
<1> DEFINE p == m.rq.curr
           v == m.tsk[p].runtime - delta_exec(m)
           e == [m.tsk[p] EXCEPT !.runtime = v]
           c == ChargeMiss(e)
           x == [m.rq EXCEPT !.exec_start = clock]
<1>1. CASE ~dl_task(m, p) \/ ~Member(m.dl.tree, p)
  <2>1. update_curr_dl(m) = m
    BY <1>1, SMT, Zenon, SMTT(40) DEF update_curr_dl, on_dl_rq, Member
  <2>2. p \in Task => Fit(m, p)
    BY <1>1 DEF dl_task
  <2> QED
    BY <2>1, <2>2, SMT, Zenon, SMTT(40) DEF Safe
<1>2. CASE dl_task(m, p) /\ Member(m.dl.tree, p)
  <2>1. p \in Task /\ m.tsk[p] \in Entity /\ m.rq \in Runqueue
    BY <1>2, GoodType, ZenonT(60) DEF dl_task
  <2>2. m.tsk[p].on_rq /\ m.tsk[p].prio = DL /\ ~m.tsk[p].dl_throttled
        /\ (m.tsk[p].runtime <= 0 \/ ~m.tsk[p].dl_new)
    BY <1>2, <2>1, SMTT(40), SMTT(60) DEF Fit
  <2>3. v \in Int /\ (m.tsk[p].runtime <= 0 => v <= 0)
    <3>1. m.tsk[p].runtime \in Int /\ m.rq.exec_start \in Nat
      BY <2>1, SMT, Zenon, SMTT(40) DEF Entity, Runqueue
    <3> QED
      BY <3>1, SMT, Zenon, SMTT(40) DEF delta_exec
  <2>4. /\ update_curr_dl(m) =
             IF dl_runtime_exceeded(e)
             THEN Throttle(SetTask(SetRq(m, x), p, c), p)
             ELSE SetTask(SetRq(m, x), p, e)
    BY <1>2 DEF update_curr_dl, on_dl_rq, Member
  <2>5. x \in Runqueue /\ x.bug = m.rq.bug
    BY <2>1, ZenonT(60) DEF Runqueue
  <2> HIDE DEF v, x
  <2>6. /\ e \in Entity /\ e.deadline = m.tsk[p].deadline /\ e.runtime = v
        /\ SameStatus(m.tsk[p], e) /\ e.dl_new = m.tsk[p].dl_new
    BY <2>1, <2>3 DEF Entity, SameStatus
  <2> HIDE DEF e
  <2>7. c \in Entity /\ c.deadline = m.tsk[p].deadline /\ SameStatus(m.tsk[p], c)
    <3> DEFINE w == (IF e.runtime <= 0 THEN e.runtime ELSE 0) - (clock - e.deadline)
    <3>1. w \in Int
      BY <2>6 DEF Entity
    <3>2. c = IF dl_time_before(e.deadline, clock) THEN [e EXCEPT !.runtime = w] ELSE e
      BY DEF ChargeMiss
    <3> HIDE DEF w, c
    <3>3. CASE c = e
      BY <2>6, <3>3, ZenonT(60)
    <3>4. CASE c = [e EXCEPT !.runtime = w]
      BY <2>6, <3>1, <3>4 DEF Entity, SameStatus
    <3> QED
      BY <3>2, <3>3, <3>4, ZenonT(60)
  <2> HIDE DEF c
  <2> DEFINE m0 == SetRq(m, x)
  <2>8. Safe(m, {p})
    BY SMTT(40), SMTT(60) DEF Safe
  <2>9. Safe(m0, {p}) /\ m0.tsk = m.tsk /\ m0.dl = m.dl
    BY <2>5, <2>8, SetRqLemma, Zenon DEF SetRq
  <2> HIDE DEF m0
  <2>10. \A f \in Entity : f.deadline = m.tsk[p].deadline =>
           LET m1 == SetTask(m0, p, f)
           IN  Safe(m1, {p}) /\ m1.tsk[p] = f
    <3> SUFFICES ASSUME NEW f \in Entity, f.deadline = m.tsk[p].deadline
                 PROVE  Safe(SetTask(m0, p, f), {p}) /\ SetTask(m0, p, f).tsk[p] = f
      BY Zenon
    <3> DEFINE m1 == SetTask(m0, p, f)
    <3>1. /\ Good(m1) /\ m1.rq = m0.rq /\ m1.dl = m0.dl /\ m1.tsk[p] = f
          /\ \A q \in Task : q # p => m1.tsk[q] = m0.tsk[q]
      BY <2>1, <2>9, SetTaskLemma, SMT, Zenon, SMTT(40) DEF Safe
    <3> HIDE DEF m1
    <3>2. Safe(m1, {p})
      BY <2>9, <3>1 DEF Safe, Fit
    <3> QED
      BY <3>1, <3>2, Zenon DEF m1
  <2>11. CASE dl_runtime_exceeded(e)
    <3> DEFINE m1 == SetTask(m0, p, c)
    <3>1. Safe(m1, {p}) /\ m1.tsk[p] = c
      BY <2>7, <2>10, Zenon
    <3>2. m1.tsk[p].on_rq /\ m1.tsk[p].prio = DL
      BY <2>2, <2>7, <3>1, ZenonT(60) DEF SameStatus
    <3>3. Safe(Throttle(m1, p), {})
      BY <2>1, <3>1, <3>2, ThrottleLemma
    <3> QED
      BY <2>4, <2>11, <3>3, Zenon DEF m0
  <2>12. CASE ~dl_runtime_exceeded(e)
    <3> DEFINE m1 == SetTask(m0, p, e)
    <3>1. Safe(m1, {p}) /\ m1.tsk[p] = e /\ m1.dl = m.dl
      BY <2>6, <2>9, <2>10, Zenon DEF SetTask
    <3>2. ~e.dl_new
      BY <2>2, <2>3, <2>6, <2>12, Zenon DEF dl_runtime_exceeded
    <3> HIDE DEF m1
    <3>3. Fit(m1, p)
      BY <1>2, <2>2, <2>6, <3>1, <3>2, Zenon DEF Fit, SameStatus
    <3>4. Safe(m1, {})
      BY <3>1, <3>3 DEF Safe
    <3> QED
      BY <2>4, <2>12, <3>4, Zenon DEF m0, m1
  <2> QED
    BY <2>11, <2>12, Zenon
<1> QED
  BY <1>1, <1>2
-----------------------------------------------------------------------------
(* The paths of core.c.                                                    *)

\* What holds of every task holds of all tasks but some.
LEMMA SafeWeaken ==
    ASSUME NEW m, NEW X, Safe(m, {})
    PROVE  Safe(m, X)
  BY DEF Safe

\* update_curr_dl() keeps the queue exact, through throttling and replenishing.
LEMMA UpdateCurrSafe ==
    ASSUME clock \in Nat, clock >= 1, NEW m, Safe(m, {})
    PROVE  Safe(update_curr_dl(m), {})
  BY UpdateCurr DEF Safe

\* dequeue_task(): p is off the tree, whatever its class.
LEMMA DequeueTask ==
    ASSUME clock \in Nat, clock >= 1, NEW m, NEW p \in Task, Safe(m, {})
    PROVE  /\ Safe(dequeue_task(m, p), {p})
           /\ ~Member(dequeue_task(m, p).dl.tree, p)
<1>1. CASE m.tsk[p].on_rq /\ dl_task(m, p)
  <2>1. Safe(update_curr_dl(m), {p})
    BY UpdateCurrSafe, SafeWeaken
  <2> QED
    BY <1>1, <2>1, DequeueSafe DEF dequeue_task, dequeue_task_dl
<1>2. CASE ~(m.tsk[p].on_rq /\ dl_task(m, p))
  <2>1. ~Member(m.dl.tree, p)
    BY <1>2 DEF Safe, Fit, dl_task
  <2> QED
    BY <1>2, <2>1, SafeWeaken DEF dequeue_task
<1> QED
  BY <1>1, <1>2

\* After the first half of both core.c paths p is off the tree.
LEMMA DetachLemma ==
    ASSUME clock \in Nat, clock >= 1, NEW m, NEW p \in Task, Safe(m, {})
    PROVE  Safe(Detach(m, p), {p}) /\ ~Member(Detach(m, p).dl.tree, p)
<1> DEFINE m1 == dequeue_task(m, p)
<1>1. Safe(m1, {p}) /\ ~Member(m1.dl.tree, p)
  BY DequeueTask
<1> HIDE DEF m1
<1>2. put_prev_task(m1, p) = m1
  BY <1>1 DEF put_prev_task, update_curr_dl, on_dl_rq, Member
<1> QED
  BY <1>1, <1>2 DEF Detach, m1

\* set_curr_task() only restarts the accounting of the running task.
LEMMA SetCurr ==
    ASSUME clock \in Nat, NEW m, NEW X, NEW p, Safe(m, X)
    PROVE  /\ Safe(set_curr_task(m, p), X)
           /\ set_curr_task(m, p).tsk = m.tsk /\ set_curr_task(m, p).dl = m.dl
<1> DEFINE v == IF dl_task(m, p) THEN clock ELSE 0
           x == [m.rq EXCEPT !.exec_start = v]
<1>1. v \in Nat /\ m.rq \in Runqueue
  BY GoodType DEF Safe
<1> HIDE DEF v
<1>2. x \in Runqueue /\ x.bug = m.rq.bug
  BY <1>1 DEF Runqueue
<1>3. set_curr_task(m, p) = IF m.rq.curr = p THEN SetRq(m, x) ELSE m
  BY DEF set_curr_task, v
<1> HIDE DEF x
<1> QED
  BY <1>2, <1>3, SetRqLemma DEF SetRq

\* enqueue_task() of a p that is off the tree, or was just woken up.
LEMMA EnqueueSafe ==
    ASSUME clock \in Nat, clock >= 1, NEW m, NEW p \in Task, NEW rep \in BOOLEAN, Safe(m, {p}),
           Member(m.dl.tree, p) =>
              m.tsk[p].on_rq /\ m.tsk[p].prio = DL /\ ~m.tsk[p].dl_throttled /\ ~m.tsk[p].dl_new
    PROVE  Safe(enqueue_task(m, p, rep), {})
<1>1. CASE m.tsk[p].on_rq /\ dl_task(m, p)
  BY <1>1, EnqueueTask DEF enqueue_task, dl_task
<1>2. CASE ~(m.tsk[p].on_rq /\ dl_task(m, p))
  <2>1. Fit(m, p)
    BY <1>2 DEF Fit, dl_task
  <2> QED
    BY <1>2, <2>1, SMT, Zenon, SMTT(40) DEF enqueue_task, Safe
<1> QED
  BY <1>1, <1>2

\* The running task is one of this CPU.
LEMMA CurrType ==
    ASSUME NEW m, NEW X, Safe(m, X)
    PROVE  m.rq.curr \in Task \cup {Idle}
  BY GoodType DEF Safe, Runqueue

\* Neither preemption check does more than mark the running task.
LEMMA CheckPreempt ==
    ASSUME NEW m, NEW X, NEW p, Safe(m, X)
    PROVE  /\ Safe(check_preempt_curr_dl(m, p), X)
           /\ Safe(check_preempt_curr(m, p), X)
<1>1. Safe(resched_task(m, m.rq.curr), X)
  BY ReschedLemma, CurrType
<1>2. Safe(check_preempt_curr_dl(m, p), X)
  BY <1>1 DEF check_preempt_curr_dl
<1> QED
  BY <1>1, <1>2 DEF check_preempt_curr

\* Cancelling dl_timer changes no field that the queue depends on.
LEMMA TimerCancel ==
    ASSUME NEW e \in Entity
    PROVE  /\ hrtimer_try_to_cancel(e) \in Entity
           /\ hrtimer_try_to_cancel(e).deadline = e.deadline
           /\ SameStatus(e, hrtimer_try_to_cancel(e))
           /\ hrtimer_try_to_cancel(e).dl_new = e.dl_new
<1>1. CASE e.callback
  BY <1>1 DEF hrtimer_try_to_cancel, SameStatus
<1>2. CASE ~e.callback
  BY <1>2 DEF hrtimer_try_to_cancel, SameStatus, Entity
<1> QED
  BY <1>1, <1>2

\* A change of p that keeps what Fit and the tree depend on.
LEMMA SetTaskSafe ==
    ASSUME NEW m, NEW p \in Task, Safe(m, {}), NEW e \in Entity,
           e.deadline = m.tsk[p].deadline, SameStatus(m.tsk[p], e), e.dl_new = m.tsk[p].dl_new
    PROVE  Safe(SetTask(m, p, e), {})
<1> DEFINE m1 == SetTask(m, p, e)
<1>1. /\ Good(m1) /\ m1.rq = m.rq /\ m1.dl = m.dl /\ m1.tsk[p] = e
      /\ \A q \in Task : q # p => m1.tsk[q] = m.tsk[q]
  BY SetTaskLemma, SMTT(40), SMTT(60) DEF Safe
<1> HIDE DEF m1
<1>2. Safe(m1, {})
  BY <1>1 DEF Safe, Fit, SameStatus
<1> QED
  BY <1>2 DEF m1

\* check_class_changed(): the hooks of both classes keep the queue exact.
LEMMA ClassChanged ==
    ASSUME NEW m, NEW p \in Task, NEW old, Safe(m, {})
    PROVE  Safe(check_class_changed(m, p, old), {})
<1>1. Safe(switched_to_dl(m, p), {})
  BY CheckPreempt DEF switched_to_dl
<1>2. Safe(prio_changed_dl(m, p), {})
  BY <1>1, ReschedLemma DEF prio_changed_dl
<1> DEFINE m1 == switched_from_dl(m, p)
<1>3. Safe(m1, {})
  <2>1. m.tsk[p] \in Entity
    BY GoodType, SMT, Zenon, SMTT(40) DEF Safe
  <2> QED
    BY <2>1, TimerCancel, SetTaskSafe, SMT, Zenon, SMTT(40) DEF switched_from_dl
<1> HIDE DEF m1
<1>4. Safe(switched_to_fair(m1, p), {})
  BY <1>3, ReschedLemma, CheckPreempt, SMT, Zenon, SMTT(40) DEF switched_to_fair
<1> QED
  BY <1>1, <1>2, <1>4, SMT, Zenon, SMTT(40) DEF check_class_changed, m1

\* Putting p back makes the machine whole again.
LEMMA AttachLemma ==
    ASSUME clock \in Nat, clock >= 1, NEW m, NEW p \in Task, NEW old, NEW rep \in BOOLEAN,
           Safe(m, {p}), ~Member(m.dl.tree, p)
    PROVE  Safe(Attach(m, p, old, rep), {})
<1> DEFINE m1 == set_curr_task(m, p)
<1>1. Safe(m1, {p}) /\ ~Member(m1.dl.tree, p)
  BY SetCurr, SMT, Zenon, SMTT(40)
<1> HIDE DEF m1
<1>2. Safe(enqueue_task(m1, p, rep), {})
  BY <1>1, EnqueueSafe
<1> QED
  BY <1>2, ClassChanged, SMT, Zenon, SMTT(40) DEF Attach, m1

\* try_to_wake_up(): the woken task is queued unless it is throttled.
LEMMA ActivateLemma ==
    ASSUME clock \in Nat, clock >= 1, NEW m, NEW p \in Task, Safe(m, {})
    PROVE  Safe(Activate(m, p), {})
<1> DEFINE e  == [m.tsk[p] EXCEPT !.on_rq = TRUE]
           m1 == SetTask(m, p, e)
<1>1. m.tsk[p] \in Entity
  BY GoodType DEF Safe
<1>2. /\ e \in Entity /\ e.deadline = m.tsk[p].deadline /\ e.on_rq
      /\ e.prio = m.tsk[p].prio /\ e.dl_throttled = m.tsk[p].dl_throttled
      /\ e.dl_new = m.tsk[p].dl_new
  BY <1>1, Zenon DEF Entity
<1> HIDE DEF e
<1>3. /\ Good(m1) /\ m1.rq = m.rq /\ m1.dl = m.dl /\ m1.tsk[p] = e
      /\ \A q \in Task : q # p => m1.tsk[q] = m.tsk[q]
  BY <1>2, SetTaskLemma, SMT, Zenon, SMTT(40) DEF Safe
<1> HIDE DEF m1
<1>4. Safe(m1, {p})
  BY <1>3, SMT, Zenon, SMTT(40) DEF Safe, Fit
<1>5. Member(m1.dl.tree, p) =>
         m1.tsk[p].on_rq /\ m1.tsk[p].prio = DL /\ ~m1.tsk[p].dl_throttled /\ ~m1.tsk[p].dl_new
  BY <1>2, <1>3 DEF Safe, Fit
<1>6. Safe(enqueue_task(m1, p, FALSE), {})
  BY <1>4, <1>5, EnqueueSafe, Zenon
<1> QED
  BY <1>6, CheckPreempt, Zenon DEF Activate, m1, e

\* rt_mutex_setprio() keeps the queue exact, whether it boosts or restores.
LEMMA SetPrio ==
    ASSUME clock \in Nat, clock >= 1, NEW m, NEW p \in Task, Safe(m, {}),
           NEW prio \in {DL, NORMAL}, NEW top \in Task \cup {NULL}
    PROVE  Safe(rt_mutex_setprio(m, p, prio, top), {})
<1> DEFINE e0 == [m.tsk[p] EXCEPT !.pi_top = top]
           m1 == Detach(SetTask(m, p, e0), p)
           e  == m1.tsk[p]
           boost == /\ prio = DL
                    /\ e.policy # DL \/ (top # NULL /\ dl_entity_preempt(m1, top, p))
           b  == boost \/ (e.dl_boosted /\ prio # DL /\ m.tsk[p].prio # DL)
           h  == e.dl_throttled /\ ~boost
           g  == [e EXCEPT !.dl_boosted = b, !.dl_throttled = h, !.prio = prio]
           m2 == SetTask(m1, p, g)
<1>1. m.tsk[p] \in Entity
  BY GoodType DEF Safe
<1>2. /\ e0 \in Entity /\ e0.deadline = m.tsk[p].deadline /\ SameStatus(m.tsk[p], e0)
      /\ e0.dl_new = m.tsk[p].dl_new
  BY <1>1, SMT, Zenon, SMTT(40) DEF Entity, SameStatus
<1> HIDE DEF e0
<1>3. Safe(SetTask(m, p, e0), {})
  BY <1>2, SetTaskSafe, SMT, Zenon, SMTT(40)
<1>4. Safe(m1, {p}) /\ ~Member(m1.dl.tree, p)
  BY <1>3, DetachLemma, SMT, Zenon, SMTT(40)
<1> HIDE DEF m1
<1>5. e \in Entity
  BY <1>4, GoodType DEF Safe
<1> HIDE DEF e
<1>6. boost \in BOOLEAN
  OBVIOUS
<1> HIDE DEF boost
<1>7. b \in BOOLEAN /\ h \in BOOLEAN
  BY <1>5, <1>6 DEF Entity
<1> HIDE DEF b, h
<1>8. g \in Entity
  BY <1>5, <1>7, Zenon DEF Entity
<1> HIDE DEF g
<1>9. Safe(m2, {p}) /\ ~Member(m2.dl.tree, p)
  BY <1>4, <1>8, OffTree, SMT, Zenon, SMTT(40)
<1> HIDE DEF m2
<1>10. Safe(Attach(m2, p, m.tsk[p].prio, boost), {})
  BY <1>6, <1>9, AttachLemma, SMT, Zenon, SMTT(40)
<1> QED
  BY <1>10, Zenon DEF rt_mutex_setprio, m2, g, b, h, boost, e, m1, e0
-----------------------------------------------------------------------------
(* The invariant.                                                          *)

IInv ==
    /\ clock \in Nat /\ clock >= 1
    /\ Good(M)
    /\ \A q \in Task :
          /\ Member(dl.tree, q) =>
                tsk[q].on_rq /\ tsk[q].prio = DL /\ ~tsk[q].dl_throttled /\ ~tsk[q].dl_new
          /\ tsk[q].on_rq /\ tsk[q].prio = DL => Member(dl.tree, q) \/ tsk[q].dl_throttled

\* The invariant is Safe of the current machine state, with no exception.
LEMMA InvSafe ==
    ASSUME IInv
    PROVE  /\ clock \in Nat /\ clock >= 1 /\ Safe(M, {})
           /\ M.rq = rq /\ M.dl = dl /\ M.tsk = tsk
           /\ rq \in Runqueue /\ tsk \in [Task -> Entity]
  BY GoodType DEF IInv, Safe, Fit, M

\* Committing a safe machine state, or stopping on a BUG_ON, keeps the invariant.
LEMMA CommitLemma ==
    ASSUME IInv, NEW m, Safe(m, {}), Commit(m), UNCHANGED clock
    PROVE  IInv'
<1>1. CASE m.rq.bug = "none"
  <2>1. rq' = m.rq /\ dl' = m.dl /\ tsk' = m.tsk
    BY <1>1 DEF Commit
  <2>2. m \in Machine
    BY DEF Safe, Good
  <2>3. M' = m
    BY <2>1, <2>2, Zenon DEF M, Machine
  <2>4. Good(M)'
    <3>1. M'.tsk = m.tsk /\ M'.dl = m.dl /\ M' \in Machine
      BY <2>2, <2>3
    <3> QED
      BY <2>3 DEF Good, Caches, Safe
  <2> QED
    BY <1>1, <2>1, <2>4 DEF IInv, Safe, Fit
<1>2. CASE m.rq.bug # "none"
  <2>1. rq' = [rq EXCEPT !.bug = m.rq.bug] /\ dl' = dl /\ tsk' = tsk
    BY <1>2, SMT, Zenon, SMTT(40) DEF Commit
  <2>2. m.rq \in Runqueue /\ rq \in Runqueue /\ dl \in DlRunqueue /\ tsk \in [Task -> Entity]
    BY GoodType, InvSafe DEF Safe, M
  <2>3. rq' \in Runqueue
    BY <2>1, <2>2 DEF Runqueue
  <2>4. M'.tsk = tsk /\ M'.dl = dl /\ M' \in Machine
    BY <2>1, <2>2, <2>3, Zenon DEF M, Machine
  <2>5. Good(M)'
    BY <2>4, ZenonT(60) DEF Good, Caches, IInv, M
  <2> QED
    BY <2>1, <2>5 DEF IInv
<1> QED
  BY <1>1, <1>2, SMT, Zenon, SMTT(40)

\* An empty tree and tasks that never ran satisfy the invariant.
LEMMA InitInv == Init => IInv
<1> SUFFICES ASSUME Init PROVE IInv
  BY Zenon
<1>1. rq \in Runqueue /\ dl \in DlRunqueue /\ tsk \in [Task -> Entity]
  BY DEF Init, Runqueue, DlRunqueue, Entity, DL, NORMAL
<1>2. M \in Machine /\ M.dl = dl /\ M.tsk = tsk
  BY <1>1, Zenon DEF M, Machine
<1>3. dl.tree = <<>> /\ dl.leftmost = NULL /\ dl.dl_nr_running = 0 /\ dl.earliest = 0
  BY DEF Init
<1>4. \A q : ~Member(dl.tree, q)
  BY <1>3 DEF Member
<1>5. Ordered(dl.tree, tsk)
  BY <1>3 DEF Ordered
<1>6. Good(M)
  BY <1>2, <1>3, <1>4, <1>5, ZenonT(60) DEF Good, Caches
<1>7. \A q \in Task : ~tsk[q].on_rq
  BY DEF Init
<1> QED
  BY <1>4, <1>6, <1>7, SMT, Zenon, SMTT(40) DEF IInv, Init

\* schedule() preserves it, whether the previous task sleeps or stays runnable.
LEMMA ScheduleInv ==
    ASSUME IInv, NEW sleep \in BOOLEAN, schedule(sleep)
    PROVE  IInv'
<1> DEFINE prev == rq.curr
           m1 == IF sleep THEN Deactivate(M, prev) ELSE M
           m2 == put_prev_task(m1, prev)
           x(next) == [m2.rq EXCEPT !.curr = next, !.resched = @ \ {prev}]
<1>1. clock \in Nat /\ clock >= 1 /\ Safe(M, {}) /\ prev \in Task \cup {Idle}
  BY InvSafe DEF Runqueue
<1>2. Safe(m1, {})
  <2>1. CASE sleep
    <3> DEFINE d == dequeue_task(M, prev)
               e == [d.tsk[prev] EXCEPT !.on_rq = FALSE]
    <3>1. prev \in Task
      BY <1>1, <2>1 DEF schedule
    <3>2. Safe(d, {prev}) /\ ~Member(d.dl.tree, prev)
      BY <1>1, <3>1, DequeueTask, SMT, Zenon, SMTT(40)
    <3> HIDE DEF d
    <3>3. d.tsk[prev] \in Entity
      BY <3>1, <3>2, GoodType DEF Safe
    <3>4. e \in Entity /\ ~e.on_rq
      BY <3>3, Zenon DEF Entity
    <3>5. Deactivate(M, prev) = SetTask(d, prev, e)
      BY DEF Deactivate, d
    <3> HIDE DEF e, prev
    <3> QED
      BY <2>1, <3>1, <3>2, <3>4, <3>5, OffTree, SMT, Zenon, SMTT(40)
  <2>2. CASE ~sleep
    BY <1>1, <2>2
  <2> QED
    BY <2>1, <2>2, SMT, Zenon, SMTT(40)
<1> HIDE DEF m1
<1>3. Safe(m2, {})
  BY <1>1, <1>2, UpdateCurrSafe DEF put_prev_task
<1>4. PICK next \in Task \cup {Idle} : Commit(set_curr_task(SetRq(m2, x(next)), next))
  BY Zenon DEF schedule, m1
<1> HIDE DEF m2
<1>5. m2.rq \in Runqueue
  BY <1>3, GoodType DEF Safe
<1>6. x(next) \in Runqueue /\ x(next).bug = m2.rq.bug
  BY <1>5, Zenon DEF Runqueue
<1> DEFINE y == x(next)
<1>7. y \in Runqueue /\ y.bug = m2.rq.bug /\ Commit(set_curr_task(SetRq(m2, y), next))
  BY <1>4, <1>6, SMT, Zenon, SMTT(40)
<1> HIDE DEF y
<1>8. Safe(set_curr_task(SetRq(m2, y), next), {})
  BY <1>1, <1>3, <1>7, SetRqLemma, SetCurr, SMT, Zenon, SMTT(40)
<1> QED
  BY <1>7, <1>8, CommitLemma, SMT, Zenon, SMTT(40) DEF schedule

\* The machine state in which yield_task_dl() calls update_curr_dl().
Yielding ==
    LET p == rq.curr
    IN  IF tsk[p].runtime > 0
        THEN SetTask(M, p, [tsk[p] EXCEPT !.dl_new = TRUE, !.runtime = 0]) ELSE M

\* The task that yield_task_dl() marks dl_new is throttled at once, or queued afresh.
LEMMA YieldSafe ==
    ASSUME IInv, yield_task_dl
    PROVE  Safe(update_curr_dl(Yielding), {})
<1> DEFINE p == rq.curr
           e == [tsk[p] EXCEPT !.dl_new = TRUE, !.runtime = 0]
           m1 == IF tsk[p].runtime > 0 THEN SetTask(M, p, e) ELSE M
<1>1. clock \in Nat /\ clock >= 1 /\ Safe(M, {}) /\ p \in Task /\ tsk[p] \in Entity
  BY InvSafe DEF yield_task_dl, dl_task
<1>2. Safe(update_curr_dl(m1), {})
  <2>1. CASE ~(tsk[p].runtime > 0)
    BY <1>1, <2>1, UpdateCurrSafe, SMT, Zenon, SMTT(40)
  <2>2. CASE tsk[p].runtime > 0
    <3>1. /\ e \in Entity /\ e.deadline = tsk[p].deadline /\ e.runtime = 0
          /\ SameStatus(tsk[p], e)
      <4> DEFINE f == tsk[p]
      <4>1. f \in Entity /\ e = [f EXCEPT !.dl_new = TRUE, !.runtime = 0]
        BY <1>1
      <4> HIDE DEF f, e
      <4>2. e \in Entity
        <5> DEFINE t == TRUE
                   z == 0
        <5>1. t \in BOOLEAN /\ z \in Int /\ e = [f EXCEPT !.dl_new = t, !.runtime = z]
          BY <4>1
        <5> HIDE DEF t, z
        <5> QED
          BY <4>1, <5>1, ZenonT(60) DEF Entity
      <4>3. e.deadline = f.deadline /\ e.runtime = 0 /\ SameStatus(f, e)
        BY <4>1, SMT, Zenon, SMTT(40) DEF Entity, SameStatus
      <4> QED
        BY <4>2, <4>3 DEF f
    <3> DEFINE m2 == SetTask(M, p, e)
    <3> HIDE DEF e
    <3>2. /\ Good(m2) /\ m2.rq = rq /\ m2.dl = dl /\ m2.tsk[p] = e
          /\ \A q \in Task : q # p => m2.tsk[q] = tsk[q]
      BY <1>1, <3>1, InvSafe, SetTaskLemma, SMT, Zenon, SMTT(40) DEF Safe
    <3> HIDE DEF m2
    <3>3. \A q \in Task : q # m2.rq.curr => Fit(m2, q)
      BY <1>1, <3>2, InvSafe DEF Safe, Fit
    <3>4. CASE Member(dl.tree, p)
      <4>1. tsk[p].on_rq /\ tsk[p].prio = DL /\ ~tsk[p].dl_throttled
        BY <1>1, <3>4, SMT, Zenon, SMTT(40) DEF IInv
      <4>2. /\ Member(m2.dl.tree, m2.rq.curr) /\ m2.tsk[m2.rq.curr].on_rq
            /\ m2.tsk[m2.rq.curr].prio = DL /\ ~m2.tsk[m2.rq.curr].dl_throttled
            /\ m2.tsk[m2.rq.curr].runtime <= 0
        <5>1. e.on_rq /\ e.prio = DL /\ ~e.dl_throttled /\ e.runtime <= 0
          BY <3>1, <4>1 DEF SameStatus
        <5>2. m2.rq.curr = p /\ m2.tsk[p] = e /\ m2.dl.tree = dl.tree
          BY <3>2, Zenon
        <5> QED
          BY <3>4, <5>1, <5>2, SMT, Zenon, SMTT(40)
      <4>3. Safe(update_curr_dl(m2), {})
        BY <1>1, <3>2, <3>3, <4>2, UpdateCurr, Zenon
      <4> QED
        BY <2>2, <4>3, ZenonT(60) DEF m2
    <3>5. CASE ~Member(dl.tree, p)
      <4>1. Fit(m2, m2.rq.curr)
        BY <1>1, <3>1, <3>2, <3>5, ZenonT(60) DEF Fit, SameStatus, IInv
      <4>2. Safe(update_curr_dl(m2), {})
        BY <1>1, <3>2, <3>3, <4>1, UpdateCurr, SMT, Zenon, SMTT(40)
      <4> QED
        BY <2>2, <4>2 DEF m2
    <3> QED
      BY <3>4, <3>5, SMT, Zenon, SMTT(40)
  <2> QED
    BY <2>1, <2>2
<1> QED
  BY <1>2 DEF Yielding

\* yield_task_dl() preserves it.
LEMMA YieldInv ==
    ASSUME IInv, yield_task_dl
    PROVE  IInv'
<1>1. rq.curr \in Task
  BY DEF yield_task_dl, dl_task
<1>2. Safe(update_curr_dl(Yielding), {})
  BY YieldSafe
<1>3. Commit(resched_task(update_curr_dl(Yielding), rq.curr)) /\ UNCHANGED clock
  BY DEF yield_task_dl, Yielding
<1>4. Safe(resched_task(update_curr_dl(Yielding), rq.curr), {})
  BY <1>1, <1>2, ReschedLemma, ZenonT(60)
<1> QED
  BY <1>3, <1>4, CommitLemma

\* The expiry of a bandwidth timer preserves it.
LEMMA TimerFireInv ==
    ASSUME IInv, NEW p \in Task, TimerFire(p)
    PROVE  IInv'
<1> DEFINE e == [tsk[p] EXCEPT !.expires = 0, !.callback = TRUE]
           m == SetTask(M, p, e)
<1>1. Safe(M, {}) /\ tsk[p] \in Entity /\ M.tsk = tsk /\ tsk \in [Task -> Entity] /\ M.dl = dl
  BY InvSafe, Zenon
<1>2. /\ e \in Entity /\ e.deadline = tsk[p].deadline /\ SameStatus(tsk[p], e)
      /\ e.dl_new = tsk[p].dl_new
  <2> DEFINE f == tsk[p]
  <2>1. f \in Entity /\ e = [f EXCEPT !.expires = 0, !.callback = TRUE]
    BY <1>1
  <2> HIDE DEF f, e
  <2>2. e \in Entity
    <3> DEFINE t == TRUE
               z == 0
    <3>1. t \in BOOLEAN /\ z \in Int /\ e = [f EXCEPT !.expires = z, !.callback = t]
      BY <2>1
    <3> HIDE DEF t, z
    <3> QED
      BY <2>1, <3>1, Zenon DEF Entity
  <2>3. e.deadline = f.deadline /\ SameStatus(f, e) /\ e.dl_new = f.dl_new
    BY <2>1 DEF Entity, SameStatus
  <2> QED
    BY <2>2, <2>3 DEF f
<1>3. tsk' = [tsk EXCEPT ![p] = e] /\ rq' = rq /\ dl' = dl /\ clock' = clock
  BY Zenon DEF TimerFire
<1> HIDE DEF e
<1>4. Good(m) /\ m.dl = dl /\ m.tsk = [tsk EXCEPT ![p] = e]
  BY <1>1, <1>2, SetTaskLemma, Zenon DEF Safe, SetTask
<1>5. M' = m
  BY <1>1, <1>3, Zenon DEF M, SetTask
<1>6. Good(M)'
  BY <1>4, <1>5, Zenon DEF Good, Caches
<1>7. tsk'[p] = e /\ \A q \in Task : q # p => tsk'[q] = tsk[q]
  BY <1>1, <1>3, SMT, Zenon, SMTT(40)
<1> QED
  BY <1>2, <1>3, <1>6, <1>7 DEF IInv, SameStatus

\* The passing of time preserves it.
LEMMA ClockTickInv ==
    ASSUME IInv, ClockTick
    PROVE  IInv'
<1>1. clock' \in Nat /\ clock' >= 1 /\ rq' = rq /\ dl' = dl /\ tsk' = tsk
  BY SMT, Zenon, SMTT(40) DEF IInv, ClockTick
<1>2. Good(M)'
  BY <1>1, SMT, Zenon, SMTT(40) DEF IInv, Good, Caches, M
<1> QED
  BY <1>1, <1>2, SMT, Zenon, SMTT(40) DEF IInv

\* dl_task_timer(): p comes back to the tree if it was throttled.  If its callback
\* finds p queued, the machine stops; if it finds p asleep, only the throttle goes.
LEMMA TimerInv ==
    ASSUME IInv, NEW p \in Task, dl_task_timer(p)
    PROVE  IInv'
<1> DEFINE e  == [tsk[p] EXCEPT !.callback = FALSE]
           e1 == [e EXCEPT !.dl_throttled = FALSE]
           m0 == SetTask(M, p, e)
           m1 == SetTask(M, p, e1)
           m2 == enqueue_task_dl(m1, p, TRUE)
           m  == IF ~dl_task(M, p) \/ tsk[p].dl_new THEN m0
                 ELSE IF ~tsk[p].on_rq THEN m1
                 ELSE IF task_has_dl_policy(m2, rq.curr) THEN check_preempt_curr_dl(m2, p)
                 ELSE resched_task(m2, rq.curr)
<1>1. /\ clock \in Nat /\ clock >= 1 /\ Safe(M, {}) /\ M.tsk = tsk /\ M.dl = dl /\ M.rq = rq
      /\ tsk[p] \in Entity /\ rq.curr \in Task \cup {Idle}
  BY InvSafe, SMT, Zenon, SMTT(40) DEF Runqueue
<1>2. /\ e \in Entity /\ e.deadline = tsk[p].deadline /\ SameStatus(tsk[p], e)
      /\ e.dl_new = tsk[p].dl_new
  <2> DEFINE f == tsk[p]
  <2>1. f \in Entity /\ e = [f EXCEPT !.callback = FALSE]
    BY <1>1
  <2> HIDE DEF f, e
  <2>2. e \in Entity /\ e.deadline = f.deadline /\ SameStatus(f, e) /\ e.dl_new = f.dl_new
    BY <2>1, Zenon DEF Entity, SameStatus
  <2> QED
    BY <2>2 DEF f
<1> HIDE DEF e
<1>3. /\ e1 \in Entity /\ e1.deadline = e.deadline /\ e1.on_rq = e.on_rq /\ e1.prio = e.prio
      /\ ~e1.dl_throttled /\ e1.dl_new = e.dl_new
  BY <1>2, ZenonT(60) DEF Entity
<1> HIDE DEF e1
<1>4. Safe(m0, {})
  BY <1>1, <1>2, SetTaskSafe, SMT, Zenon, SMTT(40)
<1>5. /\ Good(m1) /\ m1.rq = rq /\ m1.dl = dl /\ m1.tsk[p] = e1
      /\ \A q \in Task : q # p => m1.tsk[q] = tsk[q]
  BY <1>1, <1>2, <1>3, SetTaskLemma, SMTT(40), SMTT(60) DEF Safe
<1>6. Safe(m1, {p})
  <2> HIDE DEF m1
  <2> QED
    BY <1>1, <1>5, SMTT(40), SMTT(60) DEF Safe, Fit
<1>7. Member(dl.tree, p) => ~tsk[p].dl_new
  BY Zenon DEF IInv
<1>8. Safe(m, {})
  <2>1. CASE ~dl_task(M, p) \/ tsk[p].dl_new
    BY <1>4, <2>1, Zenon
  <2>2. CASE dl_task(M, p) /\ ~tsk[p].dl_new /\ ~tsk[p].on_rq
    <3>1. ~Member(dl.tree, p)
      BY <2>2 DEF IInv
    <3>2. ~e1.on_rq
      BY <1>2, <1>3, <2>2, Zenon DEF SameStatus
    <3> HIDE DEF m1
    <3>3. Fit(m1, p)
      BY <1>5, <3>1, <3>2 DEF Fit
    <3>4. Safe(m1, {})
      BY <1>6, <3>3, SMTT(40), SMTT(60) DEF Safe
    <3> QED
      BY <2>2, <3>4
  <2>3. CASE dl_task(M, p) /\ ~tsk[p].dl_new /\ tsk[p].on_rq
    <3>1. m1.tsk[p].on_rq /\ m1.tsk[p].prio = DL /\ ~m1.tsk[p].dl_throttled /\ ~m1.tsk[p].dl_new
      <4> HIDE DEF m1
      <4>1. tsk[p].prio = DL
        BY <1>1, <2>3 DEF dl_task
      <4> QED
        BY <1>2, <1>3, <1>5, <2>3, <4>1, Zenon DEF SameStatus
    <3> HIDE DEF m1
    <3>2. Safe(m2, {})
      BY <1>1, <1>6, <3>1, EnqueueTask, Zenon
    <3> HIDE DEF m2
    <3>3. Safe(check_preempt_curr_dl(m2, p), {}) /\ Safe(resched_task(m2, rq.curr), {})
      BY <1>1, <3>2, CheckPreempt, ReschedLemma
    <3> QED
      BY <2>3, <3>3, Zenon
  <2> QED
    BY <2>1, <2>2, <2>3, Zenon
<1>9. Commit(m) /\ UNCHANGED clock
  BY Zenon DEF dl_task_timer, e, e1
<1> HIDE DEF m
<1> QED
  BY <1>8, <1>9, CommitLemma

\* __setscheduler() yields a well-typed entity.
LEMMA SetschedulerType ==
    ASSUME NEW m, NEW e \in Entity, NEW policy \in {DL, NORMAL}
    PROVE  __setscheduler(m, e, policy) \in Entity
<1> DEFINE e1 == [e EXCEPT !.policy = policy]
           pr == rt_mutex_getprio(m, e1)
<1>1. e1 \in Entity
  BY DEF Entity
<1>2. pr \in {DL, NORMAL}
  BY DEF rt_mutex_getprio
<1>3. __setscheduler(m, e, policy) = [e1 EXCEPT !.prio = pr]
  BY DEF __setscheduler
<1> HIDE DEF e1, pr
<1> QED
  BY <1>1, <1>2, <1>3 DEF Entity

\* __setparam_dl() yields a well-typed entity.
LEMMA SetparamType ==
    ASSUME NEW e \in Entity, NEW prm \in Params
    PROVE  __setparam_dl(e, prm) \in Entity
<1> DEFINE f == hrtimer_try_to_cancel(e)
           q == prm.sched_runtime
           d == prm.sched_deadline
           t == IF prm.sched_period # 0 THEN prm.sched_period ELSE prm.sched_deadline
           no == FALSE
           yes == TRUE
<1>1. f \in Entity
  BY TimerCancel
<1>2. q \in Nat /\ d \in Nat /\ t \in Nat /\ no \in BOOLEAN /\ yes \in BOOLEAN
  BY ParamsAssumption
<1>3. __setparam_dl(e, prm) =
        [f EXCEPT !.dl_runtime = q, !.dl_deadline = d, !.dl_period = t,
                  !.dl_throttled = no, !.dl_new = yes]
  BY DEF __setparam_dl
<1> HIDE DEF f, q, d, t, no, yes
<1> QED
  BY <1>1, <1>2, <1>3, ZenonT(60) DEF Entity

\* Becoming SCHED_DEADLINE, or changing the reservation, preserves it.
LEMMA SetschedulerDlInv ==
    ASSUME IInv, NEW p \in Task, NEW prm \in Params, setscheduler_dl(p, prm)
    PROVE  IInv'
<1> DEFINE m1 == Detach(M, p)
           e  == __setscheduler(m1, __setparam_dl(m1.tsk[p], prm), DL)
           m2 == SetTask(m1, p, e)
<1>1. clock \in Nat /\ clock >= 1 /\ Safe(M, {})
  BY InvSafe
<1>2. Safe(m1, {p}) /\ ~Member(m1.dl.tree, p)
  BY <1>1, DetachLemma
<1>3. Commit(Attach(m2, p, tsk[p].prio, FALSE)) /\ UNCHANGED clock
  BY Zenon DEF setscheduler_dl
<1> HIDE DEF m1
<1>4. m1.tsk[p] \in Entity
  BY <1>2, GoodType, SMT, Zenon, SMTT(40) DEF Safe
<1>5. e \in Entity
  BY <1>4, SetparamType, SetschedulerType, SMT, Zenon, SMTT(40)
<1> HIDE DEF e
<1>6. Safe(m2, {p}) /\ ~Member(m2.dl.tree, p)
  BY <1>2, <1>5, OffTree
<1> HIDE DEF m2
<1>7. Safe(Attach(m2, p, tsk[p].prio, FALSE), {})
  BY <1>1, <1>6, AttachLemma, Zenon
<1> QED
  BY <1>3, <1>7, CommitLemma, Zenon

\* Leaving SCHED_DEADLINE preserves it.
LEMMA SetschedulerNormalInv ==
    ASSUME IInv, NEW p \in Task, setscheduler_normal(p)
    PROVE  IInv'
<1> DEFINE m1 == Detach(M, p)
           e  == __setscheduler(m1, m1.tsk[p], NORMAL)
           m2 == SetTask(m1, p, e)
<1>1. clock \in Nat /\ clock >= 1 /\ Safe(M, {})
  BY InvSafe
<1>2. Safe(m1, {p}) /\ ~Member(m1.dl.tree, p)
  BY <1>1, DetachLemma, Zenon
<1>3. Commit(Attach(m2, p, tsk[p].prio, FALSE)) /\ UNCHANGED clock
  BY Zenon DEF setscheduler_normal
<1> HIDE DEF m1
<1>4. m1.tsk[p] \in Entity
  BY <1>2, GoodType DEF Safe
<1>5. e \in Entity
  BY <1>4, SetschedulerType, SMT, Zenon, SMTT(40)
<1> HIDE DEF e
<1>6. Safe(m2, {p}) /\ ~Member(m2.dl.tree, p)
  BY <1>2, <1>5, OffTree
<1> HIDE DEF m2
<1>7. Safe(Attach(m2, p, tsk[p].prio, FALSE), {})
  BY <1>1, <1>6, AttachLemma, Zenon
<1> QED
  BY <1>3, <1>7, CommitLemma, Zenon

\* Lending a deadline to the owner of a mutex preserves it.
LEMMA RtMutexLockInv ==
    ASSUME IInv, NEW p \in Task, rt_mutex_lock(p)
    PROVE  IInv'
<1> DEFINE m == rt_mutex_setprio(M, p, DL, rq.curr)
<1>1. clock \in Nat /\ clock >= 1 /\ Safe(M, {}) /\ rq.curr \in Task
  BY InvSafe DEF rt_mutex_lock, dl_task
<1>2. Safe(m, {})
  BY <1>1, SetPrio, SMT, Zenon, SMTT(40)
<1>3. Commit(resched_task(m, rq.curr)) /\ UNCHANGED clock
  BY DEF rt_mutex_lock
<1> HIDE DEF m
<1>4. Safe(resched_task(m, rq.curr), {})
  BY <1>1, <1>2, ReschedLemma
<1> QED
  BY <1>3, <1>4, CommitLemma, SMT, Zenon, SMTT(40)

\* Waking the waiter and giving the borrowed deadline back preserves it.
LEMMA RtMutexUnlockInv ==
    ASSUME IInv, rt_mutex_unlock
    PROVE  IInv'
<1> DEFINE p == rq.curr
           w == tsk[p].pi_top
           m == Activate(M, w)
<1>1. clock \in Nat /\ clock >= 1 /\ Safe(M, {}) /\ p \in Task /\ tsk[p] \in Entity
  BY InvSafe, ZenonT(60) DEF rt_mutex_unlock
<1>2. w \in Task /\ tsk[p].policy \in {DL, NORMAL}
  BY <1>1 DEF rt_mutex_unlock, Entity
<1>3. Safe(m, {})
  BY <1>1, <1>2, ActivateLemma, Zenon
<1>4. Commit(rt_mutex_setprio(m, p, tsk[p].policy, NULL)) /\ UNCHANGED clock
  BY DEF rt_mutex_unlock
<1> HIDE DEF m
<1>5. Safe(rt_mutex_setprio(m, p, tsk[p].policy, NULL), {})
  BY <1>1, <1>2, <1>3, SetPrio, Zenon
<1> QED
  BY <1>4, <1>5, CommitLemma, Zenon

\* Every step preserves the invariant.
LEMMA StepInv == IInv /\ [Next]_vars => IInv'
<1> SUFFICES ASSUME IInv, [Next]_vars PROVE IInv'
  OBVIOUS
<1>1. clock \in Nat /\ clock >= 1 /\ Safe(M, {})
  BY InvSafe
<1>2. CASE ClockTick
  BY <1>2, ClockTickInv
<1>3. CASE task_tick_dl
  <2>1. Safe(update_curr_dl(M), {})
    BY <1>1, UpdateCurrSafe
  <2> QED
    BY <1>3, <2>1, CommitLemma DEF task_tick_dl
<1>4. CASE yield_task_dl
  BY <1>4, YieldInv
<1>5. CASE schedule(TRUE) \/ schedule(FALSE)
  BY <1>5, ScheduleInv, Zenon
<1>6. CASE rt_mutex_unlock
  BY <1>6, RtMutexUnlockInv
<1>7. ASSUME NEW p \in Task, wake_up(p) PROVE IInv'
  <2>1. Safe(Activate(M, p), {})
    BY <1>1, ActivateLemma
  <2> QED
    BY <1>7, <2>1, CommitLemma DEF wake_up
<1>8. ASSUME NEW p \in Task, TimerFire(p) PROVE IInv'
  BY <1>8, TimerFireInv
<1>9. ASSUME NEW p \in Task, dl_task_timer(p) PROVE IInv'
  BY <1>9, TimerInv
<1>10. ASSUME NEW p \in Task, setscheduler_normal(p) PROVE IInv'
  BY <1>10, SetschedulerNormalInv
<1>11. ASSUME NEW p \in Task, rt_mutex_lock(p) PROVE IInv'
  BY <1>11, RtMutexLockInv
<1>12. ASSUME NEW p \in Task, NEW prm \in Params, setscheduler_dl(p, prm) PROVE IInv'
  BY <1>12, SetschedulerDlInv
<1>13. CASE UNCHANGED vars
  <2>1. M' = M /\ clock' = clock /\ dl' = dl /\ tsk' = tsk
    BY <1>13, ZenonT(60) DEF vars, M
  <2>2. Good(M)'
    BY <2>1 DEF IInv, Good, Caches
  <2> QED
    BY <2>1, <2>2 DEF IInv
<1> QED
  BY <1>2, <1>3, <1>4, <1>5, <1>6, <1>7, <1>8, <1>9, <1>10, <1>11, <1>12, <1>13, Zenon DEF Next

\* What Good and Fit say, in the words of DlRq.
LEMMA InvImplies ==
    ASSUME IInv
    PROVE  TypeOK /\ EdfOrder /\ CachesAgree /\ QueuedSound /\ NoneLost
<1>1. M.rq = rq /\ M.dl = dl /\ M.tsk = tsk /\ Good(M)
  BY DEF M, IInv
<1>2. rq \in Runqueue /\ dl \in DlRunqueue /\ tsk \in [Task -> Entity] /\ dl.tree \in Seq(Task)
  BY <1>1, GoodType, SMT, Zenon, SMTT(40)
<1>3. TypeOK
  BY <1>2, SMT, Zenon, SMTT(40) DEF TypeOK, IInv
<1>4. EdfOrder
  BY <1>1 DEF Good, Ordered, EdfOrder
<1>5. CachesAgree
  BY <1>1, Zenon DEF Good, Caches, CachesAgree
<1>6. QueuedSound
  <2> SUFFICES ASSUME NEW i \in 1 .. Len(dl.tree)
               PROVE  LET e == tsk[dl.tree[i]]
                      IN  e.on_rq /\ e.prio = DL /\ ~e.dl_throttled /\ ~e.dl_new
    BY DEF QueuedSound
  <2>1. dl.tree[i] \in Task /\ Member(dl.tree, dl.tree[i])
    BY <1>2 DEF Member
  <2> QED
    BY <2>1, SMT, Zenon, SMTT(40) DEF IInv
<1>7. NoneLost
  <2>1. \A p : on_dl_rq(M, p) <=> Member(dl.tree, p)
    BY <1>1 DEF on_dl_rq, Member
  <2> QED
    BY <2>1 DEF IInv, NoneLost
<1> QED
  BY <1>3, <1>4, <1>5, <1>6, <1>7, Zenon

\* The inductive invariant holds of every reachable state of the runqueue: ordered
\* tree, exact caches, and exactly the runnable unthrottled -deadline tasks queued.
THEOREM Invariance == Spec => []IInv
  BY InitInv, StepInv, PTL DEF Spec

\* Type correctness of the runqueue, its entities and their timers.
THEOREM TypeCorrect == Spec => []TypeOK
  BY Invariance, InvImplies, PTL

\* The rb-tree stays in deadline order and the values cached about it agree with it,
\* whatever wake-ups, throttling, timers, policy changes and boosting do to it.
THEOREM TreeCorrect == Spec => []TreeCoherent
  BY Invariance, InvImplies, PTL DEF TreeCoherent

\* The tree holds exactly the runnable -deadline tasks that are not throttled: none
\* is queued that should not run, and none is lost.
THEOREM QueueExact == Spec => []ExactlyRunnable
  BY Invariance, InvImplies, PTL DEF ExactlyRunnable
=============================================================================
