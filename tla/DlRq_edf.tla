------------------------------ MODULE DlRq_edf ------------------------------
(***************************************************************************)
(* The constant bandwidth server and the order of deadlines, for any number *)
(* of tasks, any reservations and any horizon.                             *)
(*                                                                         *)
(* A task that keeps to the reservation it was admitted with has a budget  *)
(* within it, waits for its deadline with its timer set when the budget is *)
(* spent, and is preempted by an earlier one.  Priority inheritance and a  *)
(* change of policy under way end these promises (DlRq has the runs that   *)
(* show how), so the theorems are about specifications without them.       *)
(***************************************************************************)
EXTENDS DlRq_proofs
-----------------------------------------------------------------------------
(* The constant bandwidth server: what the updates of an entity do to its  *)
(* budget, its deadline and its timer.                                     *)

\* f is e with another instance of its job: reservation, priority and timer are kept.
Alike(e, f) ==
    /\ SameStatus(e, f)
    /\ f.dl_runtime = e.dl_runtime /\ f.dl_deadline = e.dl_deadline
    /\ f.dl_boosted = e.dl_boosted /\ f.pi_top = e.pi_top
    /\ f.expires = e.expires /\ f.callback = e.callback

\* The machine state with another entity for p.
LEMMA PutTask ==
    ASSUME Good(M), NEW p \in Task, NEW e \in Entity,
           ~Member(dl.tree, p) \/ e.deadline = tsk[p].deadline
    PROVE  LET n == SetTask(M, p, e)
           IN  /\ Good(n) /\ n.rq = rq /\ n.dl = dl /\ n.tsk[p] = e
               /\ \A q \in Task : q # p => n.tsk[q] = tsk[q]
<1>1. M.rq = rq /\ M.dl = dl /\ M.tsk = tsk
  BY DEF M
<1> QED
  BY <1>1, SetTaskLemma

\* The loop of replenish_dl_entity() ends with a budget that is positive and within
\* the reservation.
LEMMA BudgetRefilled ==
    ASSUME NEW v \in Int, NEW q \in Nat, q >= 1, v <= q
    PROVE  /\ v + Instances(v, q) * q >= 1
           /\ v + Instances(v, q) * q <= q
<1>1. CASE v > 0
  BY <1>1 DEF Instances
<1>2. CASE v <= 0
  <2> DEFINE k == (-v) \div q
             r == (-v) % q
  <2>1. k \in Int /\ r \in 0 .. (q - 1) /\ -v = q * k + r
    BY <1>2
  <2>2. Instances(v, q) = k + 1
    BY <1>2 DEF Instances
  <2> HIDE DEF k, r
  <2>3. (k + 1) * q = q * k + q
    BY <2>1
  <2> QED
    BY <2>1, <2>2, <2>3
<1> QED
  BY <1>1, <1>2

Instance(e, d, v) == [e EXCEPT !.deadline = d, !.runtime = v]

\* A new budget and a new deadline are all that a new instance changes.
LEMMA NewInstance ==
    ASSUME NEW e \in Entity, NEW d \in Int, NEW v \in Int
    PROVE  /\ Instance(e, d, v) \in Entity
           /\ Alike(e, Instance(e, d, v))
           /\ Instance(e, d, v).dl_new = e.dl_new
           /\ Instance(e, d, v).deadline = d
           /\ Instance(e, d, v).runtime = v
  BY Zenon DEF Instance, Entity, Alike, SameStatus

\* Renewing gives the whole budget of the entity that lends it.
LEMMA Renewed ==
    ASSUME clock \in Nat, NEW e \in Entity, NEW pi \in Entity
    PROVE  /\ Renew(e, pi) \in Entity /\ Alike(e, Renew(e, pi))
           /\ Renew(e, pi).dl_new = e.dl_new
           /\ Renew(e, pi).runtime = pi.dl_runtime
<1> DEFINE d == clock + pi.dl_deadline
           v == pi.dl_runtime
<1>1. d \in Int /\ v \in Int
  BY DEF Entity
<1>2. Renew(e, pi) = Instance(e, d, v)
  BY DEF Renew, Instance
<1> HIDE DEF d
<1> QED
  BY <1>1, <1>2, NewInstance

\* So does the first instance of a new entity.
LEMMA SetUp ==
    ASSUME clock \in Nat, NEW e \in Entity, NEW pi \in Entity
    PROVE  /\ Alike(e, setup_new_dl_entity(e, pi))
           /\ setup_new_dl_entity(e, pi).runtime = pi.dl_runtime
<1> DEFINE f == Renew(e, pi)
<1>1. f \in Entity /\ Alike(e, f) /\ f.runtime = pi.dl_runtime
  BY Renewed
<1>2. setup_new_dl_entity(e, pi) = [f EXCEPT !.dl_new = FALSE]
  BY DEF setup_new_dl_entity
<1> HIDE DEF f
<1> QED
  BY <1>1, <1>2 DEF Alike, SameStatus, Entity

\* update_dl_entity() keeps what it does not renew.
LEMMA Updated ==
    ASSUME clock \in Nat, NEW e \in Entity, NEW pi \in Entity
    PROVE  LET f == update_dl_entity(e, pi)
           IN  /\ Alike(e, f)
               /\ f.runtime = pi.dl_runtime \/ (f = e /\ ~e.dl_new)
<1>1. CASE e.dl_new
  BY <1>1, SetUp DEF update_dl_entity
<1>2. CASE ~e.dl_new
  BY <1>2, Renewed DEF update_dl_entity, Alike, SameStatus
<1> QED
  BY <1>1, <1>2

\* replenish_dl_entity() refills the budget, from the entity's own reservation to no
\* more than that.
LEMMA Replenish ==
    ASSUME clock \in Nat, NEW e \in Entity, NEW pi \in Entity, pi.dl_runtime > 0
    PROVE  LET f == replenish_dl_entity(e, pi)
           IN  /\ Alike(e, f)
               /\ pi = e /\ e.dl_deadline # 0 /\ e.runtime <= e.dl_runtime
                     => f.runtime >= 1 /\ f.runtime <= f.dl_runtime
<1> DEFINE e1 == IF e.dl_deadline = 0 THEN Renew(e, pi) ELSE e
           k  == Instances(e1.runtime, pi.dl_runtime)
           d  == e1.deadline + k * pi.dl_period
           v  == e1.runtime + k * pi.dl_runtime
           e2 == Instance(e1, d, v)
<1>1. e1 \in Entity /\ Alike(e, e1)
  BY Renewed DEF Alike, SameStatus
<1>2. /\ pi.dl_runtime \in Nat /\ pi.dl_period \in Nat
      /\ e1.runtime \in Int /\ e1.deadline \in Int /\ e.runtime \in Int
  BY <1>1 DEF Entity
<1>3. e.dl_deadline # 0 => e1 = e
  OBVIOUS
<1> HIDE DEF e1
<1>4. k \in Int
  BY <1>2 DEF Instances
<1>5. pi.dl_runtime >= 1
  BY <1>2
<1>6. e1.runtime <= pi.dl_runtime => v >= 1 /\ v <= pi.dl_runtime
  BY <1>2, <1>5, BudgetRefilled
<1> HIDE DEF k
<1>7. d \in Int /\ v \in Int
  BY <1>2, <1>4
<1> HIDE DEF d, v
<1>8. e2 \in Entity /\ Alike(e1, e2) /\ e2.runtime = v
  BY <1>1, <1>7, NewInstance
<1>9. replenish_dl_entity(e, pi) = IF dl_time_before(e2.deadline, clock) THEN Renew(e2, pi) ELSE e2
  BY DEF replenish_dl_entity, Instance, e1, k, d, v
<1> HIDE DEF e2
<1>10. Alike(e, e2)
  BY <1>1, <1>8 DEF Alike, SameStatus
<1>11. CASE dl_time_before(e2.deadline, clock)
  <2>1. Alike(e2, Renew(e2, pi)) /\ Renew(e2, pi).runtime = pi.dl_runtime
    BY <1>8, Renewed
  <2>2. Alike(e, Renew(e2, pi))
    BY <1>10, <2>1 DEF Alike, SameStatus
  <2>3. Renew(e2, pi).dl_runtime = e.dl_runtime
    BY <2>2 DEF Alike
  <2> QED
    BY <1>2, <1>5, <1>9, <1>11, <2>1, <2>2, <2>3, SMTT(40), SMTT(60)
<1>12. CASE ~dl_time_before(e2.deadline, clock)
  <2>1. e2.dl_runtime = e.dl_runtime
    BY <1>10 DEF Alike
  <2> QED
    BY <1>3, <1>6, <1>8, <1>9, <1>10, <1>12, <2>1, SMT, Zenon, SMTT(40)
<1> QED
  BY <1>11, <1>12

\* An entity that lives on its own reservation and has not been lent anything.
OwnBudget(e) ==
    /\ e.policy = DL /\ e.prio = DL /\ e.pi_top = NULL /\ ~e.dl_boosted
    /\ e.dl_runtime >= 1 /\ e.dl_deadline >= 1 /\ e.runtime <= e.dl_runtime

\* A task that never had a reservation has no budget of its own.
LEMMA Unreserved == \A e : e.dl_deadline = 0 => ~OwnBudget(e)
  BY DEF OwnBudget

\* The order of deadlines is reflexive.
LEMMA Reflexive == \A i \in Int : i <= i
  OBVIOUS

\* Without budget an entity waits for its deadline, unless that has come.
Funded(e) == e.runtime > 0 \/ e.deadline <= clock

\* n is m after p has been queued with a new or with its old instance.
Requeued(m, p, rep, n) ==
    /\ Good(n) /\ n.rq = m.rq
    /\ \A q \in Task : Member(n.dl.tree, q) <=> Member(m.dl.tree, q) \/ q = p
    /\ \A q \in Task : q # p => n.tsk[q] = m.tsk[q]
    /\ Alike(m.tsk[p], n.tsk[p]) /\ ~n.tsk[p].dl_new
    /\ OwnBudget(m.tsk[p]) /\ (rep \/ m.tsk[p].dl_new \/ Funded(m.tsk[p]))
          => OwnBudget(n.tsk[p]) /\ Funded(n.tsk[p])

\* enqueue_task_dl() finds p throttled, stops on one of two BUG_ONs, or queues p.
LEMMA EnqueueCases ==
    ASSUME clock \in Nat, clock >= 1, NEW m, Good(m), NEW p \in Task, NEW rep \in BOOLEAN,
           NEW n, n = enqueue_task_dl(m, p, rep)
    PROVE  \/ m.tsk[p].dl_throttled /\ n = m
           \/ ~m.tsk[p].dl_throttled /\ Member(m.dl.tree, p) /\ n = BUG_ON(m, "on_dl_rq")
           \/ rep /\ PiSe(m, p).dl_runtime = 0 /\ n = BUG_ON(m, "dl_runtime")
           \/ ~m.tsk[p].dl_throttled /\ ~Member(m.dl.tree, p) /\ Requeued(m, p, rep, n)
<1> DEFINE e  == m.tsk[p]
           pi == PiSe(m, p)
           r  == rep /\ ~e.dl_new
           g  == IF r THEN replenish_dl_entity(e, pi) ELSE update_dl_entity(e, pi)
           m1 == SetTask(m, p, g)
<1>1. e \in Entity /\ pi \in Entity
  <2>1. \A q \in Task : m.tsk[q] \in Entity
    BY GoodType
  <2>2. e.pi_top \in Task \cup {NULL}
    BY <2>1 DEF Entity
  <2> QED
    BY <2>1, <2>2 DEF PiSe
<1>2. pi.dl_runtime \in Nat /\ e.dl_runtime \in Nat /\ e.dl_deadline \in Nat /\ e.runtime \in Int
  BY <1>1 DEF Entity
<1>3. CASE e.dl_throttled
  BY <1>3, SMT, Zenon, SMTT(40) DEF enqueue_task_dl
<1>4. CASE ~e.dl_throttled /\ Member(m.dl.tree, p)
  BY <1>4 DEF enqueue_task_dl, on_dl_rq, Member
<1>5. CASE ~e.dl_throttled /\ ~Member(m.dl.tree, p) /\ r /\ pi.dl_runtime <= 0
  <2>1. n = BUG_ON(m, "dl_runtime")
    BY <1>5 DEF enqueue_task_dl, on_dl_rq, Member
  <2>2. pi.dl_runtime = 0
    BY <1>2, <1>5
  <2> QED
    BY <1>5, <2>1, <2>2, Zenon
<1>6. CASE ~e.dl_throttled /\ ~Member(m.dl.tree, p) /\ ~(r /\ pi.dl_runtime <= 0)
  <2>1. n = __enqueue_dl_entity(m1, p)
    BY <1>6 DEF enqueue_task_dl, on_dl_rq, Member
  <2>2. r => pi.dl_runtime > 0
    BY <1>2, <1>6, SMTT(40), SMTT(60)
  <2>3. g \in Entity /\ ~g.dl_new /\ g.deadline >= clock
    BY <1>1, <2>2, ReplenishEntity, UpdateEntity, SMT, Zenon, SMTT(40)
  <2>4. Alike(e, g)
    BY <1>1, <2>2, Replenish, Updated, ZenonT(60)
  <2>5. OwnBudget(e) /\ (rep \/ e.dl_new \/ Funded(e)) => OwnBudget(g) /\ Funded(g)
    <3> SUFFICES ASSUME OwnBudget(e), rep \/ e.dl_new \/ Funded(e)
                 PROVE  g.runtime <= g.dl_runtime /\ Funded(g)
      BY <2>4 DEF OwnBudget, Alike, SameStatus
    <3>1. pi = e
      BY ZenonT(60) DEF OwnBudget, PiSe
    <3>2. g.dl_runtime = e.dl_runtime /\ e.dl_runtime >= 1 /\ e.dl_deadline # 0
          /\ e.runtime <= e.dl_runtime
      BY <1>2, <2>4, SMT, Zenon, SMTT(40) DEF OwnBudget, Alike
    <3>3. CASE r
      <4>1. g.runtime >= 1 /\ g.runtime <= g.dl_runtime
        BY <1>1, <2>2, <3>1, <3>2, <3>3, Replenish, Zenon
      <4>2. g.runtime \in Int
        BY <2>3, ZenonT(60) DEF Entity
      <4> HIDE DEF g
      <4> QED
        BY <4>1, <4>2 DEF Funded
    <3>4. CASE ~r
      <4>1. g.runtime = pi.dl_runtime \/ (g = e /\ ~e.dl_new)
        BY <1>1, <3>4, Updated, Zenon
      <4>2. CASE g.runtime = pi.dl_runtime
        <5> HIDE DEF g
        <5> QED
          BY <1>2, <3>1, <3>2, <4>2, SMTT(40), SMTT(60) DEF Funded
      <4>3. CASE g = e /\ ~e.dl_new
        BY <3>2, <3>4, <4>3
      <4> QED
        BY <4>1, <4>2, <4>3, SMTT(40), SMTT(60)
    <3> QED
      BY <3>3, <3>4, ZenonT(60)
  <2>6. g.deadline > 0
    <3>1. g.deadline \in Int
      BY <2>3, Zenon DEF Entity
    <3> HIDE DEF g
    <3> QED
      BY <2>3, <3>1, SMTT(40), SMTT(60)
  <2> HIDE DEF g
  <2>7. /\ Good(m1) /\ m1.rq = m.rq /\ m1.dl = m.dl /\ m1.tsk[p] = g
        /\ \A q \in Task : q # p => m1.tsk[q] = m.tsk[q]
    BY <1>6, <2>3, SetTaskLemma, SMTT(40), SMTT(60)
  <2> HIDE DEF m1
  <2>8. /\ Good(n) /\ n.rq = m1.rq /\ n.tsk = m1.tsk
        /\ \A q \in Task : Member(n.dl.tree, q) <=> Member(m1.dl.tree, q) \/ q = p
    BY <1>6, <2>1, <2>6, <2>7, EnqueueEntity, SMTT(40), SMTT(60)
  <2>9. Requeued(m, p, rep, n)
    BY <2>3, <2>4, <2>5, <2>7, <2>8, ZenonT(60) DEF Requeued
  <2> QED
    BY <1>6, <2>9
<1> QED
  BY <1>3, <1>4, <1>5, <1>6, Zenon
-----------------------------------------------------------------------------
(* The constant bandwidth server: machine states.                          *)

\* The bandwidth timer of a throttled entity is set to its deadline, or its callback
\* is under way; yield_task_dl() may have set dl_new since.
Timed(e) ==
    /\ e.expires # 0 => e.expires = e.deadline /\ ~e.callback
    /\ e.callback => e.deadline <= clock
    /\ e.expires # 0 \/ e.callback => e.dl_throttled
    /\ e.dl_throttled => e.expires # 0 \/ e.callback \/ e.dl_new

\* Not (or not yet) of the deadline class.
Fair(e) ==
    /\ e.policy = NORMAL /\ e.prio = NORMAL /\ e.pi_top = NULL /\ ~e.dl_boosted
    /\ e.runtime <= 0 /\ ~e.dl_throttled

Quiet(e) == ~e.dl_throttled /\ e.expires = 0 /\ ~e.callback

\* The rules of the constant bandwidth server for one entity.
Cbs(e) ==
    /\ Timed(e)
    /\ \/ Fair(e)
       \/ OwnBudget(e) /\ (e.dl_throttled \/ e.dl_new \/ Funded(e))

\* They hold of all tasks but those of X, and no BUG_ON has been met.
Kept(m, X) == m.rq.bug = "none" /\ \A q \in Task \ X : Cbs(m.tsk[q])

\* An exception that is none.
LEMMA KeptAll ==
    ASSUME NEW m, NEW p \in Task, Kept(m, {p}), Cbs(m.tsk[p])
    PROVE  Kept(m, {})
  BY SMT, Zenon, SMTT(40) DEF Kept

\* enqueue_task_dl() queues p by the rules and meets no BUG_ON.
LEMMA EnqueueKept ==
    ASSUME clock \in Nat, clock >= 1, NEW m, Good(m), NEW p \in Task, NEW rep \in BOOLEAN,
           Kept(m, {p}), OwnBudget(m.tsk[p]), Quiet(m.tsk[p]), ~Member(m.dl.tree, p),
           rep \/ m.tsk[p].dl_new \/ Funded(m.tsk[p])
    PROVE  Kept(enqueue_task_dl(m, p, rep), {})
<1> DEFINE n == enqueue_task_dl(m, p, rep)
<1>1. PiSe(m, p).dl_runtime # 0
  <2>1. PiSe(m, p) = m.tsk[p]
    BY Zenon DEF OwnBudget, PiSe
  <2>2. m.tsk[p].dl_runtime \in Nat /\ m.tsk[p].dl_runtime >= 1
    BY GoodType, Zenon DEF OwnBudget, Entity
  <2> QED
    BY <2>1, <2>2, SMTT(40), SMTT(60)
<1>2. Requeued(m, p, rep, n)
  BY <1>1, EnqueueCases, SMT, Zenon, SMTT(40) DEF Quiet
<1> HIDE DEF n
<1>3. n.rq = m.rq /\ \A q \in Task : q # p => n.tsk[q] = m.tsk[q]
  BY <1>2 DEF Requeued
<1>4. OwnBudget(n.tsk[p]) /\ Funded(n.tsk[p]) /\ Alike(m.tsk[p], n.tsk[p])
  BY <1>2, Zenon DEF Requeued
<1>5. Cbs(n.tsk[p])
  BY <1>4, SMT, Zenon, SMTT(40) DEF Cbs, Timed, Quiet, Alike, SameStatus
<1> QED
  BY <1>3, <1>5, SMT, Zenon, SMTT(40) DEF Kept, n

\* resched_task() does not touch entities.
LEMMA ReschedKept ==
    ASSUME NEW m, Good(m), NEW X, NEW p \in Task \cup {Idle}, Kept(m, X)
    PROVE  Kept(resched_task(m, p), X)
<1>1. resched_task(m, p).tsk = m.tsk /\ resched_task(m, p).rq.bug = m.rq.bug
  BY GoodType, SMTT(40), SMTT(60) DEF resched_task, SetRq, Runqueue
<1> QED
  BY <1>1 DEF Kept

\* Throttled, an entity has its timer set; if that cannot be, it has a new budget.
LEMMA ThrottleKept ==
    ASSUME clock \in Nat, clock >= 1, NEW m, NEW p \in Task, Safe(m, {p}),
           Kept(m, {p}), OwnBudget(m.tsk[p]), Quiet(m.tsk[p]), m.tsk[p].on_rq
    PROVE  Kept(Throttle(m, p), {})
<1> DEFINE m1 == __dequeue_dl_entity(m, p)
           e  == m1.tsk[p]
           g  == [start_dl_timer(e) EXCEPT !.dl_throttled = TRUE]
           m2 == IF CanStartTimer(e) THEN SetTask(m1, p, g) ELSE enqueue_task_dl(m1, p, TRUE)
<1>1. Safe(m1, {p}) /\ ~Member(m1.dl.tree, p) /\ m1.tsk = m.tsk /\ m1.rq = m.rq
  BY DequeueSafe, DequeueEntity, Zenon DEF Safe
<1> HIDE DEF m1
<1>2. Good(m1) /\ Kept(m1, {p}) /\ OwnBudget(e) /\ Quiet(e) /\ e \in Entity /\ e.on_rq /\ e.prio = DL
  BY <1>1, GoodType, SMT, Zenon, SMTT(40) DEF Safe, Kept, OwnBudget
<1>3. Safe(m2, {}) /\ Kept(m2, {})
  <2>1. CASE CanStartTimer(e)
    <3>1. e.deadline \in Int /\ e.deadline >= clock
      BY <1>2, <2>1 DEF CanStartTimer, dl_time_before, Entity
    <3> HIDE DEF e
    <3>2. /\ g \in Entity /\ g.dl_throttled /\ g.expires = e.deadline /\ g.deadline = e.deadline
          /\ g.callback = e.callback /\ g.runtime = e.runtime
          /\ g.policy = e.policy /\ g.prio = e.prio /\ g.pi_top = e.pi_top
          /\ g.dl_boosted = e.dl_boosted
          /\ g.dl_runtime = e.dl_runtime /\ g.dl_deadline = e.dl_deadline
      BY <1>2, Zenon DEF Entity, start_dl_timer
    <3> HIDE DEF g
    <3>3. Cbs(g)
      <4>1. OwnBudget(g)
        BY <1>2, <3>2 DEF OwnBudget
      <4>2. g.expires # 0 /\ ~g.callback
        BY <1>2, <3>1, <3>2, SMTT(40), SMTT(60) DEF Quiet
      <4> QED
        BY <3>2, <4>1, <4>2, Zenon DEF Cbs, Timed
    <3> DEFINE n == SetTask(m1, p, g)
    <3>4. /\ n.rq = m1.rq /\ n.tsk[p] = g /\ \A q \in Task : q # p => n.tsk[q] = m1.tsk[q]
      BY <1>1, <1>2, <3>2, SetTaskLemma, SMT, Zenon, SMTT(40)
    <3>5. Safe(n, {})
      BY <1>1, <3>2, OffTree, Zenon
    <3> HIDE DEF n
    <3>6. Kept(n, {})
      BY <1>2, <3>3, <3>4, SMT, Zenon, SMTT(40) DEF Kept
    <3> QED
      BY <2>1, <3>5, <3>6, Zenon DEF n
  <2>2. CASE ~CanStartTimer(e)
    BY <1>1, <1>2, <2>2, EnqueueTask, EnqueueKept, Zenon
  <2> QED
    BY <2>1, <2>2, Zenon
<1>4. Throttle(m, p) = IF m2.dl.leftmost # p THEN resched_task(m2, p) ELSE m2
  BY DEF Throttle, m1
<1> HIDE DEF m2
<1> QED
  BY <1>3, <1>4, ReschedKept DEF Safe
\* What update_curr_dl() charges is taken from the budget alone.
LEMMA Charge ==
    ASSUME clock \in Nat, NEW f \in Entity, NEW v \in Int
    PROVE  LET e == [f EXCEPT !.runtime = v]
               c == ChargeMiss(e)
           IN  /\ e \in Entity /\ Alike(f, e) /\ e.deadline = f.deadline /\ e.runtime = v
               /\ c \in Entity /\ Alike(f, c) /\ c.deadline = f.deadline
               /\ c.runtime <= e.runtime
<1> DEFINE e == [f EXCEPT !.runtime = v]
           c == ChargeMiss(e)
           w == (IF e.runtime <= 0 THEN e.runtime ELSE 0) - (clock - e.deadline)
<1>1. f.deadline \in Int /\ e = Instance(f, f.deadline, v)
  BY Zenon DEF Instance, Entity
<1> HIDE DEF e
<1>2. e \in Entity /\ Alike(f, e) /\ e.deadline = f.deadline /\ e.runtime = v
  BY <1>1, NewInstance
<1>3. w \in Int /\ (dl_time_before(e.deadline, clock) => w <= e.runtime)
  BY <1>1, <1>2 DEF dl_time_before
<1>4. c = IF dl_time_before(e.deadline, clock) THEN [e EXCEPT !.runtime = w] ELSE e
  BY DEF ChargeMiss
<1> HIDE DEF w, c
<1>5. c \in Entity /\ Alike(f, c) /\ c.deadline = f.deadline /\ c.runtime <= e.runtime
  <2>1. CASE c = e
    BY <1>2, <2>1
  <2>2. CASE c = [e EXCEPT !.runtime = w] /\ dl_time_before(e.deadline, clock)
    <3>1. c = Instance(e, e.deadline, w)
      BY <1>2, <2>2, Zenon DEF Instance, Entity
    <3>2. c \in Entity /\ Alike(e, c) /\ c.deadline = e.deadline /\ c.runtime = w
      BY <1>1, <1>2, <1>3, <3>1, NewInstance, SMT, Zenon, SMTT(40)
    <3>3. Alike(f, c)
      BY <1>2, <3>2, SMT, Zenon, SMTT(40) DEF Alike, SameStatus
    <3> QED
      BY <1>2, <1>3, <2>2, <3>2, <3>3
  <2> QED
    BY <1>4, <2>1, <2>2
<1> QED
  BY <1>2, <1>5 DEF e, c

\* update_curr_dl() charges the running task by the rules, and throttles it.  If curr
\* is queued, yield_task_dl() may have set dl_new and taken its budget away.
LEMMA UpdateCurrKept ==
    ASSUME clock \in Nat, clock >= 1, NEW m, Good(m),
           \A q \in Task : q # m.rq.curr => Fit(m, q), Kept(m, {m.rq.curr}),
           m.rq.curr \in Task =>
              LET e == m.tsk[m.rq.curr]
              IN  IF Member(m.dl.tree, m.rq.curr)
                  THEN e.on_rq /\ OwnBudget(e) /\ Quiet(e) ELSE Cbs(e)
    PROVE  Kept(update_curr_dl(m), {})
<1> DEFINE p == m.rq.curr
           v == m.tsk[p].runtime - delta_exec(m)
           e == [m.tsk[p] EXCEPT !.runtime = v]
           c == ChargeMiss(e)
           x == [m.rq EXCEPT !.exec_start = clock]
<1>1. CASE p \notin Task
  <2>1. update_curr_dl(m) = m
    BY <1>1 DEF update_curr_dl, dl_task
  <2> QED
    BY <1>1, <2>1, Zenon DEF Kept
<1>2. CASE p \in Task /\ ~Member(m.dl.tree, p)
  <2>1. update_curr_dl(m) = m
    BY <1>2 DEF update_curr_dl, on_dl_rq, Member
  <2> QED
    BY <1>2, <2>1, KeptAll, SMT, Zenon, SMTT(40)
<1>3. CASE p \in Task /\ Member(m.dl.tree, p)
  <2>1. m.tsk[p] \in Entity /\ m.rq \in Runqueue
    BY <1>3, GoodType
  <2>2. m.tsk[p].on_rq /\ OwnBudget(m.tsk[p]) /\ Quiet(m.tsk[p])
    BY <1>3, Zenon
  <2>3. v \in Int /\ v <= m.tsk[p].runtime
    <3>1. m.tsk[p].runtime \in Int /\ m.rq.exec_start \in Nat
      BY <2>1, Zenon DEF Entity, Runqueue
    <3> QED
      BY <3>1 DEF delta_exec
  <2>4. dl_task(m, p)
    BY <1>3, <2>2, Zenon DEF dl_task, OwnBudget
  <2>5. update_curr_dl(m) =
           IF dl_runtime_exceeded(e)
           THEN Throttle(SetTask(SetRq(m, x), p, c), p)
           ELSE SetTask(SetRq(m, x), p, e)
    BY <1>3, <2>4 DEF update_curr_dl, on_dl_rq, Member
  <2>6. x \in Runqueue /\ x.bug = m.rq.bug
    BY <2>1, Zenon DEF Runqueue
  <2> HIDE DEF v, x
  <2>7. /\ e \in Entity /\ Alike(m.tsk[p], e)
        /\ e.deadline = m.tsk[p].deadline /\ e.runtime = v
        /\ c \in Entity /\ Alike(m.tsk[p], c)
        /\ c.deadline = m.tsk[p].deadline /\ c.runtime <= e.runtime
    BY <2>1, <2>3, Charge, Zenon
  <2> HIDE DEF e, c
  <2> DEFINE m0 == SetRq(m, x)
  <2>8. Safe(m, {p})
    BY DEF Safe
  <2>9. Safe(m0, {p}) /\ m0.tsk = m.tsk /\ m0.dl = m.dl /\ m0.rq = x
    BY <2>6, <2>8, SetRqLemma, Zenon DEF SetRq
  <2> HIDE DEF m0
  <2>10. ASSUME NEW f \in Entity, f.deadline = m.tsk[p].deadline,
                Alike(m.tsk[p], f), f.runtime <= m.tsk[p].runtime
         PROVE  LET m1 == SetTask(m0, p, f)
                IN  /\ Safe(m1, {p}) /\ m1.tsk[p] = f /\ Kept(m1, {p})
                    /\ OwnBudget(f) /\ Quiet(f) /\ f.on_rq
    <3> DEFINE m1 == SetTask(m0, p, f)
    <3>1. /\ Good(m1) /\ m1.rq = m0.rq /\ m1.dl = m0.dl /\ m1.tsk[p] = f
          /\ \A q \in Task : q # p => m1.tsk[q] = m0.tsk[q]
      BY <1>3, <2>9, <2>10, SetTaskLemma, SMTT(40), SMTT(60) DEF Safe
    <3> HIDE DEF m1
    <3>2. Safe(m1, {p})
      BY <2>9, <3>1 DEF Safe, Fit
    <3>3. Kept(m1, {p})
      BY <2>6, <2>9, <3>1, Zenon DEF Kept
    <3>4. f.runtime \in Int /\ m.tsk[p].runtime \in Int /\ f.dl_runtime \in Nat
      BY <2>1, ZenonT(60) DEF Entity
    <3>5. OwnBudget(f)
      BY <2>2, <2>10, <3>4, SMT, Zenon, SMTT(40) DEF OwnBudget, Alike, SameStatus
    <3>6. Quiet(f) /\ f.on_rq
      BY <2>2, <2>10, Zenon DEF Quiet, Alike, SameStatus
    <3> QED
      BY <3>1, <3>2, <3>3, <3>5, <3>6, ZenonT(60) DEF m1
  <2>11. CASE dl_runtime_exceeded(e)
    <3> DEFINE m1 == SetTask(m0, p, c)
    <3>1. c.runtime <= m.tsk[p].runtime
      <4>1. c.runtime \in Int /\ m.tsk[p].runtime \in Int
        BY <2>1, <2>7, Zenon DEF Entity
      <4> QED
        BY <2>3, <2>7, <4>1, SMT, Zenon, SMTT(40)
    <3>2. /\ Safe(m1, {p}) /\ m1.tsk[p] = c /\ Kept(m1, {p})
          /\ OwnBudget(c) /\ Quiet(c) /\ c.on_rq
      BY <2>7, <2>10, <3>1, ZenonT(60)
    <3> HIDE DEF m1
    <3>3. Kept(Throttle(m1, p), {})
      BY <1>3, <3>2, ThrottleKept
    <3> QED
      BY <2>5, <2>11, <3>3, ZenonT(60) DEF m0, m1
  <2>12. CASE ~dl_runtime_exceeded(e)
    <3> DEFINE m1 == SetTask(m0, p, e)
    <3>1. /\ m1.tsk[p] = e /\ Kept(m1, {p}) /\ OwnBudget(e) /\ Quiet(e)
      BY <2>3, <2>7, <2>10, ZenonT(60)
    <3>2. e.runtime > 0
      BY <2>3, <2>7, <2>12, SMT, Zenon, SMTT(40) DEF dl_runtime_exceeded
    <3> HIDE DEF m1
    <3>3. Cbs(e)
      BY <3>1, <3>2, Zenon DEF Cbs, Timed, Quiet, Funded
    <3>4. Kept(m1, {})
      BY <1>3, <3>1, <3>3, KeptAll, ZenonT(60)
    <3> QED
      BY <2>5, <2>12, <3>4, Zenon DEF m0, m1
  <2> QED
    BY <2>11, <2>12, Zenon
<1> QED
  BY <1>1, <1>2, <1>3, SMT, Zenon, SMTT(40)

\* A task that the rules hold of is of the deadline class by its own reservation; in
\* the tree, its timer is not running.
LEMMA QueuedCbs ==
    ASSUME NEW m, Safe(m, {}), Kept(m, {}), NEW p \in Task
    PROVE  /\ Cbs(m.tsk[p])
           /\ m.tsk[p].prio = DL => OwnBudget(m.tsk[p])
           /\ ~m.tsk[p].dl_throttled => Quiet(m.tsk[p])
           /\ Member(m.dl.tree, p) =>
                 m.tsk[p].on_rq /\ OwnBudget(m.tsk[p]) /\ Quiet(m.tsk[p])
<1>1. Cbs(m.tsk[p])
  BY DEF Kept
<1>2. m.tsk[p].prio = DL => OwnBudget(m.tsk[p])
  BY <1>1, Zenon DEF Cbs, Fair, DL, NORMAL
<1>3. ~m.tsk[p].dl_throttled => Quiet(m.tsk[p])
  <2>1. m.tsk[p] \in Entity
    BY GoodType DEF Safe
  <2>2. m.tsk[p].callback \in BOOLEAN
    BY <2>1 DEF Entity
  <2> QED
    BY <1>1, <2>2 DEF Cbs, Timed, Quiet
<1>4. Member(m.dl.tree, p) => m.tsk[p].on_rq /\ m.tsk[p].prio = DL /\ ~m.tsk[p].dl_throttled
  BY Zenon DEF Safe, Fit
<1> QED
  BY <1>1, <1>2, <1>3, <1>4

\* update_curr_dl() from a state where the rules hold of every task.
LEMMA UpdateKept ==
    ASSUME clock \in Nat, clock >= 1, NEW m, Safe(m, {}), Kept(m, {})
    PROVE  Kept(update_curr_dl(m), {})
<1>1. \A p \in Task : Cbs(m.tsk[p]) /\ (Member(m.dl.tree, p) =>
                 m.tsk[p].on_rq /\ OwnBudget(m.tsk[p]) /\ Quiet(m.tsk[p]))
  BY QueuedCbs
<1>2. Kept(m, {m.rq.curr}) /\ Good(m) /\ \A q \in Task : q # m.rq.curr => Fit(m, q)
  BY DEF Kept, Safe
<1> QED
  BY <1>1, <1>2, UpdateCurrKept, SMTT(40), SMTT(60)

\* So does dequeue_task().
LEMMA DequeueKept ==
    ASSUME clock \in Nat, clock >= 1, NEW m, Safe(m, {}), Kept(m, {}), NEW p \in Task
    PROVE  Kept(dequeue_task(m, p), {})
<1>1. CASE m.tsk[p].on_rq /\ dl_task(m, p)
  <2> DEFINE m1 == update_curr_dl(m)
             n == __dequeue_dl_entity(m1, p)
  <2>1. Safe(m1, {}) /\ Kept(m1, {})
    BY UpdateCurrSafe, UpdateKept
  <2> HIDE DEF m1
  <2>2. n.rq = m1.rq /\ n.tsk = m1.tsk
    BY <2>1, DequeueEntity DEF Safe
  <2> HIDE DEF n
  <2>3. Kept(n, {})
    BY <2>1, <2>2 DEF Kept
  <2> QED
    BY <1>1, <2>3 DEF dequeue_task, dequeue_task_dl, n, m1
<1>2. CASE ~(m.tsk[p].on_rq /\ dl_task(m, p))
  BY <1>2 DEF dequeue_task
<1> QED
  BY <1>1, <1>2
-----------------------------------------------------------------------------
(* The constant bandwidth server: steps.                                   *)

CbsInv == rq.bug = "none" /\ \A q \in Task : Cbs(tsk[q])

\* Nobody lends a deadline, changes a reservation or leaves the class.
OwnServices == Services \subseteq {"yield", "admit"}

\* The rules, as a predicate of the current machine state.
LEMMA InvKept ==
    ASSUME IInv, CbsInv
    PROVE  Kept(M, {})
  BY InvSafe DEF CbsInv, Kept

\* Committing a machine state that keeps the rules.
LEMMA CommitKept ==
    ASSUME NEW m, Kept(m, {}), Commit(m), UNCHANGED clock
    PROVE  CbsInv'
  BY DEF Kept, Commit, CbsInv, Cbs, Timed, Funded

\* Entities that differ in nothing the rules speak of.
LEMMA SameCbs ==
    ASSUME NEW e \in Entity, NEW f \in Entity, Cbs(e), f.on_rq \in BOOLEAN,
           f.policy = e.policy, f.prio = e.prio, f.pi_top = e.pi_top,
           f.dl_boosted = e.dl_boosted, f.dl_runtime = e.dl_runtime,
           f.dl_deadline = e.dl_deadline, f.runtime = e.runtime, f.deadline = e.deadline,
           f.dl_throttled = e.dl_throttled, f.dl_new = e.dl_new, f.expires = e.expires,
           f.callback = e.callback
    PROVE  Cbs(f)
  BY DEF Cbs, Timed, Fair, OwnBudget, Funded

Woken(e, b) == [e EXCEPT !.on_rq = b]

\* Waking up and falling asleep change on_rq alone.
LEMMA WokenLemma ==
    ASSUME NEW e \in Entity, NEW b \in BOOLEAN
    PROVE  /\ Woken(e, b) \in Entity
           /\ Woken(e, b).on_rq = b
           /\ Woken(e, b).deadline = e.deadline /\ Woken(e, b).prio = e.prio
           /\ Woken(e, b).dl_throttled = e.dl_throttled
           /\ Woken(e, b).dl_new = e.dl_new
           /\ Cbs(e) => Cbs(Woken(e, b))
           /\ OwnBudget(e) => OwnBudget(Woken(e, b))
           /\ Quiet(e) => Quiet(Woken(e, b))
           /\ Funded(e) => Funded(Woken(e, b))
<1> DEFINE f == Woken(e, b)
<1>1. /\ f \in Entity /\ f.on_rq = b
      /\ f.policy = e.policy /\ f.prio = e.prio /\ f.pi_top = e.pi_top
      /\ f.dl_boosted = e.dl_boosted /\ f.dl_runtime = e.dl_runtime
      /\ f.dl_deadline = e.dl_deadline /\ f.runtime = e.runtime /\ f.deadline = e.deadline
      /\ f.dl_throttled = e.dl_throttled /\ f.dl_new = e.dl_new /\ f.expires = e.expires
      /\ f.callback = e.callback
  BY DEF Woken, Entity
<1> HIDE DEF f
<1>2. Cbs(e) => Cbs(f)
  BY <1>1, SameCbs, Zenon
<1>3. (OwnBudget(e) => OwnBudget(f)) /\ (Quiet(e) => Quiet(f)) /\ (Funded(e) => Funded(f))
  BY <1>1 DEF OwnBudget, Quiet, Funded
<1> QED
  BY <1>1, <1>2, <1>3 DEF f

\* A change of p by the rules.
LEMMA SetTaskKept ==
    ASSUME NEW m, Good(m), NEW p \in Task, Kept(m, {p}), NEW e \in Entity
    PROVE  /\ Kept(SetTask(m, p, e), {p})
           /\ Cbs(e) => Kept(SetTask(m, p, e), {})
<1> DEFINE n == SetTask(m, p, e)
<1>1. n.rq = m.rq /\ n.tsk[p] = e /\ \A q \in Task : q # p => n.tsk[q] = m.tsk[q]
  BY GoodType DEF SetTask
<1> HIDE DEF n
<1>2. Kept(n, {p}) /\ (Cbs(e) => Kept(n, {}))
  BY <1>1 DEF Kept
<1> QED
  BY <1>2, Zenon DEF n

\* Neither preemption check touches entities.
LEMMA CheckPreemptKept ==
    ASSUME NEW m, Safe(m, {}), Kept(m, {}), NEW p
    PROVE  /\ Kept(check_preempt_curr_dl(m, p), {})
           /\ Kept(check_preempt_curr(m, p), {})
<1>1. Kept(resched_task(m, m.rq.curr), {})
  BY ReschedKept, CurrType DEF Safe
<1>2. Kept(check_preempt_curr_dl(m, p), {})
  BY <1>1 DEF check_preempt_curr_dl
<1> QED
  BY <1>1, <1>2 DEF check_preempt_curr

\* A woken task continues its instance if that still fits its bandwidth.
LEMMA ActivateKept ==
    ASSUME clock \in Nat, clock >= 1, NEW m, Safe(m, {}), Kept(m, {}), NEW p \in Task,
           ~m.tsk[p].on_rq
    PROVE  Kept(Activate(m, p), {})
<1> DEFINE e  == Woken(m.tsk[p], TRUE)
           m1 == SetTask(m, p, e)
           m2 == enqueue_task(m1, p, FALSE)
<1>1. m.tsk[p] \in Entity /\ Good(m) /\ Kept(m, {p}) /\ ~Member(m.dl.tree, p)
  BY GoodType, Zenon DEF Safe, Kept, Fit
<1>2. /\ Cbs(m.tsk[p]) /\ (m.tsk[p].prio = DL => OwnBudget(m.tsk[p]))
      /\ (~m.tsk[p].dl_throttled => Quiet(m.tsk[p]))
      /\ OwnBudget(m.tsk[p]) => m.tsk[p].dl_throttled \/ m.tsk[p].dl_new \/ Funded(m.tsk[p])
  BY QueuedCbs, ZenonT(60) DEF Cbs, Fair, OwnBudget, DL, NORMAL
<1>3. /\ e \in Entity /\ e.on_rq /\ e.prio = m.tsk[p].prio
      /\ e.dl_throttled = m.tsk[p].dl_throttled /\ e.dl_new = m.tsk[p].dl_new
      /\ e.deadline = m.tsk[p].deadline /\ Cbs(e)
      /\ (OwnBudget(m.tsk[p]) => OwnBudget(e))
      /\ (Quiet(m.tsk[p]) => Quiet(e)) /\ (Funded(m.tsk[p]) => Funded(e))
  BY <1>1, <1>2, WokenLemma, Zenon
<1> HIDE DEF e
<1>4. /\ Good(m1) /\ m1.rq = m.rq /\ m1.dl = m.dl /\ m1.tsk[p] = e
      /\ \A q \in Task : q # p => m1.tsk[q] = m.tsk[q]
  BY <1>1, <1>3, SetTaskLemma
<1>5. Kept(m1, {p}) /\ Kept(m1, {})
  BY <1>1, <1>3, SetTaskKept, ZenonT(60)
<1> HIDE DEF m1
<1>6. Safe(m1, {p}) /\ ~Member(m1.dl.tree, p)
  BY <1>1, <1>4 DEF Safe, Fit
<1>7. Safe(m2, {})
  BY <1>6, EnqueueSafe, Zenon
<1>8. Kept(m2, {})
  <2>1. CASE m1.tsk[p].on_rq /\ dl_task(m1, p)
    <3>1. m2 = enqueue_task_dl(m1, p, FALSE)
      BY <2>1, ZenonT(60) DEF enqueue_task
    <3>2. OwnBudget(e)
      BY <1>2, <1>3, <1>4, <2>1 DEF dl_task
    <3>3. CASE e.dl_throttled
      BY <1>4, <1>5, <3>1, <3>3, Zenon DEF enqueue_task_dl
    <3>4. CASE ~e.dl_throttled
      <4>1. Quiet(e) /\ (e.dl_new \/ Funded(e))
        BY <1>2, <1>3, <1>4, <2>1, <3>4, SMT, Zenon, SMTT(40) DEF dl_task
      <4> QED
        BY <1>4, <1>5, <1>6, <3>1, <3>2, <4>1, EnqueueKept, ZenonT(60)
    <3> QED
      BY <3>3, <3>4, Zenon
  <2>2. CASE ~(m1.tsk[p].on_rq /\ dl_task(m1, p))
    BY <1>5, <2>2, Zenon DEF enqueue_task
  <2> QED
    BY <2>1, <2>2, Zenon
<1>9. Activate(m, p) = check_preempt_curr(m2, p)
  BY DEF Activate, m1, e, Woken
<1> HIDE DEF m2
<1> QED
  BY <1>7, <1>8, <1>9, CheckPreemptKept

\* schedule() charges the task that stops and touches no other.
LEMMA ScheduleKept ==
    ASSUME IInv, CbsInv, NEW sleep \in BOOLEAN, schedule(sleep)
    PROVE  CbsInv'
<1> DEFINE prev == rq.curr
           m1 == IF sleep THEN Deactivate(M, prev) ELSE M
           m2 == put_prev_task(m1, prev)
           x(next) == [m2.rq EXCEPT !.curr = next, !.resched = @ \ {prev}]
<1>1. /\ clock \in Nat /\ clock >= 1 /\ Safe(M, {}) /\ prev \in Task \cup {Idle}
      /\ Kept(M, {})
  BY InvSafe, InvKept, SMT, Zenon, SMTT(40) DEF Runqueue
<1>2. Safe(m1, {}) /\ Kept(m1, {})
  <2>1. CASE sleep
    <3> DEFINE d == dequeue_task(M, prev)
               e == Woken(d.tsk[prev], FALSE)
    <3>1. prev \in Task
      BY <1>1, <2>1, SMT, Zenon, SMTT(40) DEF schedule
    <3>2. Safe(d, {prev}) /\ ~Member(d.dl.tree, prev) /\ Kept(d, {})
      BY <1>1, <3>1, DequeueTask, DequeueKept, SMT, Zenon, SMTT(40)
    <3>3. Deactivate(M, prev) = SetTask(d, prev, e)
      BY SMT, Zenon, SMTT(40) DEF Deactivate, Woken
    <3> HIDE DEF d
    <3>4. d.tsk[prev] \in Entity /\ Cbs(d.tsk[prev])
      BY <3>1, <3>2, GoodType, SMT, Zenon, SMTT(40) DEF Safe, Kept
    <3>5. e \in Entity /\ ~e.on_rq /\ Cbs(e)
      BY <3>4, WokenLemma, Zenon
    <3>6. Kept(d, {prev}) /\ Good(d)
      BY <3>2 DEF Kept, Safe
    <3> HIDE DEF e, prev
    <3>7. Safe(SetTask(d, prev, e), {})
      BY <3>1, <3>2, <3>5, OffTree, ZenonT(60)
    <3>8. Kept(SetTask(d, prev, e), {})
      BY <3>1, <3>5, <3>6, SetTaskKept, SMT, Zenon, SMTT(40)
    <3> QED
      BY <2>1, <3>3, <3>7, <3>8, SMT, Zenon, SMTT(40)
  <2>2. CASE ~sleep
    BY <1>1, <2>2, ZenonT(60)
  <2> QED
    BY <2>1, <2>2, SMT, Zenon, SMTT(40)
<1> HIDE DEF m1
<1>3. Safe(m2, {}) /\ Kept(m2, {})
  BY <1>1, <1>2, UpdateCurrSafe, UpdateKept, SMT, Zenon, SMTT(40) DEF put_prev_task
<1>4. PICK next \in Task \cup {Idle} : Commit(set_curr_task(SetRq(m2, x(next)), next))
  BY Zenon DEF schedule, m1
<1> HIDE DEF m2
<1>5. m2.rq \in Runqueue
  BY <1>3, GoodType DEF Safe
<1> DEFINE y == x(next)
<1>6. y \in Runqueue /\ y.bug = m2.rq.bug
  BY <1>5, Zenon DEF Runqueue
<1>7. Commit(set_curr_task(SetRq(m2, y), next))
  BY <1>4
<1> HIDE DEF y
<1> DEFINE k == SetRq(m2, y)
           n == set_curr_task(k, next)
<1>8. k.rq = y /\ k.tsk = m2.tsk
  BY DEF SetRq
<1> HIDE DEF k
<1>9. n.tsk = k.tsk /\ n.rq.bug = k.rq.bug
  BY <1>6, <1>8, SMTT(40), SMTT(60) DEF set_curr_task, SetRq, Runqueue
<1>10. Commit(n)
  BY <1>7, SMT, Zenon, SMTT(40) DEF k
<1> HIDE DEF n
<1>11. Kept(n, {})
  BY <1>3, <1>6, <1>8, <1>9, SMT, Zenon, SMTT(40) DEF Kept
<1> QED
  BY <1>10, <1>11, CommitKept, Zenon DEF schedule

\* A task that yields gives its budget away and is throttled, or set up afresh.
LEMMA YieldKept ==
    ASSUME IInv, CbsInv, yield_task_dl
    PROVE  CbsInv'
<1> DEFINE p == rq.curr
           e == [tsk[p] EXCEPT !.dl_new = TRUE, !.runtime = 0]
           m1 == IF tsk[p].runtime > 0 THEN SetTask(M, p, e) ELSE M
           n == update_curr_dl(m1)
<1>1. /\ clock \in Nat /\ clock >= 1 /\ Safe(M, {}) /\ p \in Task /\ tsk[p] \in Entity
      /\ M.rq = rq /\ M.dl = dl /\ M.tsk = tsk /\ Kept(M, {})
  BY InvSafe, InvKept, SMT, Zenon, SMTT(40) DEF yield_task_dl, dl_task
<1>2. tsk[p].prio = DL
  BY <1>1, ZenonT(60) DEF yield_task_dl, dl_task
<1>3. /\ Cbs(tsk[p]) /\ OwnBudget(tsk[p])
      /\ Member(dl.tree, p) => tsk[p].on_rq /\ Quiet(tsk[p])
  BY <1>1, <1>2, QueuedCbs, SMT, Zenon, SMTT(40)
<1>4. Good(m1) /\ m1.rq = rq /\ m1.tsk[p] \in Entity /\ Kept(n, {})
  <2>1. CASE ~(tsk[p].runtime > 0)
    BY <1>1, <2>1, UpdateKept, Zenon DEF Safe
  <2>2. CASE tsk[p].runtime > 0
    <3> DEFINE f == tsk[p]
               t == TRUE
               z == 0
    <3>1. /\ f \in Entity /\ e = [f EXCEPT !.dl_new = t, !.runtime = z]
          /\ t \in BOOLEAN /\ z \in Int /\ t /\ z = 0
      BY <1>1
    <3> HIDE DEF f, e, t, z
    <3>2. /\ e \in Entity /\ e.dl_new = t /\ e.runtime = z
          /\ e.deadline = f.deadline /\ e.on_rq = f.on_rq
          /\ e.policy = f.policy /\ e.prio = f.prio /\ e.pi_top = f.pi_top
          /\ e.dl_boosted = f.dl_boosted /\ e.dl_runtime = f.dl_runtime
          /\ e.dl_deadline = f.dl_deadline /\ e.dl_throttled = f.dl_throttled
          /\ e.expires = f.expires /\ e.callback = f.callback
      BY <3>1, Zenon DEF Entity
    <3>3. Cbs(f) /\ OwnBudget(f) /\ f = tsk[p]
      BY <1>3, SMT, Zenon, SMTT(40) DEF f
    <3>4. e.dl_runtime >= 0
      BY <3>2 DEF Entity
    <3>5. OwnBudget(e)
      BY <3>1, <3>2, <3>3, <3>4, Zenon DEF OwnBudget
    <3>6. Cbs(e)
      BY <3>1, <3>2, <3>3, <3>5, Zenon DEF Cbs, Timed
    <3>7. Member(dl.tree, p) => e.on_rq /\ Quiet(e)
      BY <1>3, <3>2, <3>3, Zenon DEF Quiet
    <3> DEFINE m2 == SetTask(M, p, e)
    <3>8. e.deadline = tsk[p].deadline
      BY <3>2, <3>3, Zenon
    <3>9. /\ Good(m2) /\ m2.rq = rq /\ m2.dl = dl /\ m2.tsk[p] = e
          /\ \A q \in Task : q # p => m2.tsk[q] = tsk[q]
      BY <1>1, <3>2, <3>8, PutTask, ZenonT(60) DEF Safe
    <3> HIDE DEF m2
    <3>10. \A q \in Task : q # m2.rq.curr => Fit(m2, q)
      BY <1>1, <3>9, SMT, Zenon, SMTT(40) DEF Safe, Fit
    <3>11. Kept(m2, {m2.rq.curr})
      BY <1>1, <3>9, ZenonT(60) DEF Kept
    <3>12. Kept(update_curr_dl(m2), {})
      BY <1>1, <3>5, <3>6, <3>7, <3>9, <3>10, <3>11, UpdateCurrKept, ZenonT(60)
    <3>13. m1 = m2
      BY <2>2 DEF m2, e, f
    <3> QED
      BY <3>2, <3>9, <3>12, <3>13, Zenon
  <2> QED
    BY <2>1, <2>2
<1>5. Safe(n, {}) /\ m1 = Yielding
  BY YieldSafe DEF Yielding
<1>6. Commit(resched_task(n, p)) /\ UNCHANGED clock
  BY DEF yield_task_dl
<1> HIDE DEF n
<1>7. Kept(resched_task(n, p), {})
  BY <1>1, <1>4, <1>5, ReschedKept, ZenonT(60) DEF Safe
<1> QED
  BY <1>6, <1>7, CommitKept, SMT, Zenon, SMTT(40)

\* When the bandwidth timer expires, the deadline has come.
LEMMA TimerFireKept ==
    ASSUME IInv, CbsInv, NEW p \in Task, TimerFire(p)
    PROVE  CbsInv'
<1> DEFINE f == tsk[p]
           t == TRUE
           z == 0
           e == [f EXCEPT !.expires = z, !.callback = t]
<1>1. f \in Entity /\ tsk \in [Task -> Entity] /\ clock \in Nat /\ Cbs(f)
  BY InvSafe DEF CbsInv
<1>2. tsk' = [tsk EXCEPT ![p] = e] /\ rq' = rq /\ clock' = clock
  BY Zenon DEF TimerFire
<1>3. f.expires # 0 /\ f.expires <= clock /\ ~f.callback
  BY DEF TimerFire
<1>4. t \in BOOLEAN /\ z \in Int /\ t /\ z = 0
  OBVIOUS
<1> HIDE DEF f, t, z
<1>5. /\ e \in Entity /\ e.dl_new = f.dl_new /\ e.runtime = f.runtime
      /\ e.deadline = f.deadline
      /\ e.policy = f.policy /\ e.prio = f.prio /\ e.pi_top = f.pi_top
      /\ e.dl_boosted = f.dl_boosted /\ e.dl_runtime = f.dl_runtime
      /\ e.dl_deadline = f.dl_deadline /\ e.dl_throttled = f.dl_throttled
      /\ e.expires = z /\ e.callback = t
  BY <1>1, <1>4, Zenon DEF Entity
<1> HIDE DEF e
<1>6. f.dl_throttled /\ f.deadline <= clock /\ OwnBudget(f)
  BY <1>1, <1>3, SMT, Zenon, SMTT(40) DEF Cbs, Timed, Fair
<1>7. OwnBudget(e)
  BY <1>5, <1>6, SMT, Zenon, SMTT(40) DEF OwnBudget
<1>8. Cbs(e)
  BY <1>4, <1>5, <1>6, <1>7, SMT, Zenon, SMTT(40) DEF Cbs, Timed
<1>9. tsk'[p] = e /\ \A q \in Task : q # p => tsk'[q] = tsk[q]
  BY <1>1, <1>2, SMT, Zenon, SMTT(40)
<1>10. \A q \in Task : Cbs(tsk'[q])
  BY <1>8, <1>9, SMT, Zenon, SMTT(40) DEF CbsInv
<1> QED
  BY <1>2, <1>10, SMT, Zenon, SMTT(40) DEF CbsInv, Cbs, Timed, Funded

\* Time only brings deadlines nearer.
LEMMA ClockTickKept ==
    ASSUME IInv, CbsInv, ClockTick
    PROVE  CbsInv'
<1>1. /\ clock \in Nat /\ clock' = clock + 1 /\ rq' = rq /\ tsk' = tsk
      /\ tsk \in [Task -> Entity]
  BY InvSafe, ZenonT(60) DEF ClockTick
<1>2. ASSUME NEW q \in Task
      PROVE  Cbs(tsk[q])'
  <2>1. Cbs(tsk[q]) /\ tsk[q].deadline \in Int
    BY <1>1 DEF CbsInv, Entity
  <2> QED
    BY <1>1, <2>1, SMT, Zenon, SMTT(40) DEF Cbs, Timed, Fair, OwnBudget, Funded
<1> QED
  BY <1>1, <1>2, SMT, Zenon, SMTT(40) DEF CbsInv

\* dl_task_timer() ends the throttling of p at its deadline, with a new budget if p
\* is runnable; if p yielded meanwhile, it leaves p throttled.
LEMMA TimerKept ==
    ASSUME IInv, CbsInv, NEW p \in Task, dl_task_timer(p)
    PROVE  CbsInv'
<1> DEFINE e  == [tsk[p] EXCEPT !.callback = FALSE]
           e1 == [e EXCEPT !.dl_throttled = FALSE]
           m0 == SetTask(M, p, e)
           m1 == SetTask(M, p, e1)
           m2 == enqueue_task_dl(m1, p, TRUE)
           m  == IF ~dl_task(M, p) \/ tsk[p].dl_new THEN m0
                 ELSE IF ~tsk[p].on_rq THEN m1
                 ELSE IF task_has_dl_policy(m2, rq.curr) THEN check_preempt_curr_dl(m2, p)
                 ELSE resched_task(m2, rq.curr)
<1>1. /\ clock \in Nat /\ clock >= 1 /\ Safe(M, {}) /\ M.tsk = tsk /\ M.dl = dl /\ M.rq = rq
      /\ tsk[p] \in Entity /\ rq.curr \in Task \cup {Idle} /\ Kept(M, {}) /\ Kept(M, {p})
  BY InvSafe, InvKept, SMT, Zenon, SMTT(40) DEF Runqueue, Kept
<1>2. /\ tsk[p].callback /\ Cbs(tsk[p]) /\ tsk[p].dl_throttled /\ tsk[p].expires = 0
      /\ tsk[p].deadline <= clock /\ OwnBudget(tsk[p])
  BY SMT, Zenon, SMTT(40) DEF dl_task_timer, CbsInv, Cbs, Timed, Fair
<1>3. ~Member(dl.tree, p)
  BY <1>2 DEF IInv
<1>4. /\ e \in Entity /\ ~e.callback /\ e.dl_throttled /\ e.expires = 0
      /\ e.deadline = tsk[p].deadline /\ e.dl_new = tsk[p].dl_new
      /\ e.on_rq = tsk[p].on_rq /\ OwnBudget(e)
  <2> DEFINE f == tsk[p]
             b == FALSE
  <2>1. f \in Entity /\ e = [f EXCEPT !.callback = b] /\ b \in BOOLEAN /\ ~b
    BY <1>1, SMT, Zenon, SMTT(40)
  <2>2. f.dl_throttled /\ f.expires = 0 /\ OwnBudget(f)
    BY <1>2
  <2> HIDE DEF f, b, e
  <2>3. /\ e \in Entity /\ e.callback = b /\ e.dl_throttled = f.dl_throttled
        /\ e.expires = f.expires
        /\ e.deadline = f.deadline /\ e.dl_new = f.dl_new /\ e.on_rq = f.on_rq
        /\ e.policy = f.policy /\ e.prio = f.prio /\ e.pi_top = f.pi_top
        /\ e.dl_boosted = f.dl_boosted /\ e.dl_runtime = f.dl_runtime
        /\ e.dl_deadline = f.dl_deadline /\ e.runtime = f.runtime
    BY <2>1, SMT, Zenon, SMTT(40) DEF Entity
  <2>4. OwnBudget(e)
    BY <2>2, <2>3 DEF OwnBudget
  <2> QED
    BY <2>1, <2>2, <2>3, <2>4, SMT, Zenon, SMTT(40) DEF f
<1> HIDE DEF e
<1>5. /\ e1 \in Entity /\ Quiet(e1) /\ OwnBudget(e1) /\ e1.deadline = e.deadline
      /\ e1.on_rq = e.on_rq /\ e1.dl_new = e.dl_new
  <2> DEFINE b == FALSE
  <2>1. e1 = [e EXCEPT !.dl_throttled = b] /\ b \in BOOLEAN /\ ~b
    OBVIOUS
  <2> HIDE DEF b, e1
  <2>2. /\ e1 \in Entity /\ e1.callback = e.callback /\ e1.dl_throttled = b
        /\ e1.expires = e.expires
        /\ e1.deadline = e.deadline /\ e1.dl_new = e.dl_new /\ e1.on_rq = e.on_rq
        /\ e1.policy = e.policy /\ e1.prio = e.prio /\ e1.pi_top = e.pi_top
        /\ e1.dl_boosted = e.dl_boosted /\ e1.dl_runtime = e.dl_runtime
        /\ e1.dl_deadline = e.dl_deadline /\ e1.runtime = e.runtime
    BY <1>4, <2>1, Zenon DEF Entity
  <2>3. OwnBudget(e1)
    BY <1>4, <2>2, SMT, Zenon, SMTT(40) DEF OwnBudget
  <2> QED
    BY <1>4, <2>1, <2>2, <2>3 DEF Quiet
<1> HIDE DEF e1
<1>6. tsk[p].dl_new => Cbs(e)
  BY <1>4, Zenon DEF Cbs, Timed
<1>7. Funded(e1) /\ Cbs(e1)
  BY <1>2, <1>4, <1>5, ZenonT(60) DEF Cbs, Timed, Quiet, Funded
<1>8. dl_task(M, p)
  BY <1>1, <1>2 DEF dl_task, OwnBudget
<1>9. tsk[p].dl_new => Kept(m0, {})
  BY <1>1, <1>4, <1>6, SetTaskKept, Zenon DEF Safe
<1>10. Kept(m1, {}) /\ Kept(m1, {p})
  BY <1>1, <1>5, <1>7, SetTaskKept, Zenon DEF Safe
<1>11. Safe(m1, {p}) /\ ~Member(m1.dl.tree, p) /\ m1.tsk[p] = e1
  BY <1>1, <1>3, <1>5, OffTree, SafeWeaken, ZenonT(60)
<1> HIDE DEF m0, m1
<1>12. ASSUME tsk[p].on_rq
       PROVE  Safe(m2, {}) /\ Kept(m2, {})
  <2>1. e1.on_rq /\ e1.prio = DL
    BY <1>4, <1>5, <1>12, SMT, Zenon, SMTT(40) DEF OwnBudget
  <2>2. Safe(m2, {})
    BY <1>1, <1>11, <2>1, EnqueueTask, Zenon
  <2>3. Kept(m2, {})
    BY <1>1, <1>5, <1>7, <1>10, <1>11, EnqueueKept, ZenonT(60) DEF Safe
  <2> QED
    BY <2>2, <2>3, Zenon
<1> HIDE DEF m2
<1>13. tsk[p].on_rq => Kept(check_preempt_curr_dl(m2, p), {}) /\ Kept(resched_task(m2, rq.curr), {})
  BY <1>1, <1>12, CheckPreemptKept, ReschedKept, ZenonT(60) DEF Safe
<1>14. Kept(m, {})
  BY <1>8, <1>9, <1>10, <1>13, SMT, Zenon, SMTT(40)
<1>15. Commit(m) /\ UNCHANGED clock
  BY Zenon DEF dl_task_timer, m0, m1, m2, e, e1
<1> HIDE DEF m
<1> QED
  BY <1>14, <1>15, CommitKept, Zenon

\* A fair task that becomes SCHED_DEADLINE starts on its own reservation.
LEMMA FirstReservation ==
    ASSUME NEW m, NEW e \in Entity, Fair(e), Quiet(e), NEW prm \in Params
    PROVE  LET f == __setscheduler(m, __setparam_dl(e, prm), DL)
           IN  f \in Entity /\ OwnBudget(f) /\ Quiet(f) /\ f.dl_new /\ f.on_rq = e.on_rq
<1> DEFINE b  == DL
           no == FALSE
           yes == TRUE
           z  == 0
           q  == prm.sched_runtime
           d  == prm.sched_deadline
           t  == IF prm.sched_period # 0 THEN prm.sched_period ELSE prm.sched_deadline
           h  == [e EXCEPT !.expires = z]
           g  == [h EXCEPT !.dl_runtime = q, !.dl_deadline = d, !.dl_period = t,
                           !.dl_throttled = no, !.dl_new = yes]
           g1 == [g EXCEPT !.policy = b]
           f  == [g1 EXCEPT !.prio = b]
<1>1. /\ q \in Nat /\ d \in Nat /\ t \in Nat /\ q >= 1 /\ d >= 1
      /\ no \in BOOLEAN /\ yes \in BOOLEAN /\ ~no /\ yes /\ z \in Int /\ z = 0
      /\ b = DL /\ b \in {DL, NORMAL}
  BY ParamsAssumption DEF __checkparam_dl
<1>2. __setparam_dl(e, prm) = g
  BY DEF __setparam_dl, hrtimer_try_to_cancel, Quiet
<1>3. __setscheduler(m, g, DL) = [g1 EXCEPT !.prio = rt_mutex_getprio(m, g1)]
  BY DEF __setscheduler
<1> HIDE DEF b, no, yes, z, q, d, t
<1>4. h \in Entity /\ h.expires = z /\ h.runtime = e.runtime /\ h.pi_top = e.pi_top
      /\ h.dl_boosted = e.dl_boosted /\ h.callback = e.callback /\ h.on_rq = e.on_rq
  BY <1>1 DEF Entity
<1> HIDE DEF h
<1>5. g \in Entity /\ g.expires = z /\ g.runtime = e.runtime /\ g.pi_top = e.pi_top
      /\ g.dl_boosted = e.dl_boosted /\ g.callback = e.callback /\ g.on_rq = e.on_rq /\ g.dl_runtime = q
      /\ g.dl_deadline = d /\ g.dl_throttled = no /\ g.dl_new = yes
  BY <1>1, <1>4, Zenon DEF Entity
<1> HIDE DEF g
<1>6. g1 \in Entity /\ g1.expires = z /\ g1.runtime = e.runtime /\ g1.pi_top = e.pi_top
      /\ g1.dl_boosted = e.dl_boosted /\ g1.callback = e.callback /\ g1.on_rq = e.on_rq /\ g1.dl_runtime = q
      /\ g1.dl_deadline = d /\ g1.dl_throttled = no /\ g1.dl_new = yes /\ g1.policy = b
  BY <1>1, <1>5, ZenonT(60) DEF Entity
<1> HIDE DEF g1
<1>7. rt_mutex_getprio(m, g1) = b
  BY <1>1, <1>6, SMT, Zenon, SMTT(40) DEF rt_mutex_getprio
<1>8. f \in Entity /\ f.expires = z /\ f.runtime = e.runtime /\ f.pi_top = e.pi_top
      /\ f.dl_boosted = e.dl_boosted /\ f.callback = e.callback /\ f.on_rq = e.on_rq /\ f.dl_runtime = q
      /\ f.dl_deadline = d /\ f.dl_throttled = no /\ f.dl_new = yes /\ f.policy = b
      /\ f.prio = b
  BY <1>1, <1>6, Zenon DEF Entity
<1>9. __setscheduler(m, __setparam_dl(e, prm), DL) = f
  BY <1>2, <1>3, <1>7, Zenon
<1> HIDE DEF f
<1>10. f.runtime <= f.dl_runtime
  <2>1. e.runtime \in Int /\ e.runtime <= 0
    BY DEF Fair, Entity
  <2> QED
    BY <1>1, <1>8, <2>1, SMTT(40), SMTT(60)
<1>11. OwnBudget(f)
  BY <1>1, <1>8, <1>10, Zenon DEF OwnBudget, Fair
<1>12. Quiet(f) /\ f.dl_new
  BY <1>1, <1>8, Zenon DEF Quiet
<1> QED
  BY <1>8, <1>9, <1>11, <1>12, ZenonT(60)

\* A task gets its first reservation; no task gets another one.
LEMMA SetschedulerDlKept ==
    ASSUME IInv, CbsInv, OwnServices, NEW p \in Task, NEW prm \in Params, setscheduler_dl(p, prm)
    PROVE  CbsInv'
<1> DEFINE e  == __setscheduler(M, __setparam_dl(tsk[p], prm), DL)
           m  == SetTask(M, p, e)
           m1 == set_curr_task(m, p)
           m2 == enqueue_task(m1, p, FALSE)
           n  == check_class_changed(m2, p, tsk[p].prio)
<1>1. /\ clock \in Nat /\ clock >= 1 /\ Safe(M, {}) /\ M.tsk = tsk /\ M.rq = rq /\ M.dl = dl
      /\ tsk[p] \in Entity /\ Kept(M, {}) /\ Kept(M, {p}) /\ Good(M)
  BY InvSafe, InvKept, Zenon DEF Kept, Safe
<1>2. tsk[p].dl_deadline = 0 /\ tsk[p].dl_deadline \in Nat
  BY <1>1, Zenon DEF setscheduler_dl, OwnServices, Entity
<1>3. Fair(tsk[p]) /\ Quiet(tsk[p])
  <2>1. Fair(tsk[p])
    BY <1>2, Unreserved, Zenon DEF CbsInv, Cbs
  <2> QED
    BY <1>1, <2>1, QueuedCbs, Zenon DEF Fair
<1>4. tsk[p].prio = NORMAL /\ NORMAL # DL /\ ~dl_task(M, p)
  BY <1>1, <1>3, Zenon DEF Fair, dl_task, DL, NORMAL
<1>5. Detach(M, p) = M
  BY <1>4, Zenon DEF Detach, dequeue_task, put_prev_task, update_curr_dl
<1>6. Commit(n) /\ UNCHANGED clock
  BY <1>1, <1>5, Zenon DEF setscheduler_dl, Attach
<1>7. e \in Entity /\ OwnBudget(e) /\ Quiet(e) /\ e.dl_new
  BY <1>1, <1>3, FirstReservation, Zenon
<1>8. ~Member(M.dl.tree, p)
  BY <1>1, <1>4, Zenon DEF Safe, Fit, dl_task
<1> HIDE DEF e
<1>9. Cbs(e)
  BY <1>7 DEF Cbs, Timed, Quiet
<1>10. Safe(m, {p}) /\ ~Member(m.dl.tree, p) /\ m.tsk[p] = e /\ m.rq = rq
  <2>1. Safe(m, {p}) /\ ~Member(m.dl.tree, p) /\ m.tsk[p] = e
    BY <1>1, <1>7, <1>8, OffTree, SafeWeaken, ZenonT(60)
  <2>2. m.rq = rq
    BY <1>1, Zenon DEF SetTask
  <2> QED
    BY <2>1, <2>2
<1>11. Kept(m, {p}) /\ Kept(m, {})
  BY <1>1, <1>7, <1>9, SetTaskKept, Zenon
<1> HIDE DEF m
<1>12. Safe(m1, {p}) /\ ~Member(m1.dl.tree, p)
  BY <1>1, <1>10, SetCurr
<1>13. m1.tsk = m.tsk /\ m1.rq.bug = m.rq.bug
  BY <1>10, GoodType, ZenonT(60) DEF set_curr_task, SetRq, Runqueue, Safe
<1> HIDE DEF m1
<1>14. Kept(m1, {p}) /\ Kept(m1, {}) /\ m1.tsk[p] = e
  BY <1>10, <1>11, <1>13 DEF Kept
<1>15. Safe(m2, {})
  BY <1>1, <1>12, EnqueueSafe, Zenon
<1>16. Kept(m2, {})
  <2>1. CASE m1.tsk[p].on_rq /\ dl_task(m1, p)
    BY <1>1, <1>7, <1>12, <1>14, <2>1, EnqueueKept, ZenonT(60) DEF enqueue_task, Safe
  <2>2. CASE ~(m1.tsk[p].on_rq /\ dl_task(m1, p))
    BY <1>14, <2>2, ZenonT(60) DEF enqueue_task
  <2> QED
    BY <2>1, <2>2, Zenon
<1> HIDE DEF m2
<1>17. Kept(switched_to_dl(m2, p), {})
  BY <1>15, <1>16, CheckPreemptKept DEF switched_to_dl
<1>18. n = m2 \/ n = switched_to_dl(m2, p)
  BY <1>4 DEF check_class_changed
<1> HIDE DEF n
<1> QED
  BY <1>6, <1>16, <1>17, <1>18, CommitKept, Zenon

\* Initially no task has a reservation.
LEMMA CbsInit == Init => CbsInv
<1> SUFFICES ASSUME Init
             PROVE  CbsInv
  OBVIOUS
<1>1. rq.bug = "none"
  BY ZenonT(60) DEF Init
<1>2. ASSUME NEW q \in Task
      PROVE  Cbs(tsk[q])
  BY DEF Init, Cbs, Timed, Fair
<1> QED
  BY <1>1, <1>2 DEF CbsInv

\* Every step follows the rules of the constant bandwidth server, as long as the
\* tasks use their own reservations.
LEMMA StepKept == IInv /\ CbsInv /\ OwnServices /\ [Next]_vars => CbsInv' /\ OwnServices'
<1> SUFFICES ASSUME IInv, CbsInv, OwnServices, [Next]_vars
             PROVE  CbsInv'
  BY Zenon DEF OwnServices
<1>1. clock \in Nat /\ clock >= 1 /\ Safe(M, {}) /\ Kept(M, {})
  BY InvSafe, InvKept
<1>2. CASE ClockTick
  BY <1>2, ClockTickKept
<1>3. CASE task_tick_dl
  BY <1>1, <1>3, UpdateKept, CommitKept, Zenon DEF task_tick_dl
<1>4. CASE yield_task_dl
  BY <1>4, YieldKept
<1>5. CASE schedule(TRUE) \/ schedule(FALSE)
  BY <1>5, ScheduleKept, Zenon
<1>6. CASE rt_mutex_unlock
  <2>1. rq.curr \in Task /\ tsk[rq.curr].pi_top # NULL
    BY <1>6 DEF rt_mutex_unlock
  <2> QED
    BY <2>1, Zenon DEF CbsInv, Cbs, Fair, OwnBudget
<1>7. ASSUME NEW p \in Task, wake_up(p)
      PROVE  CbsInv'
  <2>1. Kept(Activate(M, p), {})
    BY <1>1, <1>7, ActivateKept DEF wake_up, M
  <2> QED
    BY <1>7, <2>1, CommitKept, Zenon DEF wake_up
<1>8. ASSUME NEW p \in Task, TimerFire(p)
      PROVE  CbsInv'
  BY <1>8, TimerFireKept
<1>9. ASSUME NEW p \in Task, dl_task_timer(p)
      PROVE  CbsInv'
  BY <1>9, TimerKept, Zenon
<1>10. ASSUME NEW p \in Task, setscheduler_normal(p) \/ rt_mutex_lock(p)
       PROVE  CbsInv'
  BY <1>10, Zenon DEF setscheduler_normal, rt_mutex_lock, OwnServices
<1>11. ASSUME NEW p \in Task, NEW prm \in Params, setscheduler_dl(p, prm)
       PROVE  CbsInv'
  BY <1>11, SetschedulerDlKept, ZenonT(60)
<1>12. CASE UNCHANGED vars
  BY <1>12 DEF vars, CbsInv, Cbs, Timed, Funded
<1> QED
  BY <1>2, <1>3, <1>4, <1>5, <1>6, <1>7, <1>8, <1>9, <1>10, <1>11, <1>12, ZenonT(60) DEF Next

\* What the rules say of the tree and of throttled tasks, in the words of DlRq.
LEMMA CbsImplies ==
    ASSUME IInv, CbsInv
    PROVE  BudgetRules /\ OnlyYieldStuck
<1>1. /\ Safe(M, {}) /\ Kept(M, {}) /\ M.tsk = tsk /\ M.dl = dl /\ dl.tree \in Seq(Task)
      /\ tsk \in [Task -> Entity]
  BY InvSafe, InvKept, GoodType, ZenonT(60) DEF Safe
<1>2. ASSUME NEW i \in 1 .. Len(dl.tree)
      PROVE  LET e == tsk[dl.tree[i]]
             IN  (e.runtime <= 0 => e.deadline <= clock) /\ e.runtime <= e.dl_runtime
  <2> DEFINE p == dl.tree[i]
  <2>1. p \in Task /\ Member(dl.tree, p)
    BY <1>1 DEF Member
  <2>2. ~tsk[p].dl_throttled /\ ~tsk[p].dl_new
    BY <2>1, Zenon DEF IInv
  <2>3. OwnBudget(tsk[p]) /\ Cbs(tsk[p])
    BY <1>1, <2>1, QueuedCbs, Zenon
  <2>4. Funded(tsk[p])
    BY <2>2, <2>3, Zenon DEF Cbs, OwnBudget, Fair, DL, NORMAL
  <2>5. tsk[p].runtime \in Int
    BY <1>1, <2>1, Zenon DEF Entity
  <2> QED
    BY <2>3, <2>4, <2>5, SMT, Zenon, SMTT(40) DEF Funded, OwnBudget
<1>3. BudgetRules
  BY <1>2, Zenon DEF BudgetRules, BudgetWhileQueued, BudgetBounded, NoBug, CbsInv
<1>4. OnlyYieldStuck
  BY DEF OnlyYieldStuck, CbsInv, Cbs, Timed
<1> QED
  BY <1>3, <1>4, Zenon

\* While every task uses its own reservation, the rules of the constant bandwidth
\* server hold of every reachable state.
THEOREM CbsInvariance == Spec /\ OwnServices => []CbsInv
<1>1. Init /\ OwnServices => CbsInv /\ OwnServices
  BY CbsInit
<1> QED
  BY <1>1, Invariance, StepKept, PTL DEF Spec

\* Then no budget exceeds its reservation, an exhausted entity is in the tree only at
\* its deadline, and no BUG_ON of enqueue_dl_entity() or replenish_dl_entity() is met.
THEOREM BudgetCorrect == Spec /\ OwnServices => []BudgetRules
  BY Invariance, CbsInvariance, CbsImplies, PTL

\* Then a throttled runnable task that did not yield has its timer set, or its callback
\* is under way: update_curr_dl() never throttles a task that nobody will replenish.
THEOREM ThrottlingCorrect == Spec /\ OwnServices => []OnlyYieldStuck
  BY Invariance, CbsInvariance, CbsImplies, PTL
-----------------------------------------------------------------------------
(* Earliest deadline first.                                                *)

\* Tasks at most give up the CPU and become -deadline tasks by themselves.
YieldOnly == Services \subseteq {"yield"}

\* The running task is queued, if it is of the class, and no queued task is earlier.
Leads(m) ==
    /\ dl_task(m, m.rq.curr) => Member(m.dl.tree, m.rq.curr)
    /\ \A q \in Task : Member(m.dl.tree, q) =>
          /\ Member(m.dl.tree, m.rq.curr)
          /\ m.tsk[m.rq.curr].deadline <= m.tsk[q].deadline

\* The running task is runnable; it leads, or is about to be replaced.
Edf(m) ==
    /\ m.rq.curr \in Task => m.tsk[m.rq.curr].on_rq
    /\ m.rq.curr \in m.rq.resched \/ Leads(m)

EdfInv == Edf(M)

\* What the order says, in the words of DlRq.
LEMMA EdfImplies ==
    ASSUME IInv, EdfInv
    PROVE  PreemptionPending
<1>1. M.tsk = tsk /\ M.dl = dl /\ M.rq = rq /\ dl.tree \in Seq(Task) /\ tsk \in [Task -> Entity]
  BY InvSafe, GoodType, SMT, Zenon, SMTT(40) DEF Safe
<1>2. ASSUME dl.tree # <<>>, on_dl_rq(M, rq.curr) => tsk[First].deadline < tsk[rq.curr].deadline,
             rq.curr \notin rq.resched
      PROVE  FALSE
  <2>1. First \in Task /\ Member(dl.tree, First)
    BY <1>1, <1>2 DEF First, Member
  <2>2. Leads(M)
    BY <1>1, <1>2, Zenon DEF EdfInv, Edf
  <2>3. Member(dl.tree, rq.curr) /\ tsk[rq.curr].deadline <= tsk[First].deadline
    BY <1>1, <2>1, <2>2, Zenon DEF Leads
  <2>4. rq.curr \in Task
    BY <1>1, <2>3, SMT, Zenon, SMTT(40) DEF Member
  <2>5. tsk[rq.curr].deadline \in Int /\ tsk[First].deadline \in Int
    BY <1>1, <2>1, <2>4, Zenon DEF Entity
  <2>6. tsk[First].deadline < tsk[rq.curr].deadline
    BY <1>1, <1>2, <2>3 DEF on_dl_rq, Member
  <2> QED
    BY <2>3, <2>5, <2>6, SMT, Zenon, SMTT(40)
<1> QED
  BY <1>2, Zenon DEF PreemptionPending, EarlierWaits

\* What resched_task() changes.
LEMMA Resched ==
    ASSUME NEW m, Good(m), NEW p
    PROVE  LET n == resched_task(m, p)
           IN  /\ n.tsk = m.tsk /\ n.dl = m.dl
               /\ n.rq.curr = m.rq.curr /\ n.rq.bug = m.rq.bug
               /\ n.rq.resched = m.rq.resched \cup {p}
  BY GoodType, Zenon DEF resched_task, SetRq, Runqueue

\* Neither a budget nor a timer matters here, and marking a task does no harm.
LEMMA SameEdf ==
    ASSUME NEW m, NEW n, Edf(m), n.rq.curr = m.rq.curr, m.rq.resched \subseteq n.rq.resched,
           n.dl.tree = m.dl.tree,
           \A q \in Task : /\ n.tsk[q].deadline = m.tsk[q].deadline
                           /\ n.tsk[q].prio = m.tsk[q].prio /\ n.tsk[q].on_rq = m.tsk[q].on_rq,
           m.dl.tree \in Seq(Task)
    PROVE  Edf(n)
<1>1. \A q : Member(m.dl.tree, q) => q \in Task
  BY DEF Member
<1>2. Leads(m) => Leads(n)
  BY <1>1, ZenonT(60) DEF Leads, dl_task
<1> QED
  BY <1>2, Zenon DEF Edf

\* The leftmost entity leads.
LEMMA LeftmostLeads ==
    ASSUME NEW m, Good(m), m.rq.curr \in Task, m.dl.leftmost = m.rq.curr
    PROVE  Leads(m)
<1> DEFINE s == m.dl.tree
           c == m.rq.curr
           d(q) == m.tsk[q].deadline
<1>1. /\ s \in Seq(Task) /\ \A q \in Task : d(q) \in Int
      /\ \A i, j \in 1 .. Len(s) : i < j => d(s[i]) <= d(s[j])
      /\ c \in Task /\ c = IF s = <<>> THEN NULL ELSE s[1]
  BY GoodType, Zenon DEF Good, Caches, Ordered
<1> HIDE DEF s, c, d
<1>2. s[1] = c /\ 1 \in 1 .. Len(s)
  BY <1>1, TaskAssumption
<1>3. Member(s, c)
  BY <1>2, Zenon DEF Member
<1>4. ASSUME NEW q \in Task, Member(s, q)
      PROVE  d(c) <= d(q)
  <2>1. PICK i \in 1 .. Len(s) : s[i] = q
    BY <1>4 DEF Member
  <2>2. i = 1 \/ 1 < i
    BY <2>1
  <2> QED
    BY <1>1, <1>2, <2>1, <2>2, SMTT(40), SMTT(60)
<1> QED
  BY <1>3, <1>4, Zenon DEF Leads, s, c, d

\* p joins the tree, and preempts the running task unless that is not later.
LEMMA JoinEdf ==
    ASSUME NEW m, NEW n, NEW k, Good(m), NEW p \in Task, NEW rep, p # m.rq.curr, Edf(m),
           Requeued(m, p, rep, n),
           k.tsk = n.tsk, k.dl = n.dl, k.rq.curr = n.rq.curr, n.rq.resched \subseteq k.rq.resched,
           \/ n.rq.curr \in k.rq.resched
           \/ dl_task(n, n.rq.curr) /\ ~dl_entity_preempt(n, p, n.rq.curr)
    PROVE  Edf(k)
<1> DEFINE c == m.rq.curr
<1>1. /\ n.rq = m.rq /\ \A q \in Task : q # p => n.tsk[q] = m.tsk[q]
      /\ \A q \in Task : Member(n.dl.tree, q) <=> Member(m.dl.tree, q) \/ q = p
      /\ \A q \in Task : n.tsk[q].deadline \in Int
  BY GoodType, Zenon DEF Requeued
<1>2. c \in Task => k.tsk[c] = m.tsk[c] /\ k.tsk[c].on_rq
  BY <1>1, Zenon DEF Edf
<1>3. CASE c \in k.rq.resched
  BY <1>1, <1>2, <1>3, Zenon DEF Edf
<1>4. CASE c \notin k.rq.resched
  <2>1. Leads(m) /\ c \in Task /\ dl_task(n, c) /\ ~(n.tsk[p].deadline < n.tsk[c].deadline)
    BY <1>1, <1>4, Zenon DEF Edf, dl_task, dl_entity_preempt, dl_time_before
  <2>2. Member(m.dl.tree, c) /\ Member(k.dl.tree, c)
    BY <1>1, <1>2, <2>1, Zenon DEF Leads, dl_task
  <2>3. ASSUME NEW q \in Task, Member(k.dl.tree, q)
        PROVE  k.tsk[c].deadline <= k.tsk[q].deadline
    <3>1. CASE q = p
      BY <1>1, <2>1, <3>1
    <3>2. CASE q # p
      BY <1>1, <1>2, <2>1, <2>3, <3>2, ZenonT(60) DEF Leads
    <3> QED
      BY <3>1, <3>2, ZenonT(60)
  <2>4. Leads(k)
    BY <1>1, <2>2, <2>3, Zenon DEF Leads
  <2> QED
    BY <1>1, <1>2, <2>4, Zenon DEF Edf
<1> QED
  BY <1>3, <1>4, Zenon

\* A throttled running task is marked, unless it has been replenished and leads again.
LEMMA ThrottleEdf ==
    ASSUME clock \in Nat, clock >= 1, NEW m, Good(m), NEW p \in Task, m.rq.curr = p,
           m.tsk[p].on_rq
    PROVE  LET n == Throttle(m, p)
           IN  n.rq.curr = p /\ n.tsk[p].on_rq /\ (n.rq.bug = "none" => Edf(n))
<1> DEFINE m1 == __dequeue_dl_entity(m, p)
           e  == m1.tsk[p]
           g  == [start_dl_timer(e) EXCEPT !.dl_throttled = TRUE]
           m2 == IF CanStartTimer(e) THEN SetTask(m1, p, g) ELSE enqueue_task_dl(m1, p, TRUE)
           n  == IF m2.dl.leftmost # p THEN resched_task(m2, p) ELSE m2
<1>1. Good(m1) /\ ~Member(m1.dl.tree, p) /\ m1.tsk = m.tsk /\ m1.rq = m.rq
  BY DequeueEntity, SMTT(40), SMTT(60)
<1>2. e \in Entity /\ e.on_rq
  BY <1>1, GoodType
<1>3. Throttle(m, p) = n
  BY Zenon DEF Throttle
<1> HIDE DEF m1
<1>4. m2.rq.curr = p /\ m2.tsk[p].on_rq /\ Good(m2)
  <2>1. CASE CanStartTimer(e)
    <3> DEFINE t == TRUE
    <3>1. g = [e EXCEPT !.expires = e.deadline, !.dl_throttled = t] /\ t \in BOOLEAN
      BY <1>2 DEF start_dl_timer, Entity
    <3> HIDE DEF e, g, t
    <3>2. g \in Entity /\ g.on_rq
      BY <1>2, <3>1, ZenonT(60) DEF Entity
    <3>3. Good(SetTask(m1, p, g)) /\ SetTask(m1, p, g).rq = m1.rq /\ SetTask(m1, p, g).tsk[p] = g
      BY <1>1, <3>2, SetTaskLemma
    <3> QED
      BY <1>1, <2>1, <3>2, <3>3, Zenon
  <2>2. CASE ~CanStartTimer(e)
    <3> DEFINE k == enqueue_task_dl(m1, p, TRUE)
    <3>1. \/ k = m1
          \/ \E w \in {"on_dl_rq", "dl_runtime"} : k = BUG_ON(m1, w)
          \/ Requeued(m1, p, TRUE, k)
      BY <1>1, EnqueueCases, Zenon
    <3> HIDE DEF k
    <3>2. CASE k = m1
      BY <1>1, <1>2, <2>2, <3>2, Zenon DEF k
    <3>3. ASSUME NEW w \in {"on_dl_rq", "dl_runtime"}, k = BUG_ON(m1, w)
          PROVE  k.rq.curr = p /\ k.tsk[p].on_rq /\ Good(k)
      <4>1. Safe(m1, Task)
        BY <1>1, Zenon DEF Safe
      <4>2. Safe(k, Task)
        BY <3>3, <4>1, BugLemma, Zenon
      <4>3. k.rq.curr = m1.rq.curr /\ k.tsk = m1.tsk
        BY <1>1, <3>3, GoodType, Zenon DEF BUG_ON, SetRq, Runqueue
      <4> QED
        BY <1>1, <1>2, <4>2, <4>3, Zenon DEF Safe
    <3>4. CASE Requeued(m1, p, TRUE, k)
      <4>1. Good(k) /\ k.rq = m1.rq /\ Alike(m1.tsk[p], k.tsk[p])
        BY <3>4, Zenon DEF Requeued
      <4>2. k.tsk[p].on_rq
        BY <1>2, <4>1, Zenon DEF Alike, SameStatus
      <4> QED
        BY <1>1, <2>2, <4>1, <4>2, Zenon DEF k
    <3> QED
      BY <2>2, <3>1, <3>2, <3>3, <3>4, ZenonT(60) DEF k
  <2> QED
    BY <2>1, <2>2, Zenon
<1> HIDE DEF m2
<1>5. CASE m2.dl.leftmost # p
  <2>1. /\ n.rq.curr = p /\ n.tsk = m2.tsk /\ p \in n.rq.resched
    BY <1>4, <1>5, Resched
  <2> QED
    BY <1>3, <1>4, <2>1, ZenonT(60) DEF Edf
<1>6. CASE m2.dl.leftmost = p
  BY <1>3, <1>4, <1>6, LeftmostLeads, Zenon DEF Edf
<1> QED
  BY <1>5, <1>6, ZenonT(60)

\* update_curr_dl() leaves the running task runnable, and keeps the order.
LEMMA UpdateEdf ==
    ASSUME clock \in Nat, clock >= 1, NEW m, Good(m),
           m.rq.curr \in Task => m.tsk[m.rq.curr].on_rq
    PROVE  LET n == update_curr_dl(m)
           IN  /\ n.rq.curr = m.rq.curr
               /\ m.rq.curr \in Task => n.tsk[m.rq.curr].on_rq
               /\ Edf(m) /\ n.rq.bug = "none" => Edf(n)
<1> DEFINE p == m.rq.curr
           v == m.tsk[p].runtime - delta_exec(m)
           e == [m.tsk[p] EXCEPT !.runtime = v]
           c == ChargeMiss(e)
           x == [m.rq EXCEPT !.exec_start = clock]
<1>1. CASE ~dl_task(m, p) \/ ~Member(m.dl.tree, p)
  BY <1>1, Zenon DEF update_curr_dl, on_dl_rq, Member
<1>2. CASE dl_task(m, p) /\ Member(m.dl.tree, p)
  <2>1. p \in Task /\ m.tsk[p] \in Entity /\ m.rq \in Runqueue /\ m.tsk[p].on_rq
    BY <1>2, GoodType, Zenon DEF dl_task
  <2>2. v \in Int
    <3>1. m.tsk[p].runtime \in Int /\ m.rq.exec_start \in Nat
      BY <2>1, Zenon DEF Entity, Runqueue
    <3> QED
      BY <3>1 DEF delta_exec
  <2>3. update_curr_dl(m) =
           IF dl_runtime_exceeded(e)
           THEN Throttle(SetTask(SetRq(m, x), p, c), p)
           ELSE SetTask(SetRq(m, x), p, e)
    BY <1>2 DEF update_curr_dl, on_dl_rq, Member
  <2>4. x \in Runqueue /\ x.bug = m.rq.bug /\ x.curr = p /\ x.resched = m.rq.resched
    BY <2>1, Zenon DEF Runqueue
  <2> HIDE DEF v, x
  <2>5. /\ e \in Entity /\ Alike(m.tsk[p], e) /\ e.deadline = m.tsk[p].deadline
        /\ c \in Entity /\ Alike(m.tsk[p], c) /\ c.deadline = m.tsk[p].deadline
    BY <2>1, <2>2, Charge, Zenon
  <2> HIDE DEF e, c
  <2> DEFINE m0 == SetRq(m, x)
  <2>6. Good(m0) /\ m0.tsk = m.tsk /\ m0.dl = m.dl /\ m0.rq = x
    <3>1. Safe(m, Task)
      BY ZenonT(60) DEF Safe
    <3> QED
      BY <2>4, <3>1, SetRqLemma, Zenon DEF SetRq, Safe
  <2> HIDE DEF m0
  <2>7. ASSUME NEW f \in Entity, f.deadline = m.tsk[p].deadline, Alike(m.tsk[p], f)
        PROVE  LET k == SetTask(m0, p, f)
               IN  /\ Good(k) /\ k.rq = x /\ k.dl = m.dl /\ k.tsk[p] = f /\ f.on_rq
                   /\ f.prio = m.tsk[p].prio
                   /\ \A q \in Task : q # p => k.tsk[q] = m.tsk[q]
    <3>1. f.on_rq /\ f.prio = m.tsk[p].prio
      BY <2>1, <2>7, ZenonT(60) DEF Alike, SameStatus
    <3> QED
      BY <2>1, <2>6, <2>7, <3>1, SetTaskLemma, SMTT(40), SMTT(60)
  <2>8. CASE dl_runtime_exceeded(e)
    <3> DEFINE k == SetTask(m0, p, c)
    <3>1. Good(k) /\ k.rq.curr = p /\ k.tsk[p].on_rq
      BY <2>4, <2>5, <2>7, ZenonT(60)
    <3> HIDE DEF k
    <3> QED
      BY <2>1, <2>3, <2>8, <3>1, ThrottleEdf, SMTT(40), SMTT(60) DEF k, m0
  <2>9. CASE ~dl_runtime_exceeded(e)
    <3> DEFINE k == SetTask(m0, p, e)
    <3>1. /\ k.rq = x /\ k.dl = m.dl /\ k.tsk[p] = e /\ e.on_rq /\ e.prio = m.tsk[p].prio
          /\ \A q \in Task : q # p => k.tsk[q] = m.tsk[q]
      BY <2>5, <2>7, ZenonT(60)
    <3>2. update_curr_dl(m) = k
      BY <2>3, <2>9, SMT, Zenon, SMTT(40) DEF m0
    <3> HIDE DEF k
    <3>3. \A q \in Task : /\ k.tsk[q].deadline = m.tsk[q].deadline
                          /\ k.tsk[q].prio = m.tsk[q].prio /\ k.tsk[q].on_rq = m.tsk[q].on_rq
      <4>1. e.on_rq = m.tsk[p].on_rq /\ e.deadline = m.tsk[p].deadline
        BY <2>5, Zenon DEF Alike, SameStatus
      <4> QED
        BY <3>1, <4>1, Zenon
    <3>4. Edf(m) => Edf(k)
      BY <2>4, <3>1, <3>3, GoodType, SameEdf, Zenon
    <3> QED
      BY <2>4, <3>1, <3>2, <3>4, Zenon
  <2> QED
    BY <2>8, <2>9, Zenon
<1> QED
  BY <1>1, <1>2, Zenon

\* Committing a machine state in order; a BUG_ON stops the machine in the old one.
LEMMA CommitEdf ==
    ASSUME IInv, EdfInv, NEW m, Good(m), Commit(m), m.rq.bug = "none" => Edf(m)
    PROVE  EdfInv'
<1>0. M.rq = rq /\ M.dl = dl /\ M.tsk = tsk /\ rq \in Runqueue
  BY InvSafe, Zenon
<1>1. M'.rq = rq' /\ M'.dl = dl' /\ M'.tsk = tsk'
  BY DEF M
<1>2. CASE m.rq.bug = "none"
  <2>1. M'.rq = m.rq /\ M'.dl = m.dl /\ M'.tsk = m.tsk
    BY <1>1, <1>2 DEF Commit
  <2>2. M' = m
    <3>1. m = [rq |-> m.rq, dl |-> m.dl, tsk |-> m.tsk]
      BY Zenon DEF Good, Machine
    <3> QED
      BY <1>2, <3>1 DEF Commit, M
  <2> QED
    BY <1>2, <2>2 DEF EdfInv
<1>3. CASE m.rq.bug # "none"
  <2>1. rq'.curr = rq.curr /\ rq'.resched = rq.resched /\ dl' = dl /\ tsk' = tsk
    BY <1>0, <1>3, Zenon DEF Commit, Runqueue
  <2>2. Leads(M) => Leads(M)'
    BY <1>0, <1>1, <2>1, ZenonT(60) DEF Leads, dl_task
  <2> QED
    BY <1>0, <1>1, <2>1, <2>2, Zenon DEF EdfInv, Edf
<1> QED
  BY <1>2, <1>3, Zenon

\* Entities may change, as long as these three fields do not.
LEMMA EntityEdf ==
    ASSUME IInv, EdfInv, rq' = rq, dl' = dl,
           \A q \in Task : /\ tsk'[q].deadline = tsk[q].deadline
                           /\ tsk'[q].prio = tsk[q].prio /\ tsk'[q].on_rq = tsk[q].on_rq
    PROVE  EdfInv'
<1> DEFINE n == M'
<1>1. M.rq = rq /\ M.dl = dl /\ M.tsk = tsk /\ dl.tree \in Seq(Task)
  BY InvSafe, GoodType, Zenon DEF IInv
<1>2. n.rq = rq /\ n.dl = dl /\ n.tsk = tsk'
  BY DEF M
<1> HIDE DEF n
<1>3. Edf(n)
  BY <1>1, <1>2, SameEdf, Zenon DEF EdfInv
<1> QED
  BY <1>3, Zenon DEF EdfInv, n

\* The test that follows an enqueueing: k is what JoinEdf() asks for.
LEMMA PreemptEdf ==
    ASSUME NEW n, Good(n), NEW p \in Task
    PROVE  LET Tested(k) ==
                 /\ k.tsk = n.tsk /\ k.dl = n.dl /\ k.rq.curr = n.rq.curr
                 /\ n.rq.resched \subseteq k.rq.resched
                 /\ \/ n.rq.curr \in k.rq.resched
                    \/ dl_task(n, n.rq.curr) /\ ~dl_entity_preempt(n, p, n.rq.curr)
           IN  /\ dl_task(n, n.rq.curr) => Tested(check_preempt_curr_dl(n, p))
               /\ Tested(resched_task(n, n.rq.curr))
               /\ dl_task(n, p) => Tested(check_preempt_curr(n, p))
<1> DEFINE r == resched_task(n, n.rq.curr)
<1>1. /\ r.tsk = n.tsk /\ r.dl = n.dl /\ r.rq.curr = n.rq.curr
      /\ n.rq.resched \subseteq r.rq.resched /\ n.rq.curr \in r.rq.resched
  BY Resched
<1>2. check_preempt_curr_dl(n, p) = IF dl_entity_preempt(n, p, n.rq.curr) THEN r ELSE n
  BY DEF check_preempt_curr_dl
<1>3. dl_task(n, p) =>
        check_preempt_curr(n, p) = IF dl_task(n, n.rq.curr) THEN check_preempt_curr_dl(n, p) ELSE r
  BY DEF check_preempt_curr
<1> HIDE DEF r
<1> QED
  BY <1>1, <1>2, <1>3, ZenonT(60) DEF r

\* try_to_wake_up(): a woken -deadline task that is earlier preempts.
LEMMA WakeUpEdf ==
    ASSUME IInv, EdfInv, NEW p \in Task, wake_up(p)
    PROVE  EdfInv'
<1> DEFINE e  == Woken(tsk[p], TRUE)
           m1 == SetTask(M, p, e)
           m2 == enqueue_task(m1, p, FALSE)
           n  == check_preempt_curr(m2, p)
<1>1. /\ clock \in Nat /\ clock >= 1 /\ Safe(M, {}) /\ M.tsk = tsk /\ M.rq = rq /\ M.dl = dl
      /\ tsk[p] \in Entity /\ Good(M) /\ dl.tree \in Seq(Task)
  BY InvSafe, GoodType DEF Safe
<1>2. Commit(n) /\ ~tsk[p].on_rq
  BY <1>1, Zenon DEF wake_up, Activate, Woken
<1>3. rq.curr # p /\ ~Member(dl.tree, p)
  BY <1>1, <1>2, Zenon DEF EdfInv, Edf, IInv
<1>4. /\ e \in Entity /\ e.deadline = tsk[p].deadline /\ e.prio = tsk[p].prio
      /\ e.on_rq
  BY <1>1, WokenLemma, Zenon
<1> HIDE DEF e
<1>5. /\ Good(m1) /\ m1.rq = rq /\ m1.dl = dl /\ m1.tsk[p] = e
      /\ \A q \in Task : q # p => m1.tsk[q] = tsk[q]
  BY <1>1, <1>4, PutTask, Zenon
<1> HIDE DEF m1
<1>6. Edf(m1)
  <2>1. m1.rq.curr \in Task => m1.tsk[m1.rq.curr].on_rq
    BY <1>1, <1>3, <1>5, Zenon DEF EdfInv, Edf
  <2>2. Leads(M) => Leads(m1)
    <3>1. \A q \in Task : Member(dl.tree, q) => m1.tsk[q] = tsk[q]
      BY <1>3, <1>5, Zenon
    <3>2. rq.curr \in Task => m1.tsk[rq.curr] = tsk[rq.curr]
      BY <1>3, <1>5, Zenon
    <3>3. \A q : Member(dl.tree, q) => q \in Task
      BY <1>1 DEF Member
    <3> QED
      BY <1>1, <1>5, <3>1, <3>2, <3>3, Zenon DEF Leads, dl_task
  <2> QED
    BY <1>1, <1>5, <2>1, <2>2, Zenon DEF EdfInv, Edf
<1>7. Good(m2) /\ (m2.rq.bug = "none" => Edf(n))
  <2>1. CASE ~dl_task(m1, p)
    <3>1. m2 = m1
      BY <2>1 DEF enqueue_task
    <3>2. n = m1 \/ n = resched_task(m1, m1.rq.curr)
      BY <2>1, <3>1, ZenonT(60) DEF check_preempt_curr
    <3>3. Edf(resched_task(m1, m1.rq.curr))
      BY <1>5, <1>6, Resched DEF Edf
    <3> QED
      BY <1>5, <1>6, <3>1, <3>2, <3>3, ZenonT(60)
  <2>2. CASE dl_task(m1, p)
    <3>1. m2 = enqueue_task_dl(m1, p, FALSE)
      BY <1>4, <1>5, <2>2, Zenon DEF enqueue_task
    <3>2. \/ m2 = m1
          \/ Requeued(m1, p, FALSE, m2)
      BY <1>1, <1>3, <1>5, <3>1, EnqueueCases, ZenonT(60)
    <3> HIDE DEF m2
    <3>3. CASE m2 = m1
      <4>1. n = m1 \/ n = resched_task(m1, m1.rq.curr)
        BY <2>2, <3>3, ZenonT(60) DEF check_preempt_curr, check_preempt_curr_dl
      <4>2. Edf(resched_task(m1, m1.rq.curr))
        BY <1>5, <1>6, Resched DEF Edf
      <4> QED
        BY <1>5, <1>6, <3>3, <4>1, <4>2, ZenonT(60)
    <3>4. CASE Requeued(m1, p, FALSE, m2)
      <4>1. Good(m2) /\ dl_task(m2, p)
        BY <2>2, <3>4 DEF Requeued, Alike, SameStatus, dl_task
      <4>2. /\ n.tsk = m2.tsk /\ n.dl = m2.dl /\ n.rq.curr = m2.rq.curr
            /\ m2.rq.resched \subseteq n.rq.resched
            /\ \/ m2.rq.curr \in n.rq.resched
               \/ dl_task(m2, m2.rq.curr) /\ ~dl_entity_preempt(m2, p, m2.rq.curr)
        BY <4>1, PreemptEdf, Zenon
      <4> HIDE DEF n
      <4>3. Edf(n)
        BY <1>3, <1>5, <1>6, <3>4, <4>2, JoinEdf, ZenonT(60)
      <4> QED
        BY <4>1, <4>3, ZenonT(60)
    <3> QED
      BY <3>2, <3>3, <3>4, ZenonT(60)
  <2> QED
    BY <2>1, <2>2, Zenon
<1> HIDE DEF m2
<1>8. Good(n) /\ n.rq.bug = m2.rq.bug
  <2>1. n = m2 \/ n = resched_task(m2, m2.rq.curr)
    BY DEF check_preempt_curr, check_preempt_curr_dl
  <2>2. Safe(m2, Task)
    BY <1>7 DEF Safe
  <2>3. Safe(resched_task(m2, m2.rq.curr), Task)
    BY <2>2, ReschedLemma, CurrType, Zenon
  <2> QED
    BY <1>7, <2>1, <2>3, Resched, SMTT(40), SMTT(60) DEF Safe
<1> HIDE DEF n
<1> QED
  BY <1>2, <1>7, <1>8, CommitEdf, ZenonT(60)
\* A task that goes to sleep leaves the tree.
LEMMA DeactivateSafe ==
    ASSUME clock \in Nat, clock >= 1, NEW m, NEW p \in Task, Safe(m, {})
    PROVE  Safe(Deactivate(m, p), {})
<1> DEFINE d == dequeue_task(m, p)
           no == FALSE
           e == [d.tsk[p] EXCEPT !.on_rq = no]
<1>1. Safe(d, {p}) /\ ~Member(d.dl.tree, p)
  BY DequeueTask
<1>2. Deactivate(m, p) = SetTask(d, p, e)
  BY DEF Deactivate
<1>3. no \in BOOLEAN /\ ~no
  OBVIOUS
<1> HIDE DEF d, no
<1>4. d.tsk[p] \in Entity
  BY <1>1, GoodType DEF Safe
<1>5. e \in Entity /\ ~e.on_rq
  BY <1>3, <1>4 DEF Entity
<1> HIDE DEF e
<1>6. Safe(SetTask(d, p, e), {})
  BY <1>1, <1>5, OffTree, ZenonT(60)
<1> QED
  BY <1>2, <1>6, Zenon

\* Marking the running task.
LEMMA ReschedGood ==
    ASSUME NEW m, Good(m), NEW p \in Task \cup {Idle}
    PROVE  Good(resched_task(m, p)) /\ resched_task(m, p).rq.bug = m.rq.bug
<1>1. Safe(m, Task)
  BY DEF Safe
<1>2. Safe(resched_task(m, p), Task)
  BY <1>1, ReschedLemma, Zenon
<1> QED
  BY <1>2, Resched, SMT, Zenon, SMTT(40) DEF Safe

\* Whatever enqueue_task_dl() meets, the tree is in order.
LEMMA EnqueueGood ==
    ASSUME clock \in Nat, clock >= 1, NEW m, Good(m), NEW p \in Task, NEW rep \in BOOLEAN
    PROVE  /\ Good(enqueue_task_dl(m, p, rep))
           /\ enqueue_task_dl(m, p, rep).rq.curr = m.rq.curr
<1> DEFINE n == enqueue_task_dl(m, p, rep)
<1>1. \/ n = m
      \/ \E w \in {"on_dl_rq", "dl_runtime"} : n = BUG_ON(m, w)
      \/ Requeued(m, p, rep, n)
  BY EnqueueCases
<1> HIDE DEF n
<1>2. ASSUME NEW w \in {"on_dl_rq", "dl_runtime"}, n = BUG_ON(m, w)
      PROVE  Good(n) /\ n.rq.curr = m.rq.curr
  <2>1. Safe(m, Task)
    BY Zenon DEF Safe
  <2>2. Safe(n, Task)
    BY <1>2, <2>1, BugLemma
  <2>3. n.rq.curr = m.rq.curr
    BY <1>2, GoodType DEF BUG_ON, SetRq, Runqueue
  <2> QED
    BY <2>2, <2>3, Zenon DEF Safe
<1> QED
  BY <1>1, <1>2, ZenonT(60) DEF Requeued, n


\* schedule() picks the leftmost entity, or a fair task if there is none.
LEMMA ScheduleEdf ==
    ASSUME IInv, EdfInv, NEW sleep \in BOOLEAN, schedule(sleep)
    PROVE  EdfInv'
<1> DEFINE prev == rq.curr
           m1 == IF sleep THEN Deactivate(M, prev) ELSE M
           m2 == put_prev_task(m1, prev)
           x(next) == [m2.rq EXCEPT !.curr = next, !.resched = @ \ {prev}]
<1>1. /\ clock \in Nat /\ clock >= 1 /\ Safe(M, {}) /\ prev \in Task \cup {Idle}
  BY InvSafe DEF Runqueue
<1>2. Safe(m1, {})
  <2>1. CASE sleep
    <3>1. prev \in Task
      BY <1>1, <2>1 DEF schedule
    <3> QED
      BY <1>1, <2>1, <3>1, DeactivateSafe, Zenon
  <2>2. CASE ~sleep
    BY <1>1, <2>2
  <2> QED
    BY <2>1, <2>2
<1> HIDE DEF m1
<1>3. Safe(m2, {})
  BY <1>1, <1>2, UpdateCurrSafe, Zenon DEF put_prev_task
<1>4. PICK next \in Task \cup {Idle} :
        pick_next_task(m2, next) /\ Commit(set_curr_task(SetRq(m2, x(next)), next))
  BY Zenon DEF schedule, m1
<1> HIDE DEF m2
<1>5. m2.rq \in Runqueue
  BY <1>3, GoodType DEF Safe
<1> DEFINE y == x(next)
<1>6. y \in Runqueue /\ y.bug = m2.rq.bug /\ y.curr = next
  BY <1>5, Zenon DEF Runqueue
<1>7. Commit(set_curr_task(SetRq(m2, y), next))
  BY <1>4, Zenon
<1> HIDE DEF y
<1> DEFINE k == SetRq(m2, y)
           n == set_curr_task(k, next)
<1>8. Safe(k, {}) /\ k.rq = y /\ k.tsk = m2.tsk /\ k.dl = m2.dl
  BY <1>3, <1>6, SetRqLemma DEF SetRq
<1> HIDE DEF k
<1>9. Safe(n, {}) /\ n.tsk = k.tsk /\ n.dl = k.dl /\ n.rq.curr = next
  <2>1. Safe(n, {})
    BY <1>1, <1>4, <1>8, SetCurr, ZenonT(60)
  <2> QED
    BY <1>6, <1>8, <2>1, Zenon DEF set_curr_task, SetRq, Runqueue
<1>10. Commit(n)
  BY <1>7 DEF k
<1> HIDE DEF n
<1>11. Edf(n)
  <2>1. Good(n) /\ Caches(n) /\ n.dl.tree \in Seq(Task)
    BY <1>9, GoodType, Zenon DEF Safe, Good
  <2>2. CASE n.dl.tree = <<>>
    <3>1. next = Idle \/ (next \in Task /\ n.tsk[next].on_rq /\ ~dl_task(n, next))
      <4>1. m2.dl.dl_nr_running = 0
        BY <1>8, <1>9, <2>1, <2>2, ZenonT(60) DEF Caches
      <4> QED
        BY <1>4, <1>8, <1>9, <4>1, ZenonT(60) DEF pick_next_task, dl_task
    <3>2. \A q : ~Member(n.dl.tree, q)
      BY <2>2 DEF Member
    <3>3. Leads(n)
      BY <1>9, <3>1, <3>2, TaskAssumption, Zenon DEF Leads, dl_task
    <3> QED
      BY <1>9, <3>1, <3>3, TaskAssumption, Zenon DEF Edf
  <2>3. CASE n.dl.tree # <<>>
    <3>1. next = n.dl.leftmost /\ next = n.dl.tree[1] /\ 1 \in 1 .. Len(n.dl.tree)
      <4>1. n.dl.dl_nr_running # 0 /\ n.dl.leftmost = n.dl.tree[1] /\ 1 \in 1 .. Len(n.dl.tree)
        BY <2>1, <2>3, SMTT(40), SMTT(60) DEF Caches
      <4> QED
        BY <1>4, <1>8, <1>9, <4>1, ZenonT(60) DEF pick_next_task
    <3>2. next \in Task /\ Member(n.dl.tree, next)
      BY <2>1, <3>1 DEF Member
    <3>3. n.tsk[next].on_rq
      BY <1>9, <3>2, Zenon DEF Safe, Fit
    <3>4. Leads(n)
      BY <1>9, <2>1, <3>1, <3>2, LeftmostLeads, ZenonT(60)
    <3> QED
      BY <1>9, <3>3, <3>4, Zenon DEF Edf
  <2> QED
    BY <2>2, <2>3
<1> QED
  BY <1>9, <1>10, <1>11, CommitEdf, ZenonT(60) DEF Safe

\* A task that yields is marked.
LEMMA YieldEdf ==
    ASSUME IInv, EdfInv, yield_task_dl
    PROVE  EdfInv'
<1> DEFINE p == rq.curr
           n == update_curr_dl(Yielding)
<1>1. /\ clock \in Nat /\ clock >= 1 /\ p \in Task /\ tsk[p] \in Entity /\ Good(M)
      /\ M.rq = rq /\ M.dl = dl /\ M.tsk = tsk /\ tsk[p].on_rq
  BY InvSafe DEF yield_task_dl, dl_task, Safe, EdfInv, Edf
<1>2. Good(Yielding) /\ Yielding.rq = rq /\ Yielding.tsk[p].on_rq
  <2>1. CASE ~(tsk[p].runtime > 0)
    BY <1>1, <2>1, Zenon DEF Yielding
  <2>2. CASE tsk[p].runtime > 0
    <3> DEFINE f == tsk[p]
               t == TRUE
               z == 0
               e == [f EXCEPT !.dl_new = t, !.runtime = z]
    <3>1. f \in Entity /\ t \in BOOLEAN /\ z \in Int /\ f.on_rq
      BY <1>1
    <3>2. Yielding = SetTask(M, p, e)
      BY <2>2 DEF Yielding
    <3>3. f = tsk[p]
      OBVIOUS
    <3> HIDE DEF f, t, z
    <3>4. e \in Entity /\ e.deadline = f.deadline /\ e.on_rq
      BY <3>1, Zenon DEF Entity
    <3> HIDE DEF e
    <3> QED
      BY <1>1, <3>2, <3>3, <3>4, PutTask, ZenonT(60)
  <2> QED
    BY <2>1, <2>2
<1>3. n.rq.curr = p /\ n.tsk[p].on_rq
  BY <1>1, <1>2, UpdateEdf, Zenon
<1>4. Safe(n, {})
  BY YieldSafe
<1>5. Commit(resched_task(n, p))
  BY ZenonT(60) DEF yield_task_dl, Yielding
<1> HIDE DEF n
<1>6. Good(resched_task(n, p)) /\ Edf(resched_task(n, p))
  <2>1. Good(n) /\ Safe(resched_task(n, p), {})
    BY <1>1, <1>4, ReschedLemma, Zenon DEF Safe
  <2> QED
    BY <1>3, <2>1, Resched, SMTT(40), SMTT(60) DEF Edf, Safe
<1> QED
  BY <1>5, <1>6, CommitEdf, Zenon

\* A replenished task preempts one that is later; a fair one it always preempts.
LEMMA TimerEdf ==
    ASSUME IInv, CbsInv, EdfInv, NEW p \in Task, dl_task_timer(p)
    PROVE  EdfInv'
<1> DEFINE e  == [tsk[p] EXCEPT !.callback = FALSE]
           e1 == [e EXCEPT !.dl_throttled = FALSE]
           m0 == SetTask(M, p, e)
           m1 == SetTask(M, p, e1)
           m2 == enqueue_task_dl(m1, p, TRUE)
           n  == IF task_has_dl_policy(m2, rq.curr) THEN check_preempt_curr_dl(m2, p)
                 ELSE resched_task(m2, rq.curr)
<1>1. /\ clock \in Nat /\ clock >= 1 /\ Good(M) /\ M.tsk = tsk /\ M.dl = dl /\ M.rq = rq
      /\ tsk[p] \in Entity /\ rq.curr \in Task \cup {Idle} /\ dl.tree \in Seq(Task)
  BY InvSafe, GoodType, Zenon DEF Runqueue, Safe
<1>2. tsk[p].dl_throttled /\ OwnBudget(tsk[p]) /\ ~Member(dl.tree, p)
  BY DEF dl_task_timer, CbsInv, Cbs, Timed, Fair, IInv
<1>3. /\ e \in Entity /\ e.deadline = tsk[p].deadline /\ e.prio = tsk[p].prio
      /\ e.on_rq = tsk[p].on_rq
  <2> DEFINE f == tsk[p]
             b == FALSE
  <2>1. f \in Entity /\ e = [f EXCEPT !.callback = b] /\ b \in BOOLEAN
    BY <1>1
  <2> HIDE DEF f, b, e
  <2>2. e \in Entity /\ e.deadline = f.deadline /\ e.prio = f.prio /\ e.on_rq = f.on_rq
    BY <2>1 DEF Entity
  <2> QED
    BY <2>2 DEF f
<1> HIDE DEF e
<1>4. /\ e1 \in Entity /\ e1.deadline = tsk[p].deadline /\ e1.prio = tsk[p].prio
      /\ e1.on_rq = tsk[p].on_rq /\ ~e1.dl_throttled
  <2> DEFINE b == FALSE
  <2>1. e1 = [e EXCEPT !.dl_throttled = b] /\ b \in BOOLEAN /\ ~b
    OBVIOUS
  <2> HIDE DEF b, e1
  <2>2. /\ e1 \in Entity /\ e1.deadline = e.deadline /\ e1.prio = e.prio /\ e1.on_rq = e.on_rq
        /\ e1.dl_throttled = b
    BY <1>3, <2>1, Zenon DEF Entity
  <2> QED
    BY <1>3, <2>1, <2>2, Zenon
<1> HIDE DEF e1
<1>5. ASSUME NEW f \in Entity, f.deadline = tsk[p].deadline, f.prio = tsk[p].prio,
             f.on_rq = tsk[p].on_rq
      PROVE  LET k == SetTask(M, p, f)
             IN  /\ Edf(k) /\ Good(k) /\ k.rq = rq /\ k.dl = dl /\ k.tsk[p] = f
                 /\ \A q \in Task : q # p => k.tsk[q] = tsk[q]
  <2> DEFINE k == SetTask(M, p, f)
  <2>1. /\ Good(k) /\ k.rq = rq /\ k.dl = dl /\ k.tsk[p] = f
        /\ \A q \in Task : q # p => k.tsk[q] = tsk[q]
    BY <1>1, <1>5, PutTask, Zenon
  <2> HIDE DEF k
  <2>2. \A q \in Task : /\ k.tsk[q].deadline = tsk[q].deadline
                        /\ k.tsk[q].prio = tsk[q].prio /\ k.tsk[q].on_rq = tsk[q].on_rq
    BY <1>5, <2>1, Zenon
  <2>3. Edf(k)
    BY <1>1, <2>1, <2>2, SameEdf, ZenonT(60) DEF EdfInv
  <2> QED
    BY <2>1, <2>3, Zenon DEF k
<1>6. Edf(m0) /\ Good(m0)
  BY <1>3, <1>5, ZenonT(60)
<1>7. /\ Edf(m1) /\ Good(m1) /\ m1.rq = rq /\ m1.dl = dl /\ m1.tsk[p] = e1
      /\ \A q \in Task : q # p => m1.tsk[q] = tsk[q]
  BY <1>4, <1>5
<1>8. Commit(m0) \/ Commit(m1) \/ (tsk[p].on_rq /\ Commit(n))
  BY Zenon DEF dl_task_timer, e, e1
<1> HIDE DEF m0, m1
<1>9. ASSUME tsk[p].on_rq
      PROVE  Good(n) /\ (n.rq.bug = "none" => Edf(n))
  <2> DEFINE c == rq.curr
  <2>0. ASSUME Good(m2), m2.rq.curr = c
        PROVE  /\ Good(n) /\ n.rq.bug = m2.rq.bug /\ n.rq.curr = c /\ n.tsk = m2.tsk
               /\ c \in m2.rq.resched => c \in n.rq.resched
    <3> HIDE DEF m2, c
    <3>1. n = m2 \/ n = resched_task(m2, c)
      BY <2>0, Zenon DEF check_preempt_curr_dl, c
    <3> DEFINE k == resched_task(m2, c)
    <3>2. Good(k)
      BY <1>1, <2>0, ReschedGood, Zenon DEF c
    <3>3. /\ k.rq.bug = m2.rq.bug /\ k.rq.curr = m2.rq.curr /\ k.tsk = m2.tsk
          /\ k.rq.resched = m2.rq.resched \cup {c}
      BY <2>0, Resched, ZenonT(60)
    <3> HIDE DEF n, k
    <3> QED
      BY <2>0, <3>1, <3>2, <3>3, ZenonT(60) DEF k
  <2>1. CASE m2.rq.bug # "none"
    <3>1. Good(m2) /\ m2.rq.curr = c
      BY <1>1, <1>7, EnqueueGood, Zenon
    <3> HIDE DEF m2
    <3>2. Good(n) /\ n.rq.bug = m2.rq.bug
      BY <2>0, <3>1, ZenonT(60)
    <3> HIDE DEF n
    <3> QED
      BY <2>1, <3>2, Zenon
  <2>2. CASE m2.rq.bug = "none"
    <3>1. Requeued(m1, p, TRUE, m2)
      <4>1. \A w \in {"on_dl_rq", "dl_runtime"} : BUG_ON(m1, w).rq.bug = w
        BY <1>7, GoodType, Zenon DEF BUG_ON, SetRq, Runqueue
      <4> QED
        BY <1>1, <1>2, <1>4, <1>7, <2>2, <4>1, EnqueueCases, ZenonT(60)
    <3> HIDE DEF m2
    <3>2. Good(m2) /\ m2.rq = rq /\ \A q \in Task : q # p => m2.tsk[q] = tsk[q]
      BY <1>7, <3>1, Zenon DEF Requeued
    <3>3. Good(n)
      BY <2>0, <3>2, Zenon
    <3>4. CASE c = p
      <4>1. c \in rq.resched /\ tsk[c].on_rq
        BY <1>1, <1>2, <3>4, Zenon DEF EdfInv, Edf, Leads, dl_task, OwnBudget
      <4>2. n.rq.curr = c /\ c \in n.rq.resched /\ n.tsk = m2.tsk
        BY <2>0, <3>2, <4>1, Zenon
      <4>3. m2.tsk[p].on_rq
        BY <1>4, <1>7, <1>9, <3>1, ZenonT(60) DEF Requeued, Alike, SameStatus
      <4> QED
        BY <3>3, <3>4, <4>2, <4>3, ZenonT(60) DEF Edf
    <3>5. CASE c # p
      <4>1. task_has_dl_policy(m2, c) => dl_task(m2, c)
        <5>1. c \in Task => m2.tsk[c] = tsk[c] /\ Cbs(tsk[c])
          BY <3>2, <3>5, Zenon DEF CbsInv
        <5> QED
          BY <5>1 DEF task_has_dl_policy, dl_task, Cbs, Fair, OwnBudget, DL, NORMAL
      <4>2. /\ n.tsk = m2.tsk /\ n.dl = m2.dl /\ n.rq.curr = m2.rq.curr
            /\ m2.rq.resched \subseteq n.rq.resched
            /\ \/ m2.rq.curr \in n.rq.resched
               \/ dl_task(m2, m2.rq.curr) /\ ~dl_entity_preempt(m2, p, m2.rq.curr)
        BY <3>2, <4>1, PreemptEdf, ZenonT(60)
      <4> HIDE DEF n
      <4>3. Edf(n)
        BY <1>7, <3>1, <3>5, <4>2, JoinEdf, ZenonT(60)
      <4> QED
        BY <3>3, <4>3, ZenonT(60)
    <3> QED
      BY <3>4, <3>5, Zenon
  <2> QED
    BY <2>1, <2>2, Zenon
<1> HIDE DEF n
<1> QED
  BY <1>6, <1>7, <1>8, <1>9, CommitEdf, ZenonT(60)

\* The running task becomes a -deadline task: if it does not lead, it was to be replaced.
LEMMA SetschedulerDlEdf ==
    ASSUME IInv, CbsInv, EdfInv, YieldOnly, NEW p \in Task, NEW prm \in Params,
           setscheduler_dl(p, prm)
    PROVE  EdfInv'
<1> DEFINE e  == __setscheduler(M, __setparam_dl(tsk[p], prm), DL)
           m  == SetTask(M, p, e)
           m1 == set_curr_task(m, p)
           m2 == enqueue_task_dl(m1, p, FALSE)
<1>1. /\ clock \in Nat /\ clock >= 1 /\ Safe(M, {}) /\ M.tsk = tsk /\ M.rq = rq /\ M.dl = dl
      /\ tsk[p] \in Entity /\ Good(M) /\ dl.tree \in Seq(Task) /\ rq \in Runqueue
  BY InvSafe, GoodType, SMTT(40), SMTT(60) DEF Safe
<1>2. tsk[p].dl_deadline = 0 /\ tsk[p].dl_deadline \in Nat /\ p = rq.curr /\ tsk[p].on_rq
  BY <1>1, Zenon DEF setscheduler_dl, YieldOnly, Entity, EdfInv, Edf
<1>3. Fair(tsk[p]) /\ Quiet(tsk[p])
  <2>1. Fair(tsk[p])
    BY <1>2, Unreserved, Zenon DEF CbsInv, Cbs
  <2> QED
    BY <1>1, <2>1, InvKept, QueuedCbs, Zenon DEF Fair
<1>4. tsk[p].prio = NORMAL /\ NORMAL # DL /\ ~dl_task(M, p)
  BY <1>1, <1>3, ZenonT(60) DEF Fair, dl_task, DL, NORMAL
<1>5. Detach(M, p) = M
  BY <1>4 DEF Detach, dequeue_task, put_prev_task, update_curr_dl
<1>6. e \in Entity /\ OwnBudget(e) /\ Quiet(e) /\ e.dl_new /\ e.on_rq = tsk[p].on_rq
  BY <1>1, <1>3, FirstReservation, ZenonT(60)
<1>7. Commit(check_class_changed(enqueue_task(m1, p, FALSE), p, tsk[p].prio))
  BY <1>1, <1>5, Zenon DEF setscheduler_dl, Attach
<1>8. ~Member(dl.tree, p) /\ (rq.curr \in rq.resched \/ \A q \in Task : ~Member(dl.tree, q))
  BY <1>1, <1>2, <1>4, Zenon DEF Safe, Fit, dl_task, EdfInv, Edf, Leads
<1> HIDE DEF e
<1>9. Good(m) /\ m.tsk[p] = e /\ m.rq = rq /\ m.dl = dl
  BY <1>1, <1>6, <1>8, PutTask, ZenonT(60)
<1> HIDE DEF m
<1>10. Good(m1) /\ m1.tsk[p] = e /\ m1.dl = dl /\ m1.rq.curr = p /\ m1.rq.resched = rq.resched
  <2>1. m1.tsk = m.tsk /\ m1.dl = m.dl /\ m1.rq.curr = m.rq.curr /\ m1.rq.resched = m.rq.resched
    BY <1>1, <1>9, Zenon DEF set_curr_task, SetRq, Runqueue
  <2>2. Safe(m, Task)
    BY <1>9 DEF Safe
  <2>3. Safe(m1, Task)
    BY <1>1, <2>2, SetCurr, Zenon
  <2> QED
    BY <1>2, <1>9, <2>1, <2>3, Zenon DEF Safe
<1> HIDE DEF m1
<1>11. m1.tsk[p].on_rq /\ dl_task(m1, p)
  BY <1>2, <1>6, <1>10, ZenonT(60) DEF dl_task, OwnBudget
<1>12. enqueue_task(m1, p, FALSE) = m2
  BY <1>11, Zenon DEF enqueue_task
<1>13. Requeued(m1, p, FALSE, m2)
  BY <1>1, <1>6, <1>8, <1>10, EnqueueCases, ZenonT(60) DEF Quiet
<1> HIDE DEF m2
<1>14. /\ Good(m2) /\ m2.rq = m1.rq /\ m2.tsk[p].on_rq /\ m2.tsk[p].prio = DL
       /\ \A q \in Task : Member(m2.dl.tree, q) <=> Member(dl.tree, q) \/ q = p
  BY <1>10, <1>11, <1>13, Zenon DEF Requeued, Alike, SameStatus, dl_task
<1>15. check_class_changed(m2, p, tsk[p].prio) = m2
  <2>1. switched_to_dl(m2, p) = m2
    BY <1>10, <1>14, Zenon DEF switched_to_dl
  <2> QED
    BY <1>4, <1>14, <2>1, Zenon DEF check_class_changed
<1>16. Edf(m2)
  <2>1. CASE rq.curr \in rq.resched
    BY <1>2, <1>10, <1>14, <2>1, ZenonT(60) DEF Edf
  <2>2. CASE \A q \in Task : ~Member(dl.tree, q)
    <3>1. m2.tsk[p].deadline \in Int
      BY <1>14, GoodType, Zenon
    <3>2. Leads(m2)
      BY <1>10, <1>14, <2>2, <3>1, Reflexive, ZenonT(60) DEF Leads
    <3> QED
      BY <1>10, <1>14, <3>2, Zenon DEF Edf
  <2> QED
    BY <1>8, <2>1, <2>2, Zenon
<1> QED
  BY <1>7, <1>12, <1>14, <1>15, <1>16, CommitEdf, ZenonT(60)

\* The expiry of a timer does not matter to the order.
LEMMA TimerFireEdf ==
    ASSUME IInv, EdfInv, NEW p \in Task, TimerFire(p)
    PROVE  EdfInv'
<1> DEFINE f == tsk[p]
           t == TRUE
           z == 0
           e == [f EXCEPT !.expires = z, !.callback = t]
<1>1. tsk \in [Task -> Entity] /\ f \in Entity /\ t \in BOOLEAN /\ z \in Int
  BY InvSafe
<1>2. tsk' = [tsk EXCEPT ![p] = e] /\ rq' = rq /\ dl' = dl
  BY Zenon DEF TimerFire
<1>3. f = tsk[p]
  OBVIOUS
<1> HIDE DEF f, t, z
<1>4. e.deadline = f.deadline /\ e.prio = f.prio /\ e.on_rq = f.on_rq
  BY <1>1 DEF Entity
<1> HIDE DEF e
<1>5. tsk'[p] = e /\ \A q \in Task : q # p => tsk'[q] = tsk[q]
  BY <1>1, <1>2
<1>6. \A q \in Task : /\ tsk'[q].deadline = tsk[q].deadline
                      /\ tsk'[q].prio = tsk[q].prio /\ tsk'[q].on_rq = tsk[q].on_rq
  BY <1>3, <1>4, <1>5, Zenon
<1> QED
  BY <1>2, <1>6, EntityEdf, ZenonT(60)

\* The tick charges the running task.
LEMMA TickEdf ==
    ASSUME IInv, EdfInv, task_tick_dl
    PROVE  EdfInv'
<1>1. clock \in Nat /\ clock >= 1 /\ Safe(M, {}) /\ Good(M)
  BY InvSafe DEF Safe
<1>2. Good(update_curr_dl(M))
  BY <1>1, UpdateCurrSafe, Zenon DEF Safe
<1>3. M.rq.curr \in Task => M.tsk[M.rq.curr].on_rq
  BY Zenon DEF EdfInv, Edf
<1>4. update_curr_dl(M).rq.bug = "none" => Edf(update_curr_dl(M))
  BY <1>1, <1>3, UpdateEdf, Zenon DEF EdfInv
<1> QED
  BY <1>2, <1>4, CommitEdf, Zenon DEF task_tick_dl

\* Initially nothing runs.
LEMMA EdfInit == Init => EdfInv
<1> SUFFICES ASSUME Init
             PROVE  EdfInv
  OBVIOUS
<1>1. M.rq.curr = Idle /\ M.dl.tree = <<>>
  BY DEF Init, M
<1>2. Idle \notin Task
  BY TaskAssumption
<1>3. \A q : ~Member(M.dl.tree, q)
  BY <1>1 DEF Member
<1>4. Leads(M)
  BY <1>1, <1>2, <1>3, ZenonT(60) DEF Leads, dl_task
<1> QED
  BY <1>1, <1>2, <1>4, ZenonT(60) DEF EdfInv, Edf

\* Every step keeps the order, or marks the running task.
LEMMA StepEdf ==
    IInv /\ CbsInv /\ EdfInv /\ YieldOnly /\ [Next]_vars => EdfInv' /\ YieldOnly'
<1> SUFFICES ASSUME IInv, CbsInv, EdfInv, YieldOnly, [Next]_vars
             PROVE  EdfInv'
  BY DEF YieldOnly
<1>1. CASE ClockTick \/ UNCHANGED vars
  BY <1>1, EntityEdf DEF ClockTick, vars
<1>2. CASE task_tick_dl
  BY <1>2, TickEdf
<1>3. CASE yield_task_dl
  BY <1>3, YieldEdf
<1>4. CASE schedule(TRUE) \/ schedule(FALSE)
  BY <1>4, ScheduleEdf, Zenon
<1>5. CASE rt_mutex_unlock
  <2>1. rq.curr \in Task /\ tsk[rq.curr].pi_top # NULL
    BY <1>5 DEF rt_mutex_unlock
  <2> QED
    BY <2>1, Zenon DEF CbsInv, Cbs, Fair, OwnBudget
<1>6. ASSUME NEW p \in Task, wake_up(p)
      PROVE  EdfInv'
  BY <1>6, WakeUpEdf
<1>7. ASSUME NEW p \in Task, TimerFire(p)
      PROVE  EdfInv'
  BY <1>7, TimerFireEdf
<1>8. ASSUME NEW p \in Task, dl_task_timer(p)
      PROVE  EdfInv'
  BY <1>8, TimerEdf
<1>9. ASSUME NEW p \in Task, setscheduler_normal(p) \/ rt_mutex_lock(p)
      PROVE  EdfInv'
  BY <1>9, Zenon DEF setscheduler_normal, rt_mutex_lock, YieldOnly
<1>10. ASSUME NEW p \in Task, NEW prm \in Params, setscheduler_dl(p, prm)
       PROVE  EdfInv'
  BY <1>10, SetschedulerDlEdf, Zenon
<1> QED
  BY <1>1, <1>2, <1>3, <1>4, <1>5, <1>6, <1>7, <1>8, <1>9, <1>10, ZenonT(60) DEF Next

\* Earliest deadline first: whenever a queued task is earlier than the running one, or
\* the running one is not queued, TIF_NEED_RESCHED is set, so that schedule() replaces it.
THEOREM PreemptionCorrect == Spec /\ YieldOnly => []PreemptionPending
<1>1. YieldOnly => OwnServices
  BY DEF YieldOnly, OwnServices
<1>2. Init /\ YieldOnly => EdfInv /\ YieldOnly
  BY EdfInit
<1> QED
  BY <1>1, <1>2, Invariance, CbsInvariance, StepEdf, EdfImplies, PTL DEF Spec
=============================================================================
