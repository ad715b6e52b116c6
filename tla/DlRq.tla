-------------------------------- MODULE DlRq --------------------------------
(***************************************************************************)
(* The SCHED_DEADLINE class of one runqueue: kernel/sched/deadline.c as    *)
(* added by src/sched-dl/patch-dl/sched-add-sched_dl.patch, with the two   *)
(* core.c paths that reach into it (__sched_setscheduler, which changes    *)
(* policy and parameters, and rt_mutex_setprio, which boosts).             *)
(*                                                                         *)
(* Every action is one critical section of rq->lock.  The bandwidth timer  *)
(* is the exception the code has to live with: it expires without the lock *)
(* (TimerFire) and its callback, already beyond cancelling, waits for it   *)
(* (dl_task_timer).                                                        *)
(*                                                                         *)
(* Time is counted in units of 2^DL_SCALE ns, so the shifts in             *)
(* dl_entity_overflow() lose nothing, and MaxClock keeps the clock far     *)
(* below 2^63, so dl_time_before() is <.  The root domain has one CPU:     *)
(* nr_cpus_allowed is 1 and the push/pull code finds nobody.               *)
(***************************************************************************)
EXTENDS Integers, Sequences

CONSTANTS
    Task,       \* the tasks of this CPU
    Idle,       \* its idle task
    NULL,
    Params,     \* the sched_param2 values sched_setscheduler2() is given
    Services,   \* which of "yield", "admit", "setsched", "boost" are used
    Prompt,     \* TRUE: time does not pass while the kernel has work pending
    MaxClock    \* bound on rq->clock

DL     == "DEADLINE"
NORMAL == "NORMAL"

\* What __checkparam_dl() lets through (1 stands for its 2 << (DL_SCALE-1)).
__checkparam_dl(prm) ==
    /\ prm.sched_deadline # 0
    /\ prm.sched_period = 0 \/ prm.sched_period >= prm.sched_deadline
    /\ prm.sched_deadline >= prm.sched_runtime
    /\ prm.sched_runtime >= 1

ASSUME TaskAssumption == Idle \notin Task /\ NULL \notin Task
ASSUME ParamsAssumption ==
    /\ Params \subseteq [sched_runtime : Nat, sched_deadline : Nat, sched_period : Nat]
    /\ \A prm \in Params : __checkparam_dl(prm)
ASSUME BoundAssumption == MaxClock \in Nat /\ Prompt \in BOOLEAN

VARIABLES
    clock,      \* rq_clock(rq); also the hrtimer time base
    rq,         \* the runqueue: curr, its exec_start, need_resched flags
    dl,         \* rq->dl: the deadline tree and what is cached about it
    tsk         \* the tasks, each with its sched_dl_entity and its dl_timer

vars == <<clock, rq, dl, tsk>>

\* The operations below work on a machine state m and return the next one.
M == [rq |-> rq, dl |-> dl, tsk |-> tsk]
SetRq(m, r) == [rq |-> r, dl |-> m.dl, tsk |-> m.tsk]
SetDl(m, d) == [rq |-> m.rq, dl |-> d, tsk |-> m.tsk]
SetTask(m, p, e) == [rq |-> m.rq, dl |-> m.dl, tsk |-> [m.tsk EXCEPT ![p] = e]]
-----------------------------------------------------------------------------
(* The state.                                                              *)

Entity ==
    [policy : {DL, NORMAL},       \* p->policy
     prio : {DL, NORMAL},         \* p->prio: differs from policy when boosted
     on_rq : BOOLEAN,
     dl_runtime : Nat, dl_deadline : Nat, dl_period : Nat,
     runtime : Int, deadline : Int,
     dl_throttled : BOOLEAN, dl_new : BOOLEAN, dl_boosted : BOOLEAN,
     pi_top : Task \cup {NULL},   \* p->pi_top_task
     expires : Int,               \* when dl_timer expires; 0: it is not queued
     callback : BOOLEAN]          \* dl_task_timer() entered, rq->lock not yet taken

Runqueue ==
    [curr : Task \cup {Idle},
     exec_start : Nat,            \* of curr, if it is a -deadline task
     resched : SUBSET (Task \cup {Idle}),   \* who has TIF_NEED_RESCHED
     bug : {"none", "on_dl_rq", "dl_runtime"}]  \* the BUG_ON that stopped the machine

DlRunqueue ==
    [tree : Seq(Task),            \* the rb-tree, read from left to right
     leftmost : Task \cup {NULL}, \* rb_leftmost
     dl_nr_running : Nat,
     earliest : Int]              \* earliest_dl.curr; 0 means no -deadline task

\* __sched_fork() and init_dl_rq().  The clock runs: 0 is no instant of it.
Init ==
    /\ clock = 1
    /\ rq = [curr |-> Idle, exec_start |-> 0, resched |-> {}, bug |-> "none"]
    /\ dl = [tree |-> <<>>, leftmost |-> NULL, dl_nr_running |-> 0, earliest |-> 0]
    /\ tsk = [p \in Task |->
                [policy |-> NORMAL, prio |-> NORMAL, on_rq |-> FALSE,
                 dl_runtime |-> 0, dl_deadline |-> 0, dl_period |-> 0,
                 runtime |-> 0, deadline |-> 0,
                 dl_throttled |-> FALSE, dl_new |-> FALSE, dl_boosted |-> FALSE,
                 pi_top |-> NULL, expires |-> 0,
                 callback |-> FALSE]]
-----------------------------------------------------------------------------
(* Deadlines and budgets: the CBS rules.                                   *)

dl_time_before(a, b) == a < b

dl_task(m, p) == p \in Task /\ m.tsk[p].prio = DL
task_has_dl_policy(m, p) == p \in Task /\ m.tsk[p].policy = DL
dl_entity_preempt(m, a, b) == dl_time_before(m.tsk[a].deadline, m.tsk[b].deadline)

\* A full budget and a deadline one relative deadline away.
Renew(e, pi) == [e EXCEPT !.deadline = clock + pi.dl_deadline,
                          !.runtime = pi.dl_runtime]

setup_new_dl_entity(e, pi) == [Renew(e, pi) EXCEPT !.dl_new = FALSE]

\* Mutant: the loop runs once too often.
Instances_OnceMore(runtime, q) == IF runtime <= 0 THEN (-runtime) \div q + 2 ELSE 0

\* The while loop of replenish_dl_entity() runs this often.
Instances(runtime, q) == IF runtime <= 0 THEN (-runtime) \div q + 1 ELSE 0

replenish_dl_entity(e, pi) ==
    LET e1 == IF e.dl_deadline = 0 THEN Renew(e, pi) ELSE e
        k  == Instances(e1.runtime, pi.dl_runtime)
        e2 == [e1 EXCEPT !.deadline = @ + k * pi.dl_period,
                         !.runtime = @ + k * pi.dl_runtime]
    IN  IF dl_time_before(e2.deadline, clock) THEN Renew(e2, pi) ELSE e2

dl_entity_overflow(e, pi) ==
    (e.deadline - clock) * pi.dl_runtime < pi.dl_period * e.runtime

\* Mutant: only a deadline in the past is renewed, the bandwidth is not looked at.
update_dl_entity_NoOverflow(e, pi) ==
    IF e.dl_new THEN setup_new_dl_entity(e, pi)
    ELSE IF dl_time_before(e.deadline, clock) THEN Renew(e, pi) ELSE e

update_dl_entity(e, pi) ==
    IF e.dl_new THEN setup_new_dl_entity(e, pi)
    ELSE IF dl_time_before(e.deadline, clock) \/ dl_entity_overflow(e, pi)
         THEN Renew(e, pi)
         ELSE e
-----------------------------------------------------------------------------
(* The deadline tree.                                                      *)

on_dl_rq(m, p) == \E i \in 1 .. Len(m.dl.tree) : m.dl.tree[i] = p

resched_task(m, p) == SetRq(m, [m.rq EXCEPT !.resched = @ \cup {p}])
BUG_ON(m, which) == SetRq(m, [m.rq EXCEPT !.bug = which])

\* The rb-tree descent: behind every entry that is not later than p.
Insert(m, p) ==
    LET s == m.dl.tree
        Passed(i) == ~dl_time_before(m.tsk[p].deadline, m.tsk[s[i]].deadline)
    IN  [i \in 1 .. Len(s) + 1 |->
            IF i <= Len(s) /\ Passed(i) THEN s[i]
            ELSE IF i = 1 \/ Passed(i - 1) THEN p ELSE s[i - 1]]

Remove(s, p) ==
    [i \in 1 .. Len(s) - 1 |-> IF \E j \in 1 .. i : s[j] = p THEN s[i + 1] ELSE s[i]]

rb_next(s, p) ==
    LET i == CHOOSE i \in 1 .. Len(s) : s[i] = p
    IN  IF i < Len(s) THEN s[i + 1] ELSE NULL

DlRqOf(tree, l, n, f) == [tree |-> tree, leftmost |-> l, dl_nr_running |-> n, earliest |-> f]

__enqueue_dl_entity(m, p) ==
    LET d == m.tsk[p].deadline
        s == m.dl.tree
        l == IF s = <<>> \/ dl_time_before(d, m.tsk[s[1]].deadline) THEN p ELSE m.dl.leftmost
        f == IF m.dl.earliest = 0 \/ dl_time_before(d, m.dl.earliest) THEN d ELSE m.dl.earliest
    IN  SetDl(m, DlRqOf(Insert(m, p), l, m.dl.dl_nr_running + 1, f))

\* Mutant: an entity that is not queued is counted out all the same.
__dequeue_dl_entity_Unchecked(m, p) ==
    LET s == m.dl.tree
        l == IF m.dl.leftmost = p THEN rb_next(s, p) ELSE m.dl.leftmost
        n == m.dl.dl_nr_running - 1
    IN  IF ~on_dl_rq(m, p) THEN SetDl(m, DlRqOf(s, m.dl.leftmost, n, m.dl.earliest))
        ELSE SetDl(m, DlRqOf(Remove(s, p), l, n, IF n = 0 THEN 0 ELSE m.tsk[l].deadline))

\* Mutant: earliest_dl.curr is not refreshed.
__dequeue_dl_entity_Stale(m, p) ==
    LET s == m.dl.tree
        l == IF m.dl.leftmost = p THEN rb_next(s, p) ELSE m.dl.leftmost
    IN  IF ~on_dl_rq(m, p) THEN m
        ELSE SetDl(m, DlRqOf(Remove(s, p), l, m.dl.dl_nr_running - 1, m.dl.earliest))

__dequeue_dl_entity(m, p) ==
    LET s == m.dl.tree
        l == IF m.dl.leftmost = p THEN rb_next(s, p) ELSE m.dl.leftmost
        n == m.dl.dl_nr_running - 1
        f == IF n = 0 THEN 0 ELSE m.tsk[l].deadline
    IN  IF ~on_dl_rq(m, p) THEN m ELSE SetDl(m, DlRqOf(Remove(s, p), l, n, f))

\* The entity whose parameters p is replenished with.
PiSe(m, p) ==
    LET e == m.tsk[p]
    IN  IF e.pi_top # NULL /\ e.dl_boosted /\ m.tsk[e.pi_top].policy = DL
        THEN m.tsk[e.pi_top] ELSE e

enqueue_task_dl(m, p, replenish) ==
    LET e  == m.tsk[p]
        pi == PiSe(m, p)
        r  == replenish /\ ~e.dl_new
    IN  IF e.dl_throttled THEN m
        ELSE IF on_dl_rq(m, p) THEN BUG_ON(m, "on_dl_rq")
        ELSE IF r /\ pi.dl_runtime <= 0 THEN BUG_ON(m, "dl_runtime")
        ELSE __enqueue_dl_entity(
               SetTask(m, p, IF r THEN replenish_dl_entity(e, pi)
                                  ELSE update_dl_entity(e, pi)), p)

-----------------------------------------------------------------------------
(* Accounting, the bandwidth timer, and the hooks of the scheduling class. *)

\* dl_runtime_exceeded(): overrunning the deadline is charged as well.
dl_runtime_exceeded(e) == dl_time_before(e.deadline, clock) \/ e.runtime <= 0
ChargeMiss(e) ==
    IF dl_time_before(e.deadline, clock)
    THEN [e EXCEPT !.runtime = (IF @ <= 0 THEN @ ELSE 0) - (clock - e.deadline)]
    ELSE e

\* start_dl_timer() declines for a boosted task and for an instant in the past.
CanStartTimer(e) == ~e.dl_boosted /\ ~dl_time_before(e.deadline, clock)
start_dl_timer(e) == [e EXCEPT !.expires = e.deadline]

\* Mutant: the task stays in the tree.
Throttle_InPlace(m, p) ==
    LET e == m.tsk[p]
    IN  IF CanStartTimer(e)
        THEN SetTask(m, p, [start_dl_timer(e) EXCEPT !.dl_throttled = TRUE])
        ELSE enqueue_task_dl(__dequeue_dl_entity(m, p), p, TRUE)

\* Mutant: throttled before it is known whether the timer can be started.
Throttle_First(m, p) ==
    LET m1 == __dequeue_dl_entity(SetTask(m, p, [m.tsk[p] EXCEPT !.dl_throttled = TRUE]), p)
        e  == m1.tsk[p]
        m2 == IF CanStartTimer(e) THEN SetTask(m1, p, start_dl_timer(e))
              ELSE enqueue_task_dl(m1, p, TRUE)
    IN  IF m2.dl.leftmost # p THEN resched_task(m2, p) ELSE m2

\* Mutant: taken off the tree only when the timer can be started.
Throttle_TimerOnly(m, p) ==
    LET e  == m.tsk[p]
        m2 == IF CanStartTimer(e)
              THEN SetTask(__dequeue_dl_entity(m, p), p,
                           [start_dl_timer(e) EXCEPT !.dl_throttled = TRUE])
              ELSE enqueue_task_dl(m, p, TRUE)
    IN  IF m2.dl.leftmost # p THEN resched_task(m2, p) ELSE m2

Throttle(m, p) ==
    LET m1 == __dequeue_dl_entity(m, p)
        e  == m1.tsk[p]
        m2 == IF CanStartTimer(e)
              THEN SetTask(m1, p, [start_dl_timer(e) EXCEPT !.dl_throttled = TRUE])
              ELSE enqueue_task_dl(m1, p, TRUE)
    IN  IF m2.dl.leftmost # p THEN resched_task(m2, p) ELSE m2

delta_exec(m) == IF clock < m.rq.exec_start THEN 0 ELSE clock - m.rq.exec_start

update_curr_dl(m) ==
    LET p == m.rq.curr
        e == [m.tsk[p] EXCEPT !.runtime = @ - delta_exec(m)]
        Charged(f) == SetTask(SetRq(m, [m.rq EXCEPT !.exec_start = clock]), p, f)
    IN  IF ~dl_task(m, p) \/ ~on_dl_rq(m, p) THEN m
        ELSE IF dl_runtime_exceeded(e) THEN Throttle(Charged(ChargeMiss(e)), p)
        ELSE Charged(e)

dequeue_task_dl(m, p) == __dequeue_dl_entity(update_curr_dl(m), p)

\* hrtimer_try_to_cancel(): a callback that has begun cannot be stopped.
hrtimer_try_to_cancel(e) == IF e.callback THEN e ELSE [e EXCEPT !.expires = 0]

\* The sched_class dispatch of core.c; other classes keep no state here.
dequeue_task(m, p) ==
    IF m.tsk[p].on_rq /\ dl_task(m, p) THEN dequeue_task_dl(m, p) ELSE m
put_prev_task(m, p) == IF m.rq.curr = p THEN update_curr_dl(m) ELSE m
set_curr_task(m, p) ==
    IF m.rq.curr = p
    THEN SetRq(m, [m.rq EXCEPT !.exec_start = IF dl_task(m, p) THEN clock ELSE 0])
    ELSE m
enqueue_task(m, p, replenish) ==
    IF m.tsk[p].on_rq /\ dl_task(m, p) THEN enqueue_task_dl(m, p, replenish) ELSE m

\* Mutant: no preemption within the class.
check_preempt_curr_dl_Never(m, p) == m

check_preempt_curr_dl(m, p) ==
    IF dl_entity_preempt(m, p, m.rq.curr) THEN resched_task(m, m.rq.curr) ELSE m

\* check_preempt_curr(): the class of curr decides, or the higher class wins.
check_preempt_curr(m, p) ==
    IF dl_task(m, p) /\ dl_task(m, m.rq.curr) THEN check_preempt_curr_dl(m, p)
    ELSE IF dl_task(m, p) \/ m.rq.curr = Idle THEN resched_task(m, m.rq.curr)
    ELSE m

switched_from_dl(m, p) ==
    IF m.tsk[p].policy # DL THEN SetTask(m, p, hrtimer_try_to_cancel(m.tsk[p])) ELSE m

switched_to_dl(m, p) ==
    IF /\ ~m.tsk[p].dl_throttled
       /\ ~m.tsk[p].on_rq \/ m.rq.curr # p
       /\ task_has_dl_policy(m, m.rq.curr)
    THEN check_preempt_curr_dl(m, p) ELSE m

prio_changed_dl(m, p) ==
    IF ~m.tsk[p].on_rq /\ m.rq.curr # p THEN switched_to_dl(m, p)
    ELSE IF dl_time_before(m.dl.earliest, m.tsk[p].deadline) /\ m.rq.curr = p
         THEN resched_task(m, p) ELSE m

switched_to_fair(m, p) ==
    IF ~m.tsk[p].on_rq THEN m
    ELSE IF m.rq.curr = p THEN resched_task(m, p) ELSE check_preempt_curr(m, p)

check_class_changed(m, p, oldprio) ==
    LET newprio == m.tsk[p].prio
    IN  CASE oldprio = DL /\ newprio = DL     -> prio_changed_dl(m, p)
          [] oldprio # DL /\ newprio = DL     -> switched_to_dl(m, p)
          [] oldprio = DL /\ newprio # DL     -> switched_to_fair(switched_from_dl(m, p), p)
          [] OTHER                            -> m

\* Both core.c paths take p off its queue, change it, and put it back.
Detach(m, p) == put_prev_task(dequeue_task(m, p), p)
Attach(m, p, oldprio, replenish) ==
    check_class_changed(enqueue_task(set_curr_task(m, p), p, replenish), p, oldprio)
-----------------------------------------------------------------------------
(* The steps.  A BUG_ON stops the machine where the operation began.       *)

Commit(m) ==
    IF m.rq.bug = "none"
    THEN rq' = m.rq /\ dl' = m.dl /\ tsk' = m.tsk
    ELSE rq' = [rq EXCEPT !.bug = m.rq.bug] /\ UNCHANGED <<dl, tsk>>

Running == rq.bug = "none"

\* p waits for a mutex that another task holds.
Blocked(p) == \E q \in Task : tsk[q].pi_top = p

task_tick_dl ==
    /\ Running /\ dl_task(M, rq.curr)
    /\ Commit(update_curr_dl(M))
    /\ UNCHANGED clock

yield_task_dl ==
    LET p  == rq.curr
        m1 == IF tsk[p].runtime > 0
              THEN SetTask(M, p, [tsk[p] EXCEPT !.dl_new = TRUE, !.runtime = 0]) ELSE M
    IN  /\ Running /\ "yield" \in Services /\ dl_task(M, p) /\ ~Blocked(p)
        /\ Commit(resched_task(update_curr_dl(m1), p))   \* sys_sched_yield() schedules
        /\ UNCHANGED clock

\* schedule(): prev goes to sleep or stays runnable, and a successor is picked.
Deactivate(m, p) ==
    LET m1 == dequeue_task(m, p) IN SetTask(m1, p, [m1.tsk[p] EXCEPT !.on_rq = FALSE])

pick_next_task(m, next) ==
    IF m.dl.dl_nr_running # 0
    THEN next = m.dl.leftmost
    ELSE LET fair == {q \in Task : m.tsk[q].on_rq /\ ~dl_task(m, q)}
         IN  IF fair = {} THEN next = Idle ELSE next \in fair

schedule(sleep) ==
    LET prev == rq.curr
        m1 == IF sleep THEN Deactivate(M, prev) ELSE M
        m2 == put_prev_task(m1, prev)
    IN  /\ Running
        /\ sleep => prev # Idle
        /\ ~sleep => (prev \in rq.resched \/ ~dl_task(M, prev)) /\ ~Blocked(prev)
        /\ \E next \in Task \cup {Idle} :
              /\ pick_next_task(m2, next)
              /\ Commit(set_curr_task(SetRq(m2, [m2.rq EXCEPT !.curr = next,
                                                              !.resched = @ \ {prev}]), next))
        /\ UNCHANGED clock

\* try_to_wake_up() on this CPU.
Activate(m, p) ==
    LET m1 == SetTask(m, p, [m.tsk[p] EXCEPT !.on_rq = TRUE])
    IN  check_preempt_curr(enqueue_task(m1, p, FALSE), p)

wake_up(p) ==
    /\ Running /\ ~tsk[p].on_rq /\ ~Blocked(p)
    /\ Commit(Activate(M, p))
    /\ UNCHANGED clock

\* The hrtimer interrupt enters the callback; rq->lock may be busy.
TimerFire(p) ==
    /\ Running /\ tsk[p].expires # 0 /\ tsk[p].expires <= clock /\ ~tsk[p].callback
    /\ tsk' = [tsk EXCEPT ![p].expires = 0, ![p].callback = TRUE]
    /\ UNCHANGED <<clock, rq, dl>>

\* Mutant: the replenished task is not queued again.
dl_task_timer_NoEnqueue(p) ==
    /\ Running /\ tsk[p].callback
    /\ Commit(SetTask(M, p, [tsk[p] EXCEPT !.callback = FALSE, !.dl_throttled = FALSE]))
    /\ UNCHANGED clock

\* Mutant: a task that sleeps stays throttled.
dl_task_timer_OnRqOnly(p) ==
    LET e  == [tsk[p] EXCEPT !.callback = FALSE]
        m0 == SetTask(M, p, e)
        m2 == enqueue_task_dl(SetTask(M, p, [e EXCEPT !.dl_throttled = FALSE]), p, TRUE)
    IN  /\ Running /\ tsk[p].callback
        /\ Commit(IF ~dl_task(M, p) \/ tsk[p].dl_new \/ ~tsk[p].on_rq THEN m0
                  ELSE resched_task(m2, rq.curr))
        /\ UNCHANGED clock

dl_task_timer(p) ==
    LET e  == [tsk[p] EXCEPT !.callback = FALSE]
        m0 == SetTask(M, p, e)
        m1 == SetTask(M, p, [e EXCEPT !.dl_throttled = FALSE])
        m2 == enqueue_task_dl(m1, p, TRUE)
    IN  /\ Running /\ tsk[p].callback
        /\ Commit(IF ~dl_task(M, p) \/ tsk[p].dl_new THEN m0
                  ELSE IF ~tsk[p].on_rq THEN m1
                  ELSE IF task_has_dl_policy(m2, rq.curr) THEN check_preempt_curr_dl(m2, p)
                  ELSE resched_task(m2, rq.curr))
        /\ UNCHANGED clock

__setparam_dl(e, prm) ==
    [hrtimer_try_to_cancel(e) EXCEPT
        !.dl_runtime = prm.sched_runtime,
        !.dl_deadline = prm.sched_deadline,
        !.dl_period = IF prm.sched_period # 0 THEN prm.sched_period ELSE prm.sched_deadline,
        !.dl_throttled = FALSE,
        !.dl_new = TRUE]

\* rt_mutex_getprio(): the better of p's own and its top waiter's priority.
rt_mutex_getprio(m, e) ==
    IF e.policy = DL \/ (e.pi_top # NULL /\ m.tsk[e.pi_top].prio = DL) THEN DL ELSE NORMAL

__setscheduler(m, e, policy) ==
    LET e1 == [e EXCEPT !.policy = policy] IN [e1 EXCEPT !.prio = rt_mutex_getprio(m, e1)]

\* Becoming SCHED_DEADLINE, or changing the reservation.  A task may always do the
\* former for itself, once (as test-dl.c does); "admit" lets others do it to it;
\* "setsched" allows any change at any time.  (Changing a task that waits for a
\* mutex starts the PI chain walk, not modelled here.)
setscheduler_dl(p, prm) ==
    LET m1 == Detach(M, p)
        m2 == SetTask(m1, p, __setscheduler(m1, __setparam_dl(m1.tsk[p], prm), DL))
    IN  /\ Running /\ ~Blocked(p)
        /\ \/ "setsched" \in Services
           \/ tsk[p].dl_deadline = 0 /\ (p = rq.curr \/ "admit" \in Services)
        /\ Commit(Attach(m2, p, tsk[p].prio, FALSE))
        /\ UNCHANGED clock

setscheduler_normal(p) ==
    LET m1 == Detach(M, p)
        m2 == SetTask(m1, p, __setscheduler(m1, m1.tsk[p], NORMAL))
    IN  /\ Running /\ ~Blocked(p) /\ "setsched" \in Services /\ tsk[p].policy = DL
        /\ Commit(Attach(m2, p, tsk[p].prio, FALSE))
        /\ UNCHANGED clock

rt_mutex_setprio(m, p, prio, top) ==
    LET m1 == Detach(SetTask(m, p, [m.tsk[p] EXCEPT !.pi_top = top]), p)
        e  == m1.tsk[p]
        boost == /\ prio = DL
                 /\ e.policy # DL \/ (top # NULL /\ dl_entity_preempt(m1, top, p))
        m2 == SetTask(m1, p,
                 [e EXCEPT !.dl_boosted = boost \/ (@ /\ prio # DL /\ m.tsk[p].prio # DL),
                           !.dl_throttled = @ /\ ~boost,
                           !.prio = prio])
    IN  Attach(m2, p, m.tsk[p].prio, boost)

\* curr blocks on a mutex that p holds and lends p its deadline priority.
rt_mutex_lock(p) ==
    LET w == rq.curr
    IN  /\ Running /\ "boost" \in Services
        /\ dl_task(M, w) /\ w # p /\ ~Blocked(w) /\ ~Blocked(p) /\ tsk[p].pi_top = NULL
        /\ Commit(resched_task(rt_mutex_setprio(M, p, DL, w), w))
        /\ UNCHANGED clock

\* curr releases the mutex: its waiter wakes up, its own priority is restored.
rt_mutex_unlock ==
    LET p == rq.curr
    IN  /\ Running /\ p \in Task /\ ~Blocked(p) /\ tsk[p].pi_top # NULL
        /\ Commit(rt_mutex_setprio(Activate(M, tsk[p].pi_top), p, tsk[p].policy, NULL))
        /\ UNCHANGED clock

\* Work the kernel has to do at this instant.
Pending ==
    \/ rq.curr \in rq.resched
    \/ dl_task(M, rq.curr) /\ on_dl_rq(M, rq.curr) /\ clock > rq.exec_start
    \/ \E p \in Task : tsk[p].callback \/ (tsk[p].expires # 0 /\ tsk[p].expires <= clock)

ClockTick ==
    /\ Running /\ clock < MaxClock
    /\ Prompt => ~Pending
    /\ clock' = clock + 1
    /\ UNCHANGED <<rq, dl, tsk>>

Next ==
    \/ ClockTick
    \/ task_tick_dl
    \/ yield_task_dl
    \/ schedule(TRUE)
    \/ schedule(FALSE)
    \/ rt_mutex_unlock
    \/ \E p \in Task :
          \/ wake_up(p)
          \/ TimerFire(p)
          \/ dl_task_timer(p)
          \/ setscheduler_normal(p)
          \/ rt_mutex_lock(p)
          \/ \E prm \in Params : setscheduler_dl(p, prm)

Spec == Init /\ [][Next]_vars

\* Time passes, expired timers are serviced, and the lock is handed to a callback
\* that spins for it: dl_task_timer(p) is possible while tsk[p].callback, and ends it.
FairSpec ==
    /\ Spec
    /\ WF_vars(ClockTick)
    /\ \A p \in Task : WF_vars(TimerFire(p)) /\ []<>(~tsk[p].callback \/ ~Running)
-----------------------------------------------------------------------------
(* Properties.                                                             *)

\* The runqueue, the cached views of its tree and every sched_dl_entity keep the
\* types of their C structures; in particular dl_nr_running never goes below 0.
TypeOK ==
    /\ clock \in Nat
    /\ rq \in Runqueue
    /\ dl \in DlRunqueue
    /\ tsk \in [Task -> Entity]

\* The tree is in deadline order and holds no entity twice: no path changes the
\* deadline of an entity that is queued.
EdfOrder ==
    \A i, j \in 1 .. Len(dl.tree) :
        i < j => /\ dl.tree[i] # dl.tree[j]
                 /\ tsk[dl.tree[i]].deadline <= tsk[dl.tree[j]].deadline

\* The three cached views of the tree (rb_leftmost, dl_nr_running,
\* earliest_dl.curr) agree with it.
CachesAgree ==
    /\ dl.dl_nr_running = Len(dl.tree)
    /\ dl.leftmost = IF dl.tree = <<>> THEN NULL ELSE dl.tree[1]
    /\ dl.earliest = IF dl.tree = <<>> THEN 0 ELSE tsk[dl.tree[1]].deadline

\* The tree is what __pick_next_entity() and the callers of the caches take it for.
TreeCoherent == EdfOrder /\ CachesAgree

\* A queued entity is runnable, of the deadline class, not throttled, not new.
QueuedSound ==
    \A i \in 1 .. Len(dl.tree) :
        LET e == tsk[dl.tree[i]]
        IN  e.on_rq /\ e.prio = DL /\ ~e.dl_throttled /\ ~e.dl_new

\* No runnable -deadline task is lost: it is queued, or throttled.
NoneLost ==
    \A p \in Task : tsk[p].on_rq /\ tsk[p].prio = DL => on_dl_rq(M, p) \/ tsk[p].dl_throttled

\* The tree holds exactly the runnable -deadline tasks that are not throttled.
ExactlyRunnable == QueuedSound /\ NoneLost

\* A queued entity without budget is at its deadline already, so that the next
\* accounting throttles it: CBS never queues an exhausted entity ahead of time.
\* (The equality is reachable: the timer fires at the deadline while the task
\* sleeps, and it wakes up at that very instant.)
BudgetWhileQueued ==
    \A i \in 1 .. Len(dl.tree) :
        LET e == tsk[dl.tree[i]] IN e.runtime <= 0 => e.deadline <= clock

\* While nobody lends a budget, none exceeds the reservation.
BudgetBounded ==
    \A i \in 1 .. Len(dl.tree) :
        LET e == tsk[dl.tree[i]] IN e.runtime <= e.dl_runtime

\* No BUG_ON stops the machine.
NoBug == rq.bug = "none"

\* The rules of the constant bandwidth server, for tasks that use their own reservation.
BudgetRules == BudgetWhileQueued /\ BudgetBounded /\ NoBug

\* A throttled runnable task will be woken by its bandwidth timer.
ThrottledHasTimer ==
    \A p \in Task :
        tsk[p].on_rq /\ tsk[p].prio = DL /\ tsk[p].dl_throttled
            => tsk[p].expires # 0 \/ tsk[p].callback

\* The exception: yield_task_dl() sets dl_new, which dl_task_timer() takes for a new task.
OnlyYieldStuck ==
    \A p \in Task :
        tsk[p].on_rq /\ tsk[p].prio = DL /\ tsk[p].dl_throttled
            => tsk[p].expires # 0 \/ tsk[p].callback \/ tsk[p].dl_new

\* A throttled task that did not yield is replenished once its timer is due (within the
\* horizon of the clock), whether it is runnable or asleep by then.
Replenished ==
    \A p \in Task :
        tsk[p].dl_throttled /\ ~tsk[p].dl_new /\ tsk[p].expires \in 1 .. MaxClock ~> ~tsk[p].dl_throttled

\* "If here, we know a task is not on its dl_rq": dl_task_timer() past its test.
TimerFindsDequeued ==
    \A p \in Task :
        tsk[p].callback /\ tsk[p].prio = DL /\ ~tsk[p].dl_new => ~on_dl_rq(M, p)

\* There are two ways to a BUG_ON.  A task is queued twice only by a late callback that
\* finds it replenished already; no reservation is left to replenish from only for a task
\* that never had one, when it, or the running task that is to lend it a deadline, has the
\* deadline priority of a waiter.
BugCauses ==
    /\ rq.bug = "on_dl_rq" => \E p \in Task : tsk[p].callback /\ on_dl_rq(M, p)
    /\ rq.bug = "dl_runtime" =>
          \E p, q \in Task :
              /\ tsk[p].policy = NORMAL /\ tsk[p].dl_runtime = 0
              /\ q \in {p, rq.curr} /\ tsk[q].prio = DL /\ tsk[q].policy = NORMAL

\* EDF: a queued task that is earlier than the running one is about to run.
First == dl.tree[1]
EarlierWaits ==
    /\ dl.tree # <<>>
    /\ on_dl_rq(M, rq.curr) => tsk[First].deadline < tsk[rq.curr].deadline
PreemptionPending == EarlierWaits => rq.curr \in rq.resched

\* With an utilisation of at most 1, implicit deadlines and a kernel that acts
\* promptly, the budget of every queued instance is served by its deadline.
NoDeadlineMiss ==
    \A i \in 1 .. Len(dl.tree) :
        LET p == dl.tree[i]
            served == IF p = rq.curr THEN clock - rq.exec_start ELSE 0
        IN  tsk[p].deadline < clock => tsk[p].runtime - served <= 0
=============================================================================
