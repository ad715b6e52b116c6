------------------------------- MODULE DlSmp -------------------------------
(***************************************************************************)
(* Push and pull migration of kernel/sched/deadline.c: the runqueues of    *)
(* several CPUs of one root domain, every task of the deadline class.      *)
(* Budgets and time are abstracted to choices: the running task may        *)
(* exhaust its budget whenever it is accounted for, and a new deadline is  *)
(* any later one.  What remains is the order of the steps: a step is what  *)
(* one CPU does between taking and dropping runqueue locks, or one access  *)
(* to the root domain, which takes none of them.                           *)
(***************************************************************************)
EXTENDS Integers, Sequences, FiniteSets

CONSTANTS
    Cpu,        \* the CPUs, numbers from 0
    Task,
    Idle,       \* whatever runs when no -deadline task does
    MaxDl,      \* bound of the absolute deadlines
    Masks       \* the affinities that set_cpus_allowed_ptr() is called with

ASSUME SmpAssumption ==
    /\ Cpu \subseteq Nat /\ IsFiniteSet(Cpu) /\ IsFiniteSet(Task) /\ Idle \notin Task
    /\ MaxDl \in Nat /\ Masks \subseteq SUBSET Cpu

VARIABLES
    rq,     \* the runqueues
    tsk,    \* the tasks
    rd,     \* the root domain: dlo_mask, dlo_count, and cpudl as the map of CpuDlMap
    lock,   \* rq->lock: the CPU that holds it, or Free
    ctx,    \* what the kernel is doing on each CPU
    bug     \* the BUG_ON that stopped the machine

vars == <<rq, tsk, rd, lock, ctx, bug>>

Free == -1
Later(d) == d + 1 .. MaxDl
DL_MAX_TRIES == 3

Elems(s) == {s[i] : i \in 1 .. Len(s)}
Without(s, p) ==
    IF p \notin Elems(s) THEN s
    ELSE [i \in 1 .. Len(s) - 1 |-> IF \E j \in 1 .. i : s[j] = p THEN s[i + 1] ELSE s[i]]

\* The kernel is not at work: pc, and no locals (the runqueue, the task, the other CPU, the
\* failed tries, dmin, and whether push_dl_tasks() or a single push_dl_task() was called).
User == [pc |-> "user", rq |-> 0, task |-> Idle, to |-> 0, tries |-> 0, dmin |-> MaxDl + 1,
         all |-> FALSE]

Init ==
    /\ rq = [c \in Cpu |-> [curr |-> Idle, tree |-> <<>>, push |-> <<>>, first |-> 0, next |-> 0,
                            nr_migratory |-> 0, overloaded |-> FALSE, resched |-> FALSE]]
    /\ \E where \in [Task -> Cpu] :
          tsk = [p \in Task |-> [cpu |-> where[p], allowed |-> Cpu, on_rq |-> FALSE, dl |-> 0,
                                 throttled |-> FALSE, armed |-> FALSE]]
    /\ rd = [dlo_mask |-> {}, dlo_count |-> 0, cpudl |-> [c \in Cpu |-> 0]]
    /\ lock = [c \in Cpu |-> Free]
    /\ ctx = [c \in Cpu |-> User]
    /\ bug = "none"

-----------------------------------------------------------------------------
(* The functions of deadline.c, from a machine to a machine.               *)

M == [rq |-> rq, tsk |-> tsk, rd |-> rd, bug |-> bug]
BUG_ON(m, what, why) == IF what /\ m.bug = "none" THEN [m EXCEPT !.bug = why] ELSE m

on_dl_rq(m, p) == \E c \in Cpu : p \in Elems(m.rq[c].tree)
dl_task(p) == p # Idle
Migratory(m, p) == Cardinality(m.tsk[p].allowed) > 1
dl_entity_preempt(m, p, q) == m.tsk[p].dl < m.tsk[q].dl

resched_task(m, c) == [m EXCEPT !.rq[c].resched = TRUE]

\* Into an rb-tree, behind those of the same deadline.
Insert(m, s, p) ==
    LET n == Cardinality({i \in 1 .. Len(s) : m.tsk[s[i]].dl <= m.tsk[p].dl})
    IN  SubSeq(s, 1, n) \o <<p>> \o SubSeq(s, n + 1, Len(s))

enqueue_pushable_dl_task(m, c, p) ==
    [BUG_ON(m, \E d \in Cpu : p \in Elems(m.rq[d].push), "pushable")
        EXCEPT !.rq[c].push = Insert(m, @, p)]
dequeue_pushable_dl_task(m, c, p) == [m EXCEPT !.rq[c].push = Without(@, p)]

pick_dl_task(m, c, p, cpu) ==
    m.rq[c].curr # p /\ cpu \in m.tsk[p].allowed /\ Migratory(m, p)

\* The earliest task behind the leftmost one that cpu may take, or Idle.
pick_next_earliest_dl_task(m, c, cpu) ==
    LET s == m.rq[c].tree
        takes == {i \in 2 .. Len(s) : pick_dl_task(m, c, s[i], cpu)}
    IN  IF takes = {} THEN Idle ELSE s[CHOOSE i \in takes : \A j \in takes : i <= j]

next_deadline(m, c) ==
    LET p == pick_next_earliest_dl_task(m, c, c) IN IF p = Idle THEN 0 ELSE m.tsk[p].dl

inc_dl_deadline(m, c, d) ==
    LET q == m.rq[c]
    IN  IF q.first = 0 \/ d < q.first
        THEN [m EXCEPT !.rq[c].next = q.first, !.rq[c].first = d, !.rd.cpudl[c] = d]
        ELSE IF q.next = 0 \/ d < q.next
        THEN [m EXCEPT !.rq[c].next = next_deadline(m, c)]
        ELSE m

dec_dl_deadline(m, c) ==
    LET s == m.rq[c].tree
        d == IF s = <<>> THEN 0 ELSE m.tsk[s[1]].dl
        e == IF s = <<>> THEN 0 ELSE next_deadline(m, c)
    IN  [m EXCEPT !.rq[c].next = e, !.rq[c].first = d, !.rd.cpudl[c] = d]

\* dl_set_overload() and dl_clear_overload().
update_dl_migration(m, c) ==
    LET over == m.rq[c].nr_migratory > 0 /\ Len(m.rq[c].tree) > 1
    IN  IF over = m.rq[c].overloaded THEN m
        ELSE [m EXCEPT !.rq[c].overloaded = over,
                       !.rd.dlo_mask = IF over THEN @ \cup {c} ELSE @ \ {c},
                       !.rd.dlo_count = IF over THEN @ + 1 ELSE @ - 1]

Count(m, p) == IF Migratory(m, p) THEN 1 ELSE 0

__enqueue_dl_entity(m, p) ==
    LET c  == m.tsk[p].cpu
        m1 == [m EXCEPT !.rq[c].tree = Insert(m, @, p)]
        m2 == inc_dl_deadline(m1, c, m.tsk[p].dl)
    IN  update_dl_migration([m2 EXCEPT !.rq[c].nr_migratory = @ + Count(m, p)], c)

\* The overload test comes before the count goes down.
__dequeue_dl_entity_Early(m, p) ==
    LET c  == m.tsk[p].cpu
        m1 == dec_dl_deadline([m EXCEPT !.rq[c].tree = Without(@, p)], c)
    IN  IF ~on_dl_rq(m, p) THEN m
        ELSE [update_dl_migration(m1, c) EXCEPT !.rq[c].nr_migratory = @ - Count(m, p)]
__dequeue_dl_entity(m, p) ==
    LET c  == m.tsk[p].cpu
        m1 == [m EXCEPT !.rq[c].tree = Without(@, p)]
        m2 == dec_dl_deadline(m1, c)
    IN  IF ~on_dl_rq(m, p) THEN m
        ELSE update_dl_migration([m2 EXCEPT !.rq[c].nr_migratory = @ - Count(m, p)], c)

\* d is the deadline that replenish_dl_entity() or update_dl_entity() gives p.
enqueue_task_dl(m, c, p, d) ==
    LET m1 == BUG_ON([m EXCEPT !.tsk[p].dl = d], on_dl_rq(m, p), "on_dl_rq")
        m2 == __enqueue_dl_entity(m1, p)
    IN  IF m.tsk[p].throttled THEN m
        ELSE IF m2.rq[c].curr # p /\ Migratory(m2, p) THEN enqueue_pushable_dl_task(m2, c, p)
        ELSE m2

__dequeue_task_dl(m, c, p) == dequeue_pushable_dl_task(__dequeue_dl_entity(m, p), c, p)

Left == 0
Exhausted == -1
\* What accounting may find: budget left, or none, and then the timer is started or, with the
\* deadline behind it, the task is replenished at once.
Budget(m, c) ==
    LET p == m.rq[c].curr
    IN  {Left} \cup IF p \in Task /\ m.tsk[p].dl < MaxDl
                    THEN {Exhausted} \cup Later(m.tsk[p].dl) ELSE {}

update_curr_dl(m, c, b) ==
    LET p  == m.rq[c].curr
        m1 == __dequeue_task_dl(m, c, p)
        m2 == IF b = Exhausted THEN [m1 EXCEPT !.tsk[p].throttled = TRUE, !.tsk[p].armed = TRUE]
              ELSE enqueue_task_dl(m1, c, p, b)
        leftmost == m2.rq[c].tree # <<>> /\ m2.rq[c].tree[1] = p
    IN  IF ~dl_task(p) \/ b = Left THEN m
        ELSE IF ~on_dl_rq(m, p) THEN m
        ELSE IF leftmost THEN m2 ELSE resched_task(m2, c)

dequeue_task_dl(m, c, p, b) == __dequeue_task_dl(update_curr_dl(m, c, b), c, p)


-----------------------------------------------------------------------------
(* Where to, and whether to preempt.                                       *)

\* cpudl_find(), when the caller wants a mask: the free CPUs among the task's; without one
\* of them, the CPU of the latest deadline, the root of the heap, if it is one of the task's
\* and its deadline is later.  The root is read again for the result, and no lock is held.
Unclaimed(m, p) == {c \in m.tsk[p].allowed : m.rd.cpudl[c] = 0}
Roots(m) == {c \in Cpu : \A d \in Cpu : m.rd.cpudl[d] <= m.rd.cpudl[c]}
Suitable(m, p) == \E c \in Roots(m) \cap m.tsk[p].allowed : m.tsk[p].dl < m.rd.cpudl[c]

\* find_later_rq()'s choice from the mask: the CPU the task ran on, then this one.
Choice(m, x, p, mask) ==
    IF m.tsk[p].cpu \in mask THEN {m.tsk[p].cpu} ELSE IF x \in mask THEN {x} ELSE mask

\* select_task_rq_dl()'s test whether the task is sent elsewhere.
select_task_rq_dl(m, p) ==
    LET curr == m.rq[m.tsk[p].cpu].curr
    IN  /\ dl_task(curr)
        /\ ~Migratory(m, curr) \/ ~dl_entity_preempt(m, p, curr)
        /\ Migratory(m, p)

check_preempt_equal_dl(m, c, p) ==
    LET curr == m.rq[c].curr
    IN  IF ~Migratory(m, curr) \/ ~Suitable(m, curr) THEN m
        ELSE IF Migratory(m, p) /\ Suitable(m, p) THEN m
        ELSE resched_task(m, c)

check_preempt_curr_dl(m, c, p) ==
    LET curr == m.rq[c].curr
    IN  IF dl_entity_preempt(m, p, curr) THEN resched_task(m, c)
        ELSE IF m.tsk[p].dl = m.tsk[curr].dl /\ ~m.rq[c].resched
        THEN check_preempt_equal_dl(m, c, p)
        ELSE m

\* check_preempt_curr() of the core: a lower class always yields.
check_preempt_curr(m, c, p) ==
    IF dl_task(m.rq[c].curr) THEN check_preempt_curr_dl(m, c, p) ELSE resched_task(m, c)

\* The task leaves runqueue c for CPU d: deactivate_task(), set_task_cpu(), activate_task().
Migrate(m, c, d, p, b, dl) ==
    enqueue_task_dl([dequeue_task_dl(m, c, p, b) EXCEPT !.tsk[p].cpu = d], d, p, dl)

\* The deadlines that update_dl_entity() may leave a task with.
Updated(m, p) == Later(m.tsk[p].dl) \cup ({m.tsk[p].dl} \ {0})

-----------------------------------------------------------------------------
(* Steps.                                                                  *)

Running == bug = "none"
At(x, pc) == Running /\ ctx[x].pc = pc

Commit(m) ==
    rq' = m.rq /\ tsk' = m.tsk /\ rd' = m.rd /\ bug' = m.bug

Goto(x, k) == ctx' = [ctx EXCEPT ![x] = k]
Take(x, s) == lock' = [c \in Cpu |-> IF c \in s THEN x ELSE lock[c]]
Drop(s) == lock' = [c \in Cpu |-> IF c \in s THEN Free ELSE lock[c]]
IsFree(s) == \A c \in s : lock[c] = Free
Hold(x, got, dropped) ==
    lock' = [c \in Cpu |-> IF c \in dropped THEN Free ELSE IF c \in got THEN x ELSE lock[c]]

\* The wake-up of p has begun on some CPU.
Waking(p) == \E x \in Cpu : ctx[x].pc \in {"select", "woken"} /\ ctx[x].task = p

\* The core's select_task_rq() replaces a CPU outside the task's affinity; set_task_cpu().
WakeOn(x, p, c) ==
    \E d \in IF c \in tsk[p].allowed THEN {c} ELSE tsk[p].allowed :
        /\ tsk' = [tsk EXCEPT ![p].cpu = d]
        /\ Goto(x, [User EXCEPT !.pc = "woken", !.task = p, !.rq = d])

\* try_to_wake_up() up to ttwu_queue(); or, no CPU being free, up to the second read of the root.
try_to_wake_up(x, p) ==
    /\ At(x, "user") /\ ~tsk[p].on_rq /\ ~Waking(p)
    /\ \A c \in Cpu : rq[c].curr # p
    /\ IF ~select_task_rq_dl(M, p) \/ (Unclaimed(M, p) = {} /\ ~Suitable(M, p))
       THEN WakeOn(x, p, tsk[p].cpu)
       ELSE IF Unclaimed(M, p) # {}
       THEN \E c \in Choice(M, x, p, Unclaimed(M, p)) : WakeOn(x, p, c)
       ELSE Goto(x, [User EXCEPT !.pc = "select", !.task = p]) /\ UNCHANGED tsk
    /\ UNCHANGED <<rq, rd, lock, bug>>

SelectRoot(x) ==
    /\ At(x, "select")
    /\ \E c \in Roots(M) : WakeOn(x, ctx[x].task, c)
    /\ UNCHANGED <<rq, rd, lock, bug>>

\* task_woken_dl()'s test whether to push.
task_woken_dl(m, c, p) ==
    LET curr == m.rq[c].curr
    IN  /\ curr # p /\ ~m.rq[c].resched /\ m.rq[c].push # <<>> /\ Migratory(m, p)
        /\ dl_task(curr)
        /\ ~Migratory(m, curr) \/ dl_entity_preempt(m, curr, p)

\* ttwu_do_activate().
Woken(x) ==
    LET p == ctx[x].task
        c == ctx[x].rq
    IN  /\ At(x, "woken") /\ IsFree({c})
        /\ \E d \in Updated(M, p) :
              LET m1 == [enqueue_task_dl(M, c, p, d) EXCEPT !.tsk[p].on_rq = TRUE]
                  m  == check_preempt_curr(m1, c, p)
              IN  /\ Commit(m)
                  /\ IF task_woken_dl(m, c, p)
                     THEN /\ Take(x, {c})
                          /\ Goto(x, [User EXCEPT !.pc = "push", !.rq = c, !.all = TRUE])
                     ELSE Goto(x, User) /\ UNCHANGED lock

\* The timer expires: dl_task_timer() reads task_rq(p) and waits for its lock.
TimerFires(x, p) ==
    /\ At(x, "user") /\ tsk[p].armed
    /\ tsk' = [tsk EXCEPT ![p].armed = FALSE]
    /\ Goto(x, [User EXCEPT !.pc = "timer", !.task = p, !.rq = tsk[p].cpu])
    /\ UNCHANGED <<rq, rd, lock, bug>>

dl_task_timer(x) ==
    LET p == ctx[x].task
        c == ctx[x].rq
        m == [M EXCEPT !.tsk[p].throttled = FALSE]
    IN  /\ At(x, "timer") /\ IsFree({c})
        /\ IF tsk[p].cpu # c
           THEN bug' = "wrong_rq" /\ UNCHANGED <<rq, tsk, rd, lock, ctx>>
           ELSE IF ~tsk[p].on_rq
           THEN Commit(m) /\ Goto(x, User) /\ UNCHANGED lock
           ELSE \E d \in Later(tsk[p].dl) :
              LET m1 == check_preempt_curr(enqueue_task_dl(m, c, p, d), c, p)
              IN  /\ Commit(m1)
                  /\ IF m1.rq[c].push # <<>>
                     THEN Take(x, {c}) /\ Goto(x, [User EXCEPT !.pc = "push", !.rq = c])
                     ELSE Goto(x, User) /\ UNCHANGED lock

task_tick_dl(x) ==
    /\ At(x, "user") /\ IsFree({x})
    /\ \E b \in Budget(M, x) \ {Left} : Commit(update_curr_dl(M, x, b))
    /\ UNCHANGED <<lock, ctx>>

\* __schedule() up to pre_schedule_dl(): the task blocks, or has to go.
schedule(x) ==
    LET prev == rq[x].curr
        Enter(m) ==
            /\ Commit(m) /\ Take(x, {x})
            /\ Goto(x, [User EXCEPT !.pc = IF dl_task(prev) /\ m.rd.dlo_count # 0
                                           THEN "pull" ELSE "pick", !.to = -1])
    IN  /\ At(x, "user") /\ IsFree({x})
        /\ \/ rq[x].resched /\ Enter(M)
           \/ /\ dl_task(prev)
              /\ \E b \in Budget(M, x) :
                    Enter([dequeue_task_dl(M, x, prev, b) EXCEPT !.tsk[prev].on_rq = FALSE])

\* What pull_dl_task() does on CPU x with its runqueue and that of c locked.
Pull(x, c) ==
    LET p    == pick_next_earliest_dl_task(M, c, x)
        curr == rq[c].curr
        done == [ctx[x] EXCEPT !.pc = "pull", !.to = c]
    IN  IF /\ Len(rq[c].tree) > 1
           /\ p # Idle
           /\ tsk[p].dl < ctx[x].dmin
           /\ rq[x].tree = <<>> \/ tsk[p].dl < rq[x].first
           /\ ~dl_task(curr) \/ ~dl_entity_preempt(M, p, curr)
        THEN \E b \in Budget(M, c), d \in Updated(M, p) :
                LET m == Migrate(M, c, x, p, b, d)
                IN  Commit(m) /\ Goto(x, [done EXCEPT !.dmin = m.tsk[p].dl])
        ELSE Commit(M) /\ Goto(x, done)

\* One round of the loop of pull_dl_task(), up to the locks of both runqueues.
pull_dl_task(x) ==
    LET todo == {c \in rd.dlo_mask \ {x} : c > ctx[x].to}
        c == CHOOSE e \in todo : \A f \in todo : e <= f
    IN  /\ At(x, "pull")
        /\ \/ /\ todo = {}
              /\ Goto(x, [User EXCEPT !.pc = "pick"])
              /\ UNCHANGED <<rq, tsk, rd, lock, bug>>
           \/ /\ todo # {} /\ rq[x].tree # <<>> /\ rq[x].first < rq[c].next
              /\ Goto(x, [ctx[x] EXCEPT !.to = c])
              /\ UNCHANGED <<rq, tsk, rd, lock, bug>>
           \/ /\ todo # {} /\ (rq[x].tree = <<>> \/ rq[x].first >= rq[c].next)
              /\ \/ IsFree({c}) /\ Pull(x, c) /\ UNCHANGED lock
                 \/ /\ Drop({x}) /\ Goto(x, [ctx[x] EXCEPT !.pc = "pull_wait", !.to = c])
                    /\ UNCHANGED <<rq, tsk, rd, bug>>

PullLocked(x) ==
    /\ At(x, "pull_wait") /\ IsFree({x, ctx[x].to})
    /\ Pull(x, ctx[x].to) /\ Take(x, {x})

put_prev_task_dl(m, x, p, b) ==
    LET m1 == update_curr_dl(m, x, b)
    IN  IF on_dl_rq(m1, p) /\ Migratory(m1, p) THEN enqueue_pushable_dl_task(m1, x, p) ELSE m1

pick_next_task_dl(m, x) ==
    LET s == m.rq[x].tree
        p == IF s = <<>> THEN Idle ELSE s[1]
    IN  [dequeue_pushable_dl_task(m, x, p) EXCEPT !.rq[x].curr = p, !.rq[x].resched = FALSE]

\* __schedule() from put_prev_task() to the context switch.
Switch(x) ==
    LET prev == rq[x].curr
    IN  /\ At(x, "pick")
        /\ \E b \in Budget(M, x) :
              LET m1 == IF dl_task(prev) THEN put_prev_task_dl(M, x, prev, b) ELSE M
                  m  == pick_next_task_dl(m1, x)
              IN  /\ Commit(m)
                  /\ Goto(x, IF dl_task(m.rq[x].curr) /\ m.rq[x].push # <<>>
                             THEN [User EXCEPT !.pc = "post"] ELSE User)
        /\ Drop({x})

\* post_schedule(), set by pick_next_task_dl(): takes the lock again for push_dl_tasks().
post_schedule(x) ==
    /\ At(x, "post") /\ IsFree({x})
    /\ Take(x, {x}) /\ Goto(x, [User EXCEPT !.pc = "push", !.rq = x, !.all = TRUE])
    /\ UNCHANGED <<rq, tsk, rd, bug>>

-----------------------------------------------------------------------------
(* push_dl_task()                                                          *)

\* The BUG_ONs of pick_next_pushable_dl_task().
Pushable(m, c) == IF m.rq[c].push = <<>> THEN Idle ELSE m.rq[c].push[1]
pick_next_pushable_dl_task(m, c) ==
    LET p == Pushable(m, c)
    IN  IF p = Idle THEN m
        ELSE BUG_ON(m, \/ m.tsk[p].cpu # c \/ m.rq[c].curr = p
                       \/ ~Migratory(m, p) \/ ~m.tsk[p].on_rq, "pick_next_pushable")

\* push_dl_task() returns.
Return(x, ret, more) ==
    IF ret = 1 /\ ctx[x].all
    THEN /\ Goto(x, [ctx[x] EXCEPT !.pc = "push", !.task = Idle, !.to = 0, !.tries = 0])
         /\ Hold(x, {ctx[x].rq}, more)
    ELSE Goto(x, User) /\ Drop(more \cup {ctx[x].rq})

\* find_lock_later_rq() gave up on the task.
NotFound(x, m, next, more) ==
    LET c == ctx[x].rq
        m1 == pick_next_pushable_dl_task(m, c)
        task == Pushable(m, c)
    IN  IF m.tsk[next].cpu = c /\ task = next
        THEN Commit(dequeue_pushable_dl_task(m1, c, next)) /\ Return(x, 1, more)
        ELSE /\ Commit(m1)
             /\ IF task = Idle THEN Return(x, 1, more)
                ELSE /\ Goto(x, [ctx[x] EXCEPT !.pc = "push", !.task = task, !.to = 0, !.tries = 0])
                     /\ Hold(x, {c}, more)

\* find_later_rq() returned d, in one round of find_lock_later_rq().
Found(x, m, next, d) ==
    IF d = ctx[x].rq THEN NotFound(x, m, next, {})
    ELSE /\ Commit(m) /\ UNCHANGED lock
         /\ Goto(x, [ctx[x] EXCEPT !.pc = "lock", !.task = next, !.to = d])

\* find_later_rq(), up to the second look at the root.
Find(x, m, next) ==
    IF ~Migratory(m, next) \/ (Unclaimed(m, next) = {} /\ ~Suitable(m, next))
    THEN NotFound(x, m, next, {})
    ELSE IF Unclaimed(m, next) # {}
    THEN \E d \in Choice(m, x, next, Unclaimed(m, next)) : Found(x, m, next, d)
    ELSE Commit(m) /\ UNCHANGED lock /\ Goto(x, [ctx[x] EXCEPT !.pc = "root", !.task = next])

FindRoot(x) ==
    At(x, "root") /\ \E d \in Roots(M) : Found(x, M, ctx[x].task, d)

push_dl_task(x) ==
    LET c     == ctx[x].rq
        retry == ctx[x].task # Idle
        curr  == rq[c].curr
        m     == IF retry \/ ~rq[c].overloaded THEN M ELSE pick_next_pushable_dl_task(M, c)
        next  == IF retry THEN ctx[x].task
                 ELSE IF rq[c].overloaded THEN Pushable(M, c) ELSE Idle
    IN  /\ At(x, "push")
        /\ IF next = Idle \/ next = curr
           THEN Commit(m) /\ Return(x, 0, {})
           ELSE IF dl_task(curr) /\ dl_entity_preempt(M, next, curr) /\ Migratory(M, curr)
           THEN Commit(resched_task(m, c)) /\ Return(x, 0, {})
           ELSE Find(x, m, next)

FindAgain(x) ==
    At(x, "find") /\ Find(x, M, ctx[x].task)

\* Still a task to push, after the lock of its runqueue was dropped.
Unchanged_Running(x) ==
    LET p == ctx[x].task
    IN  tsk[p].cpu = ctx[x].rq /\ ctx[x].to \in tsk[p].allowed /\ tsk[p].on_rq
Unchanged(x) ==
    LET p == ctx[x].task
    IN  /\ tsk[p].cpu = ctx[x].rq /\ ctx[x].to \in tsk[p].allowed
        /\ rq[ctx[x].rq].curr # p /\ tsk[p].on_rq

\* find_lock_later_rq()'s test of the runqueue it has locked.
LaterRq_OrEqual(p, d) == rq[d].tree = <<>> \/ tsk[p].dl <= rq[d].first
LaterRq(p, d) == rq[d].tree = <<>> \/ tsk[p].dl < rq[d].first

\* Both runqueues are locked: push the task, or look for another runqueue.
Push(x) ==
    LET c == ctx[x].rq
        d == ctx[x].to
        p == ctx[x].task
    IN  IF LaterRq(p, d)
        THEN /\ \E b \in Budget(M, c), dl \in Updated(M, p) :
                    Commit(resched_task(Migrate(M, c, d, p, b, dl), d))
             /\ Return(x, 1, {d})
        ELSE IF ctx[x].tries + 1 < DL_MAX_TRIES
        THEN /\ Goto(x, [ctx[x] EXCEPT !.pc = "find", !.tries = @ + 1])
             /\ Hold(x, {c}, {d}) /\ UNCHANGED <<rq, tsk, rd, bug>>
        ELSE NotFound(x, M, p, {d})

\* double_lock_balance(): takes the second lock, or drops the first one to take both.
PushLock(x) ==
    /\ At(x, "lock")
    /\ \/ IsFree({ctx[x].to}) /\ Push(x)
       \/ /\ Drop({ctx[x].rq}) /\ Goto(x, [ctx[x] EXCEPT !.pc = "push_wait"])
          /\ UNCHANGED <<rq, tsk, rd, bug>>

PushLocked(x) ==
    /\ At(x, "push_wait") /\ IsFree({ctx[x].rq, ctx[x].to})
    /\ IF Unchanged(x) THEN Push(x) ELSE NotFound(x, M, ctx[x].task, {ctx[x].to})

\* set_cpus_allowed_ptr(), of a task that need not be moved for it.
set_cpus_allowed_dl(x, p, mask) ==
    LET c == tsk[p].cpu
        n == Cardinality(mask)
        shown == on_dl_rq(M, p) /\ Migratory(M, p) # (n > 1)
        m1 == IF rq[c].curr = p THEN M
              ELSE IF n > 1 THEN enqueue_pushable_dl_task(M, c, p)
              ELSE dequeue_pushable_dl_task(M, c, p)
        m2 == BUG_ON(m1, n <= 1 /\ rq[c].nr_migratory = 0, "nr_migratory")
        m3 == [m2 EXCEPT !.rq[c].nr_migratory = IF n > 1 THEN @ + 1 ELSE @ - 1]
    IN  /\ At(x, "user") /\ IsFree({c}) /\ ~Waking(p)
        /\ tsk[p].allowed # mask /\ (tsk[p].on_rq => c \in mask)
        /\ LET m == IF shown THEN update_dl_migration(m3, c) ELSE M
           IN  Commit([m EXCEPT !.tsk[p].allowed = mask])
        /\ UNCHANGED <<lock, ctx>>

\* After a BUG_ON.
Stopped == ~Running /\ UNCHANGED vars

Next ==
    \/ Stopped
    \/ \E x \in Cpu :
          \/ \E p \in Task : \/ try_to_wake_up(x, p) \/ TimerFires(x, p)
                             \/ \E mask \in Masks : set_cpus_allowed_dl(x, p, mask)
          \/ SelectRoot(x) \/ Woken(x) \/ dl_task_timer(x) \/ task_tick_dl(x)
          \/ schedule(x) \/ pull_dl_task(x) \/ PullLocked(x) \/ Switch(x) \/ post_schedule(x)
          \/ push_dl_task(x) \/ FindAgain(x) \/ FindRoot(x) \/ PushLock(x) \/ PushLocked(x)

Spec == Init /\ [][Next]_vars

-----------------------------------------------------------------------------
(* Properties.                                                             *)

\* Whatever is pushed, pulled, woken, throttled or pinned while runqueue locks are dropped and
\* taken again, a queued task is on the runqueue of its own CPU only, and runnable; the pushable
\* ones are queued and not running; no task runs on two CPUs; and the BUG_ONs of
\* enqueue_dl_entity(), enqueue_pushable_dl_task(), pick_next_pushable_dl_task() and
\* set_cpus_allowed_dl() are not reached, unless dl_task_timer() locked the runqueue of a CPU
\* that its task had left meanwhile.
OneRunqueue ==
    /\ bug \in {"none", "wrong_rq"}
    /\ \A c \in Cpu : LET q == rq[c] IN
          /\ \A p \in Elems(q.tree) : tsk[p].cpu = c /\ tsk[p].on_rq /\ ~tsk[p].throttled
          /\ Elems(q.push) \subseteq {p \in Elems(q.tree) \ {q.curr} : Migratory(M, p)}
          /\ q.curr \in Task => tsk[q.curr].cpu = c

\* What CPUs read of another runqueue without its lock is coherent: dlo_mask and dlo_count are
\* those of the runqueues marked overloaded, a runqueue is so marked exactly when it has two
\* tasks and counts one that can go, and cpudl has the deadline in earliest_dl.curr.
Published ==
    /\ rd.dlo_mask = {c \in Cpu : rq[c].overloaded}
    /\ rd.dlo_count = Cardinality(rd.dlo_mask)
    /\ \A c \in Cpu :
          /\ rq[c].overloaded = (rq[c].nr_migratory > 0 /\ Len(rq[c].tree) > 1)
          /\ rd.cpudl[c] = rq[c].first

\* And it is the truth about the tasks queued there: dl_nr_migratory counts those that can go,
\* and earliest_dl.curr is the deadline of the first.
OverloadAgrees ==
    /\ Published
    /\ \A c \in Cpu : LET q == rq[c] IN
          /\ q.nr_migratory = Cardinality({p \in Elems(q.tree) : Migratory(M, p)})
          /\ q.first = IF q.tree = <<>> THEN 0 ELSE tsk[q.tree[1]].dl

\* However stale the information that chose the CPU, push_dl_task() and pull_dl_task() move a
\* task that is not running, to a CPU where every task queued has a later deadline than the one
\* it came with.  It is a CPU of its affinity, except that a push that need not drop its lock
\* trusts cpudl_find().
MigratesEarlier ==
    [][\A p \in Task : \A c, d \in Cpu :
         c # d /\ p \in Elems(rq[c].tree) /\ p \in Elems(rq'[d].tree)
         => /\ d \in tsk[p].allowed \/ \E x \in Cpu : At(x, "lock") /\ ctx[x].task = p
            /\ rq[c].curr # p
            /\ \A q \in Elems(rq[d].tree) : tsk[p].dl < tsk[q].dl]_vars
=============================================================================
