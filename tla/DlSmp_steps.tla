----------------------------- MODULE DlSmp_steps ----------------------------
(***************************************************************************)
(* Wake-up, tick, timer and schedule() keep the invariant.                  *)
(***************************************************************************)
EXTENDS DlSmp_ops

-----------------------------------------------------------------------------
(* The steps.                                                              *)

Pc == {"user", "select", "woken", "timer", "pull", "pull_wait", "pick", "post", "push", "root",
       "find", "lock", "push_wait"}
Context == [pc : Pc, rq : Int, task : Task \cup {Idle}, to : Int, tries : Int, dmin : Int,
            all : BOOLEAN]

\* x is in push_dl_task() with its runqueue locked, and has chosen the task.
Chosen(k) == k.pc \in {"root", "find", "lock"} \/ (k.pc = "push" /\ k.task # Idle)

\* What CPU x may rely on between two steps, its context being k and l the locks: the locks it
\* holds; the task to push, as long as the lock of its runqueue is held; the task it wakes, which
\* is on no runqueue and nobody runs; and the task of its timer, which is still throttled.
Local(m, l, k, x) ==
    /\ k.pc \in {"pull", "pick"} => l[x] = x
    /\ k.pc \in {"push", "root", "find", "lock"} => k.rq \in Cpu /\ l[k.rq] = x
    /\ Chosen(k) => /\ k.task \in Task /\ m.tsk[k.task].cpu = k.rq /\ m.tsk[k.task].on_rq
                    /\ m.rq[k.rq].curr # k.task
    /\ k.pc \in {"lock", "push_wait"} =>
          k.rq \in Cpu /\ k.to \in Cpu /\ k.to # k.rq /\ k.task \in Task
    /\ k.pc = "pull_wait" => k.to \in Cpu /\ k.to # x
    /\ k.pc \in {"select", "woken"} =>
          /\ k.task \in Task /\ ~m.tsk[k.task].on_rq
          /\ \A c \in Cpu : m.rq[c].curr # k.task
    /\ k.pc = "woken" => k.rq = m.tsk[k.task].cpu
    /\ k.pc = "timer" =>
          /\ k.task \in Task /\ k.rq \in Cpu
          /\ m.tsk[k.task].throttled /\ ~m.tsk[k.task].armed

\* No task is woken twice at a time, nor does its timer expire twice.
Apart(j, k) ==
    /\ j.pc \in {"select", "woken"} /\ k.pc \in {"select", "woken"} => j.task # k.task
    /\ j.pc = "timer" /\ k.pc = "timer" => j.task # k.task

State(m, l, k) ==
    /\ Good(m, {}) /\ Idlers(m) /\ m.bug \in {"none", "wrong_rq"}
    /\ \A p \in Task : m.tsk[p].armed => m.tsk[p].throttled
    /\ l \in [Cpu -> Cpu \cup {Free}] /\ k \in [Cpu -> Context]
    /\ \A x \in Cpu : Local(m, l, k[x], x)
    /\ \A x, y \in Cpu : x # y => Apart(k[x], k[y])

\* The inductive invariant.
SmpInv == State(M, lock, ctx)

\* A step of x: the other CPUs stay where they are, and keep the locks they hold.
Calm(l, n, k, u, x) ==
    /\ n \in [Cpu -> Cpu \cup {Free}] /\ u \in [Cpu -> Context]
    /\ \A c \in Cpu : l[c] \notin {x, Free} => n[c] = l[c]
    /\ \A y \in Cpu \ {x} : u[y] = k[y]

\* What the waker of a task, or whoever pushes it, knows of it is still true; and its timer.
Kept(m, r, q) ==
    /\ r.tsk[q].cpu = m.tsk[q].cpu /\ r.tsk[q].on_rq = m.tsk[q].on_rq
    /\ \A c \in Cpu : (r.rq[c].curr = q) = (m.rq[c].curr = q)
Timed(m, r, q) ==
    \/ r.tsk[q].throttled = m.tsk[q].throttled /\ r.tsk[q].armed = m.tsk[q].armed
    \/ ~m.tsk[q].throttled /\ r.tsk[q].throttled /\ r.tsk[q].armed

\* What CPU y relies on is still true after a step of another one.
LEMMA LocalLemma ==
    ASSUME NEW m, NEW r, NEW l, NEW n, NEW k, NEW y \in Cpu, Local(m, l, k, y),
           \A c \in Cpu : l[c] = y => n[c] = y,
           k.pc = "timer" => Timed(m, r, k.task),
           Chosen(k) \/ k.pc \in {"select", "woken"} => Kept(m, r, k.task)
    PROVE  Local(r, n, k, y)
<1>1. k.pc \in {"pull", "pick"} => n[y] = y
  BY DEF Local
<1>2. k.pc \in {"push", "root", "find", "lock"} => k.rq \in Cpu /\ n[k.rq] = y
  BY DEF Local
<1>3. Chosen(k) => /\ k.task \in Task /\ r.tsk[k.task].cpu = k.rq /\ r.tsk[k.task].on_rq
                   /\ r.rq[k.rq].curr # k.task
  <2>1. Chosen(k) => k.rq \in Cpu
    BY <1>2 DEF Chosen
  <2> QED
    BY <2>1 DEF Local, Kept
<1>4. k.pc \in {"select", "woken"} =>
          /\ k.task \in Task /\ ~r.tsk[k.task].on_rq
          /\ \A c \in Cpu : r.rq[c].curr # k.task
  BY DEF Local, Kept
<1>5. k.pc = "woken" => k.rq = r.tsk[k.task].cpu
  BY DEF Local, Kept
<1>6. k.pc = "timer" => /\ k.task \in Task /\ k.rq \in Cpu
                        /\ r.tsk[k.task].throttled /\ ~r.tsk[k.task].armed
  BY DEF Local, Timed
<1>7. /\ k.pc \in {"lock", "push_wait"} =>
            k.rq \in Cpu /\ k.to \in Cpu /\ k.to # k.rq /\ k.task \in Task
      /\ k.pc = "pull_wait" => k.to \in Cpu /\ k.to # y
  BY DEF Local
<1> QED
  BY <1>1, <1>2, <1>3, <1>4, <1>5, <1>6, <1>7, SMT, Zenon, SMTT(40) DEF Local

\* A step of x, whatever it does.
LEMMA StepLemma ==
    ASSUME NEW m, NEW r, NEW l, NEW n, NEW k, NEW u, NEW x \in Cpu, State(m, l, k),
           Good(r, {}), Idlers(r), r.bug \in {"none", "wrong_rq"},
           \A p \in Task : r.tsk[p].armed => r.tsk[p].throttled,
           Calm(l, n, k, u, x), Local(r, n, u[x], x),
           \A y \in Cpu \ {x} : Apart(u[x], k[y]),
           \A y \in Cpu \ {x} :
              /\ k[y].pc = "timer" => Timed(m, r, k[y].task)
              /\ Chosen(k[y]) \/ k[y].pc \in {"select", "woken"} => Kept(m, r, k[y].task)
    PROVE  State(r, n, u)
<1>1. ASSUME NEW y \in Cpu, y # x PROVE Local(r, n, u[y], y)
  <2>1. u[y] = k[y] /\ Local(m, l, k[y], y)
    BY <1>1 DEF Calm, State
  <2>2. \A c \in Cpu : l[c] = y => n[c] = y
    BY <1>1, SmpAssumption DEF Calm, Free
  <2> QED
    BY <1>1, <2>1, <2>2, LocalLemma, SMTT(60), SMTT(80)
<1>2. ASSUME NEW y \in Cpu, NEW z \in Cpu, y # z PROVE Apart(u[y], u[z])
  <2>1. CASE y # x /\ z # x
    BY <1>2, <2>1 DEF Calm, State
  <2>2. CASE y = x
    BY <1>2, <2>2 DEF Calm
  <2>3. CASE z = x
    BY <1>2, <2>3 DEF Calm, Apart
  <2> QED
    BY <2>1, <2>2, <2>3
<1> QED
  BY <1>1, <1>2 DEF State, Calm

\* A step of x that changes no task but p, which it moves, and neither wakes nor times one.
LEMMA MoveLemma ==
    ASSUME NEW m, NEW r, NEW l, NEW n, NEW k, NEW u, NEW x \in Cpu, State(m, l, k),
           Good(r, {}), Idlers(r), NEW p, Stay(m, r, p), Calm(l, n, k, u, x),
           Local(r, n, u[x], x), u[x].pc \notin {"select", "woken", "timer"},
           p \in Task => m.tsk[p].on_rq /\ l[m.tsk[p].cpu] \in {x, Free}
    PROVE  State(r, n, u)
<1>1. r.bug \in {"none", "wrong_rq"} /\ \A q \in Task : r.tsk[q].armed => r.tsk[q].throttled
  BY DEF State, Stay, Frame
<1>2. \A y \in Cpu \ {x} : Apart(u[x], k[y])
  BY DEF Apart
<1>3. ASSUME NEW y \in Cpu \ {x}, k[y].pc = "timer" PROVE Timed(m, r, k[y].task)
  <2>1. Local(m, l, k[y], y)
    BY ZenonT(60) DEF State
  <2> QED
    BY <1>3, <2>1, ZenonT(60) DEF Local, Timed, Stay, Frame
<1>4. ASSUME NEW y \in Cpu \ {x}, Chosen(k[y]) \/ k[y].pc \in {"select", "woken"}
      PROVE  Kept(m, r, k[y].task)
  <2>1. Local(m, l, k[y], y)
    BY DEF State
  <2>2. k[y].task \in Task /\ k[y].task # p
    <3>1. CASE k[y].pc \in {"select", "woken"}
      BY <2>1, <3>1, ZenonT(60) DEF Local
    <3>2. CASE Chosen(k[y])
      <4>1. k[y].task \in Task /\ m.tsk[k[y].task].cpu = k[y].rq /\ l[k[y].rq] = y
        BY <2>1, <3>2, Zenon DEF Local, Chosen
      <4> QED
        BY <4>1, SmpAssumption, SMTT(60), SMTT(80) DEF Free
    <3> QED
      BY <1>4, <3>1, <3>2
  <2> QED
    BY <2>2, Zenon DEF Kept, Stay, Frame
<1> QED
  BY <1>1, <1>2, <1>3, <1>4, StepLemma, ZenonT(60)

\* The machine after a step that commits m.
LEMMA CommitLemma ==
    ASSUME NEW m \in Machine, Commit(m)
    PROVE  M' = m
  BY DEF Commit, M, Machine

\* The contexts after a step of x.
LEMMA GotoLemma ==
    ASSUME ctx \in [Cpu -> Context], NEW x \in Cpu, NEW j \in Context, Goto(x, j)
    PROVE  /\ ctx' \in [Cpu -> Context] /\ ctx'[x] = j
           /\ \A y \in Cpu \ {x} : ctx'[y] = ctx[y]
  BY DEF Goto

\* The parts of the machine, and what choices are made from.
LEMMA TypeLemma ==
    ASSUME SmpInv
    PROVE  /\ M \in Machine /\ M.rq = rq /\ M.tsk = tsk /\ M.rd = rd /\ M.bug = bug
           /\ ctx \in [Cpu -> Context] /\ lock \in [Cpu -> Cpu \cup {Free}]
           /\ User \in Context
           /\ \A c \in Cpu : Budget(M, c) \subseteq Int
           /\ \A p \in Task : tsk[p].dl \in Int /\ Updated(M, p) \subseteq Int
           /\ \A p \in Task : Later(tsk[p].dl) \subseteq Int
<1>1. /\ M \in Machine /\ M.rq = rq /\ M.tsk = tsk /\ M.rd = rd /\ M.bug = bug
      /\ ctx \in [Cpu -> Context] /\ lock \in [Cpu -> Cpu \cup {Free}]
  BY DEF SmpInv, State, Good, M
<1>2. User \in Context
  <2>1. MaxDl + 1 \in Int /\ 0 \in Int
    BY SmpAssumption
  <2> QED
    BY <2>1, Zenon DEF User, Context, Pc
<1>3. \A d \in Int : Later(d) \subseteq Int
  BY SmpAssumption DEF Later
<1>4. \A p \in Task : tsk[p].dl \in Int
  BY <1>1, MachineType
<1>5. \A c \in Cpu : Budget(M, c) \subseteq Int
  BY <1>1, <1>3, <1>4, SMT, Zenon, SMTT(40) DEF Budget, Left, Exhausted
<1>6. \A p \in Task : Updated(M, p) \subseteq Int
  BY <1>1, <1>3, <1>4, ZenonT(60) DEF Updated
<1> QED
  BY <1>1, <1>2, <1>3, <1>4, <1>5, <1>6, SMT, Zenon, SMTT(40)

\* Whom the exemption of Placed does not concern.
LEMMA ExemptLemma ==
    ASSUME NEW m, NEW p
    PROVE  /\ Good(m, {}) => Good(m, {p})
           /\ Good(m, {p}) /\ m.tsk[p].on_rq => Good(m, {})
  BY SMTT(40), SMTT(60) DEF Good, Placed

\* A CPU that is back in user mode, or in the kernel with nothing but a lock of its own.
LEMMA UserLemma ==
    ASSUME NEW m, NEW l, NEW k, NEW x \in Cpu, 
           \/ k.pc \in {"user", "post"}
           \/ k.pc \in {"pull", "pick"} /\ l[x] = x
           \/ k.pc = "push" /\ k.task = Idle /\ k.rq \in Cpu /\ l[k.rq] = x
    PROVE  Local(m, l, k, x)
  BY DEF Local, Chosen

\* WakeOn(): a task that is nowhere is given a CPU.
LEMMA WakeLemma ==
    ASSUME SmpInv, NEW x \in Cpu, NEW p \in Task, NEW c, WakeOn(x, p, c), 
           ~tsk[p].on_rq, \A d \in Cpu : rq[d].curr # p,
           \A y \in Cpu \ {x} : ctx[y].pc \in {"select", "woken"} => ctx[y].task # p,
           UNCHANGED <<rq, rd, lock, bug>>
    PROVE  SmpInv'
<1> DEFINE j(d) == [User EXCEPT !.pc = "woken", !.task = p, !.rq = d]
<1>1. PICK d \in Cpu : tsk' = [tsk EXCEPT ![p].cpu = d] /\ Goto(x, j(d))
  <2>1. tsk[p].allowed \subseteq Cpu
    BY TypeLemma DEF Machine, Entity
  <2> QED
    BY <2>1, Zenon DEF WakeOn
<1> DEFINE k == j(d)
           e == [tsk[p] EXCEPT !.cpu = d]
           r == SetTask(M, p, e)
<1>2. k \in Context /\ k.pc = "woken" /\ k.task = p /\ k.rq = d
  <2>1. User \in Context
    BY TypeLemma, Zenon
  <2>2. d \in Int
    BY SmpAssumption
  <2> QED
    BY <2>1, <2>2, Zenon DEF Context, Pc
<1>3. ctx' \in [Cpu -> Context] /\ ctx'[x] = k /\ \A y \in Cpu \ {x} : ctx'[y] = ctx[y]
  <2> HIDE DEF k
  <2> QED
    BY <1>1, <1>2, TypeLemma, GotoLemma, ZenonT(60) DEF k
<1> HIDE DEF k
<1>4. tsk[p] \in Entity /\ M \in Machine /\ M.tsk = tsk /\ M.rq = rq /\ M.bug = bug
  BY TypeLemma, MachineType
<1>5. /\ e \in Entity /\ e.cpu = d /\ e.on_rq = tsk[p].on_rq
      /\ e.throttled = tsk[p].throttled /\ e.armed = tsk[p].armed
  BY <1>4 DEF Entity
<1>6. M' = r
  BY <1>1, <1>4, SMT, Zenon, SMTT(40) DEF M, SetTask, Machine
<1> HIDE DEF e
<1>7. /\ r \in Machine /\ r.rq = rq /\ r.bug = bug
      /\ r.tsk[p] = e /\ \A q \in Task : q # p => r.tsk[q] = tsk[q]
  BY <1>4, <1>5, SetTaskLemma, SMTT(40), SMTT(60)
<1>8. Good(r, {})
  <2>1. Good(M, {})
    BY Zenon DEF SmpInv, State
  <2>2. \A b \in Cpu : p \notin Elems(M.rq[b].tree)
    BY <1>4, <2>1, SMTT(40), SMTT(60) DEF Good, Placed
  <2> QED
    BY <1>4, <1>5, <2>1, <2>2, TaskLemma, ZenonT(60)
<1> HIDE DEF r
<1>9. Idlers(r) /\ r.bug \in {"none", "wrong_rq"}
  BY <1>4, <1>7, Zenon DEF SmpInv, State, Idlers
<1>10. \A q \in Task : Timed(M, r, q) /\ (r.tsk[q].armed => r.tsk[q].throttled)
  BY <1>4, <1>5, <1>7, Zenon DEF SmpInv, State, Timed
<1>11. \A q \in Task \ {p} : Kept(M, r, q)
  BY <1>4, <1>7 DEF Kept
<1>12. Calm(lock, lock', ctx, ctx', x)
  BY <1>3, TypeLemma, Zenon DEF Calm
<1>13. Local(r, lock', ctx'[x], x)
  BY <1>2, <1>3, <1>4, <1>5, <1>7, ZenonT(60) DEF Local, Chosen
<1>14. \A y \in Cpu \ {x} : Apart(ctx'[x], ctx[y])
  BY <1>2, <1>3, Zenon DEF Apart
<1>15. ASSUME NEW y \in Cpu \ {x}
       PROVE  /\ ctx[y].pc = "timer" => Timed(M, r, ctx[y].task)
              /\ Chosen(ctx[y]) \/ ctx[y].pc \in {"select", "woken"} => Kept(M, r, ctx[y].task)
  <2>1. Local(M, lock, ctx[y], y)
    BY DEF SmpInv, State
  <2>2. ctx[y].pc = "timer" => ctx[y].task \in Task
    BY <2>1, Zenon DEF Local
  <2>3. Chosen(ctx[y]) => ctx[y].task \in Task /\ ctx[y].task # p
    BY <1>4, <2>1, SMT, Zenon, SMTT(40) DEF Local
  <2>4. ctx[y].pc \in {"select", "woken"} => ctx[y].task \in Task /\ ctx[y].task # p
    BY <2>1, ZenonT(60) DEF Local
  <2> QED
    BY <1>10, <1>11, <2>2, <2>3, <2>4, ZenonT(60)
<1>16. State(r, lock', ctx')
  BY <1>8, <1>9, <1>10, <1>12, <1>13, <1>14, <1>15, StepLemma, ZenonT(60) DEF SmpInv
<1> QED
  BY <1>6, <1>16 DEF SmpInv

\* try_to_wake_up().
LEMMA TryToWakeUp ==
    ASSUME SmpInv, NEW x \in Cpu, NEW p \in Task, try_to_wake_up(x, p)
    PROVE  SmpInv'
<1>1. /\ ~tsk[p].on_rq /\ ~Waking(p) /\ \A c \in Cpu : rq[c].curr # p
      /\ UNCHANGED <<rq, rd, lock, bug>>
  BY DEF try_to_wake_up
<1>2. \A y \in Cpu : ctx[y].pc \in {"select", "woken"} => ctx[y].task # p
  BY <1>1 DEF Waking
<1>3. CASE \E c : WakeOn(x, p, c)
  BY <1>1, <1>2, <1>3, WakeLemma, SMT, Zenon, SMTT(40)
<1> DEFINE k == [User EXCEPT !.pc = "select", !.task = p]
<1>4. CASE Goto(x, k) /\ UNCHANGED tsk
  <2>1. k \in Context /\ k.pc = "select" /\ k.task = p
    <3>1. User \in Context
      BY TypeLemma
    <3> QED
      BY <3>1, Zenon DEF Context, Pc
  <2>2. M' = M
    BY <1>1, <1>4, SMT, Zenon, SMTT(40) DEF M
  <2> HIDE DEF k
  <2>3. ctx' \in [Cpu -> Context] /\ ctx'[x] = k /\ \A y \in Cpu \ {x} : ctx'[y] = ctx[y]
    BY <1>4, <2>1, TypeLemma, GotoLemma, SMT, Zenon, SMTT(40)
  <2>4. Calm(lock, lock', ctx, ctx', x)
    BY <1>1, <2>3, TypeLemma, Zenon DEF Calm
  <2>5. Local(M, lock', ctx'[x], x)
    BY <1>1, <2>1, <2>3, TypeLemma, SMT, Zenon, SMTT(40) DEF Local, Chosen
  <2>6. \A y \in Cpu \ {x} : Apart(ctx'[x], ctx[y])
    BY <1>2, <2>1, <2>3, SMT, Zenon, SMTT(40) DEF Apart
  <2>7. \A q : Timed(M, M, q) /\ Kept(M, M, q)
    BY DEF Timed, Kept
  <2>8. /\ Good(M, {}) /\ Idlers(M) /\ M.bug \in {"none", "wrong_rq"}
        /\ \A q \in Task : M.tsk[q].armed => M.tsk[q].throttled
    BY Zenon DEF SmpInv, State
  <2>9. State(M, lock', ctx')
    BY <2>4, <2>5, <2>6, <2>7, <2>8, StepLemma, SMTT(60), SMTT(80) DEF SmpInv
  <2> QED
    BY <2>2, <2>9 DEF SmpInv
<1> QED
  BY <1>3, <1>4 DEF try_to_wake_up

\* The second half of cpudl_find(), for a wake-up.
LEMMA SelectRootLemma ==
    ASSUME SmpInv, NEW x \in Cpu, SelectRoot(x)
    PROVE  SmpInv'
<1> DEFINE p == ctx[x].task
<1>1. PICK c \in Roots(M) : WakeOn(x, p, c)
  BY DEF SelectRoot
<1>2. ctx[x].pc = "select" /\ UNCHANGED <<rq, rd, lock, bug>>
  BY DEF SelectRoot, At
<1>3. Local(M, lock, ctx[x], x) /\ \A y \in Cpu : y # x => Apart(ctx[x], ctx[y])
  BY ZenonT(60) DEF SmpInv, State
<1>4. p \in Task /\ ~tsk[p].on_rq /\ \A d \in Cpu : rq[d].curr # p
  BY <1>2, <1>3, TypeLemma, ZenonT(60) DEF Local
<1>5. \A y \in Cpu \ {x} : ctx[y].pc \in {"select", "woken"} => ctx[y].task # p
  BY <1>2, <1>3, SMT, Zenon, SMTT(40) DEF Apart
<1> HIDE DEF p
<1> QED
  BY <1>1, <1>2, <1>4, <1>5, WakeLemma, SMT, Zenon, SMTT(40)

\* The timer of a task expires.
LEMMA TimerFiresLemma ==
    ASSUME SmpInv, NEW x \in Cpu, NEW p \in Task, TimerFires(x, p)
    PROVE  SmpInv'
<1> DEFINE k == [User EXCEPT !.pc = "timer", !.task = p, !.rq = tsk[p].cpu]
           e == [tsk[p] EXCEPT !.armed = FALSE]
           r == SetTask(M, p, e)
<1>1. /\ tsk[p].armed /\ tsk' = [tsk EXCEPT ![p].armed = FALSE] /\ Goto(x, k)
      /\ UNCHANGED <<rq, rd, lock, bug>>
  BY SMT, Zenon, SMTT(40) DEF TimerFires
<1>2. /\ tsk[p] \in Entity /\ tsk[p].cpu \in Cpu /\ M \in Machine
      /\ M.tsk = tsk /\ M.rq = rq /\ M.bug = bug
  BY TypeLemma, MachineType
<1>3. k \in Context /\ k.pc = "timer" /\ k.task = p /\ k.rq = tsk[p].cpu
  <2>1. User \in Context
    BY TypeLemma
  <2>2. tsk[p].cpu \in Int
    <3>1. \A c \in Cpu : c \in Int
      BY SmpAssumption
    <3> QED
      BY <1>2, <3>1, Zenon
  <2> QED
    BY <2>1, <2>2, Zenon DEF Context, Pc
<1> HIDE DEF k
<1>4. ctx' \in [Cpu -> Context] /\ ctx'[x] = k /\ \A y \in Cpu \ {x} : ctx'[y] = ctx[y]
  BY <1>1, <1>3, TypeLemma, GotoLemma
<1>5. /\ e \in Entity /\ e.cpu = tsk[p].cpu /\ e.on_rq = tsk[p].on_rq
      /\ e.throttled = tsk[p].throttled /\ e.allowed = tsk[p].allowed /\ ~e.armed
  BY <1>2, Zenon DEF Entity
<1>6. M' = r
  <2>1. tsk' = [tsk EXCEPT ![p] = e]
    BY <1>1, Zenon
  <2>2. rq' = rq /\ rd' = rd /\ bug' = bug
    BY <1>1
  <2> HIDE DEF e
  <2> QED
    BY <1>2, <2>1, <2>2 DEF M, SetTask, Machine
<1> HIDE DEF e
<1>7. /\ r.rq = rq /\ r.bug = bug
      /\ r.tsk[p] = e /\ \A q \in Task : q # p => r.tsk[q] = tsk[q]
  BY <1>2, <1>5, SetTaskLemma, SMTT(40), SMTT(60)
<1>8. Good(r, {})
  <2>1. Good(M, {})
    BY DEF SmpInv, State
  <2>2. Cardinality(e.allowed) > 1 <=> Migratory(M, p)
    BY <1>2, <1>5 DEF Migratory
  <2> QED
    BY <1>2, <1>5, <2>1, <2>2, TaskLemma, Zenon
<1> HIDE DEF r
<1>9. Idlers(r) /\ r.bug \in {"none", "wrong_rq"} /\ tsk[p].throttled
  BY <1>1, <1>2, <1>7, SMT, Zenon, SMTT(40) DEF SmpInv, State, Idlers
<1>10. \A q \in Task : r.tsk[q].armed => r.tsk[q].throttled
  BY <1>2, <1>5, <1>7, SMTT(40), SMTT(60) DEF SmpInv, State
<1>11. \A q \in Task : Kept(M, r, q) /\ (q # p => Timed(M, r, q))
  BY <1>2, <1>5, <1>7, SMT, Zenon, SMTT(40) DEF Kept, Timed
<1>12. Calm(lock, lock', ctx, ctx', x)
  BY <1>1, <1>4, TypeLemma, SMT, Zenon, SMTT(40) DEF Calm
<1>13. Local(r, lock', ctx'[x], x)
  BY <1>2, <1>3, <1>4, <1>5, <1>7, <1>9, ZenonT(60) DEF Local, Chosen
<1>14. ASSUME NEW y \in Cpu \ {x}
       PROVE  /\ ctx[y].pc = "timer" => ctx[y].task \in Task /\ ctx[y].task # p
              /\ Chosen(ctx[y]) \/ ctx[y].pc \in {"select", "woken"} => ctx[y].task \in Task
  <2>1. Local(M, lock, ctx[y], y)
    BY DEF SmpInv, State
  <2> QED
    BY <1>1, <1>2, <2>1, SMT, Zenon, SMTT(40) DEF Local
<1>15. \A y \in Cpu \ {x} : Apart(ctx'[x], ctx[y])
  BY <1>3, <1>4, <1>14, ZenonT(60) DEF Apart
<1>16. State(r, lock', ctx')
  BY <1>8, <1>9, <1>10, <1>11, <1>12, <1>13, <1>14, <1>15, StepLemma, SMTT(60), SMTT(80) DEF SmpInv
<1> QED
  BY <1>6, <1>16 DEF SmpInv

\* A tick changes no context and no lock.
LEMMA TickLemma ==
    ASSUME Counting, SmpInv, NEW x \in Cpu, task_tick_dl(x)
    PROVE  SmpInv'
<1>1. PICK b \in Budget(M, x) : Commit(update_curr_dl(M, x, b))
  BY DEF task_tick_dl
<1>2. b \in Int /\ ctx[x].pc = "user" /\ lock' = lock /\ ctx' = ctx
  BY TypeLemma, SMT, Zenon, SMTT(40) DEF task_tick_dl, At
<1> DEFINE r == update_curr_dl(M, x, b)
<1>3. Good(r, {}) /\ Idlers(r) /\ Stay(M, r, Idle)
  BY <1>2, UpdateCurr, SMT, Zenon, SMTT(40) DEF SmpInv, State
<1> HIDE DEF r
<1>4. M' = r
  BY <1>1, <1>3, CommitLemma DEF Good, r
<1>5. Calm(lock, lock', ctx, ctx', x)
  BY <1>2, TypeLemma, SMT, Zenon, SMTT(40) DEF Calm
<1>6. Local(r, lock', ctx'[x], x)
  BY <1>2, UserLemma, ZenonT(60)
<1>7. State(r, lock', ctx')
  BY <1>2, <1>3, <1>5, <1>6, MoveLemma, SmpAssumption, SMT, Zenon, SMTT(40) DEF SmpInv
<1> QED
  BY <1>4, <1>7 DEF SmpInv



\* A step of x that changes the tasks in P, on which no other CPU counts.
LEMMA ChangeLemma ==
    ASSUME NEW r, NEW x \in Cpu, SmpInv, Good(r, {}), Idlers(r), r.bug = M.bug, NEW P,
           \A q \in Task : Timed(M, r, q), \A q \in Task \ P : Kept(M, r, q),
           Calm(lock, lock', ctx, ctx', x), Local(r, lock', ctx'[x], x),
           ctx'[x].pc \notin {"select", "woken", "timer"},
           \A y \in Cpu \ {x} :
              Chosen(ctx[y]) \/ ctx[y].pc \in {"select", "woken"} => ctx[y].task \notin P
    PROVE  State(r, lock', ctx')
<1>1. r.bug \in {"none", "wrong_rq"} /\ \A q \in Task : r.tsk[q].armed => r.tsk[q].throttled
  BY SMT, Zenon, SMTT(40) DEF SmpInv, State, Timed
<1>2. \A y \in Cpu \ {x} : Apart(ctx'[x], ctx[y])
  BY SMTT(40), SMTT(60) DEF Apart
<1>3. ASSUME NEW y \in Cpu \ {x}
      PROVE  /\ ctx[y].pc = "timer" => Timed(M, r, ctx[y].task)
             /\ Chosen(ctx[y]) \/ ctx[y].pc \in {"select", "woken"} => Kept(M, r, ctx[y].task)
  <2>1. Local(M, lock, ctx[y], y)
    BY SMT, Zenon, SMTT(40) DEF SmpInv, State
  <2>2. ctx[y].pc = "timer" \/ Chosen(ctx[y]) \/ ctx[y].pc \in {"select", "woken"}
        => ctx[y].task \in Task
    BY <2>1, Zenon DEF Local
  <2> QED
    BY <2>2, Zenon
<1> QED
  BY <1>1, <1>2, <1>3, StepLemma, ZenonT(60) DEF SmpInv

\* After a runqueue was locked for push_dl_task(), or x left the kernel.
LEMMA PushOrUser ==
    ASSUME SmpInv, NEW x \in Cpu, NEW c \in Cpu, lock[c] \in {x, Free},
           \/ Goto(x, User) /\ UNCHANGED lock
           \/ /\ Take(x, {c})
              /\ \/ Goto(x, [User EXCEPT !.pc = "push", !.rq = c, !.all = TRUE])
                 \/ Goto(x, [User EXCEPT !.pc = "push", !.rq = c])
    PROVE  /\ Calm(lock, lock', ctx, ctx', x) /\ ctx'[x].pc \in {"user", "push"}
           /\ \A r : Local(r, lock', ctx'[x], x)
<1>1. User \in Context /\ ctx \in [Cpu -> Context] /\ lock \in [Cpu -> Cpu \cup {Free}]
  BY TypeLemma
<1>2. c \in Int /\ User.task = Idle /\ User.pc = "user"
  BY SmpAssumption DEF User
<1>3. ASSUME NEW k \in Context, k.pc = "push", k.rq = c, k.task = Idle, Goto(x, k), Take(x, {c})
      PROVE  /\ Calm(lock, lock', ctx, ctx', x) /\ ctx'[x].pc \in {"user", "push"}
             /\ \A r : Local(r, lock', ctx'[x], x)
  <2>1. ctx' \in [Cpu -> Context] /\ ctx'[x] = k /\ \A y \in Cpu \ {x} : ctx'[y] = ctx[y]
    BY <1>1, <1>3, GotoLemma
  <2>2. /\ lock' \in [Cpu -> Cpu \cup {Free}] /\ lock'[c] = x
        /\ \A d \in Cpu : lock[d] \notin {x, Free} => lock'[d] = lock[d]
    BY <1>1, <1>3 DEF Take
  <2> QED
    BY <1>3, <2>1, <2>2, UserLemma, SMT, Zenon, SMTT(40) DEF Calm
<1>4. CASE Goto(x, User) /\ UNCHANGED lock
  <2>1. ctx' \in [Cpu -> Context] /\ ctx'[x] = User /\ \A y \in Cpu \ {x} : ctx'[y] = ctx[y]
    BY <1>1, <1>4, GotoLemma
  <2> QED
    BY <1>1, <1>2, <1>4, <2>1, UserLemma DEF Calm
<1>5. CASE Take(x, {c}) /\ Goto(x, [User EXCEPT !.pc = "push", !.rq = c, !.all = TRUE])
  <2> DEFINE k == [User EXCEPT !.pc = "push", !.rq = c, !.all = TRUE]
  <2>1. k \in Context /\ k.pc = "push" /\ k.rq = c /\ k.task = Idle
    BY <1>1, <1>2, Zenon DEF Context, Pc
  <2>2. Goto(x, k) /\ Take(x, {c})
    BY <1>5
  <2> HIDE DEF k
  <2> QED
    BY <1>3, <2>1, <2>2
<1>6. CASE Take(x, {c}) /\ Goto(x, [User EXCEPT !.pc = "push", !.rq = c])
  <2> DEFINE k == [User EXCEPT !.pc = "push", !.rq = c]
  <2>1. k \in Context /\ k.pc = "push" /\ k.rq = c /\ k.task = Idle
    BY <1>1, <1>2, Zenon DEF Context, Pc
  <2>2. Goto(x, k) /\ Take(x, {c})
    BY <1>6
  <2> HIDE DEF k
  <2> QED
    BY <1>3, <2>1, <2>2
<1> QED
  BY <1>4, <1>5, <1>6

\* ttwu_do_activate().
LEMMA WokenLemma ==
    ASSUME Counting, SmpInv, NEW x \in Cpu, Woken(x)
    PROVE  SmpInv'
<1> DEFINE p == ctx[x].task
           c == ctx[x].rq
<1>1. ctx[x].pc = "woken" /\ lock[c] = Free
  BY DEF Woken, At, IsFree
<1>2. Local(M, lock, ctx[x], x) /\ \A y \in Cpu : y # x => Apart(ctx[x], ctx[y])
  BY Zenon DEF SmpInv, State
<1>3. /\ p \in Task /\ ~M.tsk[p].on_rq /\ M.tsk[p].cpu = c
      /\ \A d \in Cpu : M.rq[d].curr # p
  BY <1>1, <1>2, SMT, Zenon, SMTT(40) DEF Local
<1>4. \A y \in Cpu \ {x} : ctx[y].pc \in {"select", "woken"} => ctx[y].task # p
  BY <1>1, <1>2 DEF Apart
<1>5. PICK d \in Updated(M, p) :
        LET m == check_preempt_curr([enqueue_task_dl(M, c, p, d) EXCEPT !.tsk[p].on_rq = TRUE],
                                    c, p)
        IN  /\ Commit(m)
            /\ \/ /\ Take(x, {c})
                  /\ Goto(x, [User EXCEPT !.pc = "push", !.rq = c, !.all = TRUE])
               \/ Goto(x, User) /\ UNCHANGED lock
  BY Zenon DEF Woken
<1> HIDE DEF p, c
<1> DEFINE q == enqueue_task_dl(M, c, p, d)
           e == [q.tsk[p] EXCEPT !.on_rq = TRUE]
           m == SetTask(q, p, e)
           r == check_preempt_curr(m, c, p)
<1>6. c \in Cpu /\ d \in Int /\ Good(M, {}) /\ Idlers(M)
  <2>1. M \in Machine /\ Updated(M, p) \subseteq Int
    BY <1>3, TypeLemma
  <2> QED
    BY <1>3, <2>1, MachineType, SMT, Zenon, SMTT(40) DEF SmpInv, State
<1>7. Good(q, {p}) /\ Idlers(q) /\ Stay(M, q, Idle)
  <2>1. \A b \in Cpu : p \notin Elems(M.rq[b].tree)
    BY <1>3, <1>6 DEF Good, Placed
  <2>2. Good(M, {p})
    BY <1>6, ExemptLemma
  <2> QED
    BY <1>3, <1>6, <2>1, <2>2, EnqueueTask, ZenonT(60)
<1>8. [q EXCEPT !.tsk[p].on_rq = TRUE] = m
  <2>1. q \in Machine /\ q.tsk[p] \in Entity
    BY <1>3, <1>7, MachineType, Zenon DEF Good
  <2> HIDE DEF q
  <2> QED
    BY <1>3, <2>1, Zenon DEF SetTask, Machine, Entity
<1> HIDE DEF q
<1>9. /\ e \in Entity /\ e.cpu = q.tsk[p].cpu /\ e.on_rq /\ e.allowed = q.tsk[p].allowed
      /\ e.throttled = q.tsk[p].throttled /\ e.armed = q.tsk[p].armed
  <2>1. q.tsk[p] \in Entity
    BY <1>3, <1>7, MachineType, Zenon DEF Good
  <2> QED
    BY <2>1, ZenonT(60) DEF Entity
<1> HIDE DEF e
<1>10. Good(m, {p})
  <2>1. Cardinality(e.allowed) > 1 <=> Migratory(q, p)
    BY <1>9, ZenonT(60) DEF Migratory
  <2> QED
    BY <1>3, <1>7, <1>9, <2>1, TaskLemma, Zenon
<1>11. /\ m.rq = q.rq /\ m.bug = q.bug /\ m.tsk[p] = e
       /\ \A a \in Task : a # p => m.tsk[a] = q.tsk[a]
  BY <1>3, <1>7, <1>9, SetTaskLemma, SMTT(60), SMTT(80) DEF Good
<1>12. M' = r /\ r \in Machine
  <2>1. Alike(m, r)
    BY <1>6, <1>10, PreemptLemma DEF Good
  <2>2. Commit(r)
    BY <1>5, <1>8, Zenon DEF q
  <2>3. r \in Machine
    BY <2>1, Zenon DEF Alike
  <2> HIDE DEF r
  <2> QED
    BY <2>2, <2>3, CommitLemma, SMT, Zenon, SMTT(40)
<1> HIDE DEF m
<1>13. Good(m, {}) /\ Idlers(m)
  BY <1>7, <1>9, <1>10, <1>11, ExemptLemma, Zenon DEF Idlers
<1>14. Alike(m, r)
  BY <1>6, <1>13, PreemptLemma DEF Good
<1> HIDE DEF r
<1>15. Good(r, {}) /\ Idlers(r)
  BY <1>13, <1>14, AlikeLemma, ZenonT(60)
<1>16. r.bug = M.bug
  BY <1>7, <1>11, <1>14 DEF Alike, Stay, Frame
<1>17. ASSUME NEW a \in Task PROVE Timed(M, r, a) /\ (a # p => Kept(M, r, a))
  <2>1. r.tsk = m.tsk /\ \A b \in Cpu : r.rq[b].curr = M.rq[b].curr
    BY <1>7, <1>11, <1>14, SMTT(40), SMTT(60) DEF Alike, Stay, Frame
  <2>2. Timed(M, r, a)
    BY <1>7, <1>9, <1>11, <2>1, ZenonT(60) DEF Timed, Stay, Frame
  <2>3. a # p => Kept(M, r, a)
    BY <1>7, <1>11, <2>1, SmpAssumption, SMT, Zenon, SMTT(40) DEF Kept, Stay, Frame
  <2> QED
    BY <2>2, <2>3, ZenonT(60)
<1>18. /\ Calm(lock, lock', ctx, ctx', x) /\ ctx'[x].pc \in {"user", "push"}
       /\ Local(r, lock', ctx'[x], x)
  BY <1>1, <1>5, <1>6, PushOrUser, ZenonT(60)
<1>19. ASSUME NEW y \in Cpu \ {x}, Chosen(ctx[y]) \/ ctx[y].pc \in {"select", "woken"}
       PROVE  ctx[y].task \notin {p}
  <2>1. Local(M, lock, ctx[y], y)
    BY DEF SmpInv, State
  <2> QED
    BY <1>3, <1>4, <1>19, <2>1, Zenon DEF Local
<1>20. State(r, lock', ctx')
  BY <1>15, <1>16, <1>17, <1>18, <1>19, ChangeLemma, Zenon
<1> QED
  BY <1>12, <1>20, ZenonT(60) DEF SmpInv

\* dl_task_timer(), with the runqueue it looked up locked.
LEMMA TimerLemma ==
    ASSUME Counting, SmpInv, NEW x \in Cpu, dl_task_timer(x)
    PROVE  SmpInv'
<1> DEFINE p == ctx[x].task
           c == ctx[x].rq
           e == [tsk[p] EXCEPT !.throttled = FALSE]
           m == SetTask(M, p, e)
<1>1. ctx[x].pc = "timer" /\ lock[c] = Free
  BY Zenon DEF dl_task_timer, At, IsFree
<1>2. Local(M, lock, ctx[x], x) /\ \A y \in Cpu : y # x => Apart(ctx[x], ctx[y])
  BY SMT, Zenon, SMTT(40) DEF SmpInv, State
<1>3. /\ M \in Machine /\ M.tsk = tsk /\ M.rq = rq /\ M.bug = bug
      /\ Good(M, {}) /\ Idlers(M) /\ bug \in {"none", "wrong_rq"}
  BY TypeLemma, SMT, Zenon, SMTT(40) DEF SmpInv, State
<1>4. p \in Task /\ c \in Cpu /\ tsk[p].throttled /\ ~tsk[p].armed /\ tsk[p] \in Entity
  BY <1>1, <1>2, <1>3, MachineType, ZenonT(60) DEF Local
<1>5. \A y \in Cpu \ {x} : ctx[y].pc = "timer" => ctx[y].task # p
  BY <1>1, <1>2 DEF Apart
<1>6. [M EXCEPT !.tsk[p].throttled = FALSE] = m
  <2> HIDE DEF p
  <2> QED
    BY <1>3, <1>4, Zenon DEF SetTask, Machine, Entity
<1>7. \/ tsk[p].cpu # c /\ bug' = "wrong_rq" /\ UNCHANGED <<rq, tsk, rd, lock, ctx>>
      \/ Commit(m) /\ Goto(x, User) /\ UNCHANGED lock
      \/ /\ tsk[p].cpu = c /\ tsk[p].on_rq
         /\ \E d \in Later(tsk[p].dl) :
               LET r == check_preempt_curr(enqueue_task_dl(m, c, p, d), c, p)
               IN  /\ Commit(r)
                   /\ \/ Take(x, {c}) /\ Goto(x, [User EXCEPT !.pc = "push", !.rq = c])
                      \/ Goto(x, User) /\ UNCHANGED lock
  BY <1>6, Zenon DEF dl_task_timer
<1>8. /\ e \in Entity /\ e.cpu = tsk[p].cpu /\ e.on_rq = tsk[p].on_rq
      /\ ~e.throttled /\ e.armed = tsk[p].armed /\ e.allowed = tsk[p].allowed
  BY <1>4, ZenonT(60) DEF Entity
<1> HIDE DEF p, c, e
<1>9. \A b \in Cpu : p \notin Elems(M.rq[b].tree)
  BY <1>3, <1>4, Zenon DEF Good, Placed
<1>10. Good(m, {})
  BY <1>3, <1>4, <1>8, <1>9, TaskLemma, ZenonT(60)
<1>11. /\ m.rq = rq /\ m.bug = bug /\ m.tsk[p] = e
       /\ \A a \in Task : a # p => m.tsk[a] = tsk[a]
  BY <1>3, <1>4, <1>8, SetTaskLemma, SMTT(40), SMTT(60)
<1>12. Idlers(m) /\ m \in Machine
  BY <1>3, <1>10, <1>11, SMT, Zenon, SMTT(40) DEF Idlers, Good
<1> HIDE DEF m
<1>13. ASSUME NEW r, Good(r, {}), Idlers(r), Stay(m, r, Idle), Commit(r),
              \/ Goto(x, User) /\ UNCHANGED lock
              \/ Take(x, {c}) /\ Goto(x, [User EXCEPT !.pc = "push", !.rq = c])
       PROVE  SmpInv'
  <2>1. M' = r
    BY <1>13, CommitLemma DEF Good
  <2>2. /\ Calm(lock, lock', ctx, ctx', x) /\ ctx'[x].pc \in {"user", "push"}
        /\ Local(r, lock', ctx'[x], x)
    BY <1>1, <1>4, <1>13, PushOrUser, Zenon
  <2>3. \A a \in Task : a # p => Timed(M, r, a)
    BY <1>3, <1>11, <1>13, SMT, Zenon, SMTT(40) DEF Stay, Frame, Timed
  <2>4. \A a \in Task : Kept(M, r, a)
    BY <1>3, <1>8, <1>11, <1>13, SmpAssumption, SMTT(40), SMTT(60) DEF Stay, Frame, Kept
  <2>5. r.bug \in {"none", "wrong_rq"} /\ \A a \in Task : r.tsk[a].armed => r.tsk[a].throttled
    <3>1. \A a \in Task : m.tsk[a].armed => m.tsk[a].throttled
      BY <1>3, <1>4, <1>8, <1>11, Zenon DEF SmpInv, State
    <3> QED
      BY <1>3, <1>11, <1>13, <3>1, Zenon DEF Stay, Frame
  <2>6. \A y \in Cpu \ {x} : Apart(ctx'[x], ctx[y])
    BY <2>2, ZenonT(60) DEF Apart
  <2>7. ASSUME NEW y \in Cpu \ {x}
        PROVE  /\ ctx[y].pc = "timer" => ctx[y].task \in Task
               /\ Chosen(ctx[y]) \/ ctx[y].pc \in {"select", "woken"} => ctx[y].task \in Task
    <3>1. Local(M, lock, ctx[y], y)
      BY DEF SmpInv, State
    <3> QED
      BY <3>1, SMT, Zenon, SMTT(40) DEF Local
  <2>8. State(r, lock', ctx')
    BY <1>5, <1>13, <2>2, <2>3, <2>4, <2>5, <2>6, <2>7, StepLemma, SMTT(40), SMTT(60) DEF SmpInv
  <2> QED
    BY <2>1, <2>8 DEF SmpInv
<1>14. CASE bug' = "wrong_rq" /\ UNCHANGED <<rq, tsk, rd, lock, ctx>>
  <2>1. /\ M' \in Machine /\ (M').tsk = M.tsk /\ (M').rd = M.rd /\ (M').rq = M.rq
        /\ (M').bug = "wrong_rq"
    BY <1>3, <1>14, Zenon DEF M, Machine, Bugs
  <2> DEFINE r == M'
  <2> HIDE DEF r
  <2>2. \A b \in Cpu : Movers(r, b) = Movers(M, b)
    BY <2>1, ZenonT(60) DEF Movers, Migratory, r
  <2>3. Placed(r, {}) /\ Idlers(r)
    BY <1>3, <2>1, SMTT(40), SMTT(60) DEF Good, Placed, Idlers, r
  <2>4. Shown(r, {})
    BY <1>3, <2>1, ShownLemma, Zenon DEF Good, r
  <2>5. Counted(r)
    BY <1>3, <2>1, <2>2, ZenonT(60) DEF Good, Counted, r
  <2>6. \A y \in Cpu : Local(r, lock', ctx'[y], y)
    <3>1. \A y \in Cpu : Local(M, lock, ctx[y], y)
      BY DEF SmpInv, State
    <3>2. r.tsk = M.tsk /\ r.rq = M.rq /\ lock' = lock /\ ctx' = ctx
      BY <1>14, <2>1, Zenon DEF r
    <3> QED
      BY <3>1, <3>2, SMTT(60), SMTT(80) DEF Local
  <2>7. State(r, lock', ctx')
    BY <1>14, <2>1, <2>3, <2>6, <2>4, <2>5, Zenon DEF SmpInv, State, Good, r
  <2> QED
    BY <2>7 DEF SmpInv, r
<1>15. CASE Commit(m) /\ Goto(x, User) /\ UNCHANGED lock
  <2>1. Stay(m, m, Idle)
    BY DEF Stay, Frame
  <2> QED
    BY <1>10, <1>12, <1>13, <1>15, <2>1, Zenon
<1>16. ASSUME tsk[p].cpu = c, tsk[p].on_rq, NEW d \in Later(tsk[p].dl),
              LET r == check_preempt_curr(enqueue_task_dl(m, c, p, d), c, p)
              IN  /\ Commit(r)
                  /\ \/ Take(x, {c}) /\ Goto(x, [User EXCEPT !.pc = "push", !.rq = c])
                     \/ Goto(x, User) /\ UNCHANGED lock
       PROVE  SmpInv'
  <2> DEFINE q == enqueue_task_dl(m, c, p, d)
             r == check_preempt_curr(q, c, p)
  <2>1. d \in Int
    BY <1>4, TypeLemma, SMT, Zenon, SMTT(40)
  <2>2. /\ m.tsk[p].cpu = c /\ m.tsk[p].on_rq
        /\ \A b \in Cpu : p \notin Elems(m.rq[b].tree)
    BY <1>3, <1>8, <1>9, <1>11, <1>16, Zenon
  <2>3. Good(q, {}) /\ Idlers(q) /\ Stay(m, q, Idle)
    BY <1>4, <1>10, <1>12, <2>1, <2>2, EnqueueTask, Zenon
  <2>4. /\ Commit(r)
        /\ \/ Take(x, {c}) /\ Goto(x, [User EXCEPT !.pc = "push", !.rq = c])
           \/ Goto(x, User) /\ UNCHANGED lock
    BY <1>16, Zenon
  <2> HIDE DEF q
  <2>5. Alike(q, r)
    BY <1>4, <2>3, PreemptLemma, Zenon DEF Good
  <2> HIDE DEF r
  <2>6. Good(r, {}) /\ Idlers(r) /\ Stay(m, r, Idle)
    BY <2>3, <2>5, AlikeLemma, AlikeStays, StayLemma, Zenon
  <2> QED
    BY <1>13, <2>4, <2>6, Zenon
<1> QED
  BY <1>7, <1>14, <1>15, <1>16, Zenon

\* __schedule() up to pre_schedule_dl(): whom x runs stays, but may not be runnable any more.
LEMMA ScheduleLemma ==
    ASSUME Counting, SmpInv, NEW x \in Cpu, schedule(x)
    PROVE  SmpInv'
<1> DEFINE p == rq[x].curr
           k(s) == [User EXCEPT !.pc = s, !.to = -1]
<1>1. lock[x] = Free /\ ctx[x].pc = "user"
  BY ZenonT(60) DEF schedule, At, IsFree
<1>2. /\ M \in Machine /\ M.tsk = tsk /\ M.rq = rq /\ M.bug = bug
      /\ Good(M, {}) /\ Idlers(M) /\ lock \in [Cpu -> Cpu \cup {Free}]
  BY TypeLemma, ZenonT(60) DEF SmpInv, State
<1>3. \/ Commit(M)
      \/ /\ dl_task(p)
         /\ \E b \in Budget(M, x) :
               Commit([dequeue_task_dl(M, x, p, b) EXCEPT !.tsk[p].on_rq = FALSE])
  BY ZenonT(60) DEF schedule
<1>4. Take(x, {x}) /\ \E s \in {"pull", "pick"} : Goto(x, k(s))
  BY Zenon DEF schedule
<1>5. /\ Calm(lock, lock', ctx, ctx', x) /\ ctx'[x].pc \in {"pull", "pick"}
      /\ \A r : Local(r, lock', ctx'[x], x)
  <2>1. PICK s \in {"pull", "pick"} : Goto(x, k(s))
    BY <1>4, Zenon
  <2>2. k(s) \in Context /\ k(s).pc = s
    <3>1. User \in Context
      BY TypeLemma
    <3>2. s \in Pc
      BY DEF Pc
    <3>3. -1 \in Int
      OBVIOUS
    <3> QED
      BY <3>1, <3>2, <3>3, Zenon DEF Context
  <2> DEFINE j == k(s)
  <2> HIDE DEF j
  <2>3. ctx' \in [Cpu -> Context] /\ ctx'[x] = j /\ \A y \in Cpu \ {x} : ctx'[y] = ctx[y]
    BY <2>1, <2>2, TypeLemma, GotoLemma, SMT, Zenon, SMTT(40) DEF j
  <2>4. /\ lock' \in [Cpu -> Cpu \cup {Free}] /\ lock'[x] = x
        /\ \A c \in Cpu : lock[c] \notin {x, Free} => lock'[c] = lock[c]
    BY <1>1, <1>2, <1>4, SMT, Zenon, SMTT(40) DEF Take
  <2>5. j.pc \in {"pull", "pick"}
    BY <2>2 DEF j
  <2> QED
    BY <2>3, <2>4, <2>5, UserLemma DEF Calm
<1>6. CASE Commit(M)
  <2>1. M' = M
    BY <1>2, <1>6, CommitLemma, SMTT(40), SMTT(60)
  <2>2. Stay(M, M, Idle)
    BY Zenon DEF Stay, Frame
  <2>3. State(M, lock', ctx')
    BY <1>2, <1>5, <2>2, MoveLemma, SmpAssumption, Zenon DEF SmpInv
  <2> QED
    BY <2>1, <2>3 DEF SmpInv
<1>7. ASSUME dl_task(p), NEW b \in Budget(M, x),
             Commit([dequeue_task_dl(M, x, p, b) EXCEPT !.tsk[p].on_rq = FALSE])
      PROVE  SmpInv'
  <2> DEFINE q == dequeue_task_dl(M, x, p, b)
             e == [q.tsk[p] EXCEPT !.on_rq = FALSE]
             r == SetTask(q, p, e)
  <2>1. p \in Task /\ M.tsk[p].cpu = x /\ b \in Int /\ M.rq[x].curr = p
    <3>1. p \in Task
      BY <1>2, <1>7, MachineType, ZenonT(60) DEF dl_task
    <3> QED
      BY <1>2, <3>1, TypeLemma, Zenon DEF Good, Placed
  <2> HIDE DEF p
  <2>2. /\ Good(q, {}) /\ Idlers(q) /\ Stay(M, q, Idle)
        /\ \A d \in Cpu : p \notin Elems(q.rq[d].tree)
    BY <1>2, <2>1, DequeueTaskDl
  <2>3. [q EXCEPT !.tsk[p].on_rq = FALSE] = r
    <3>1. q \in Machine /\ q.tsk[p] \in Entity
      BY <2>1, <2>2, MachineType, Zenon DEF Good
    <3> HIDE DEF q
    <3> QED
      BY <2>1, <3>1, Zenon DEF SetTask, Machine, Entity
  <2>4. Commit(r)
    BY <1>7, <2>3
  <2> HIDE DEF q
  <2>5. /\ e \in Entity /\ e.cpu = q.tsk[p].cpu
        /\ e.throttled = q.tsk[p].throttled /\ e.armed = q.tsk[p].armed
    <3>1. q.tsk[p] \in Entity
      BY <2>1, <2>2, MachineType DEF Good
    <3> QED
      BY <3>1, ZenonT(60) DEF Entity
  <2> HIDE DEF e
  <2>6. Good(r, {})
    BY <2>1, <2>2, <2>5, TaskLemma, ZenonT(60)
  <2>7. /\ r.rq = q.rq /\ r.bug = q.bug /\ r.tsk[p] = e
        /\ \A a \in Task : a # p => r.tsk[a] = q.tsk[a]
    BY <2>1, <2>2, <2>5, SetTaskLemma, ZenonT(60) DEF Good
  <2> HIDE DEF r
  <2>8. M' = r
    BY <2>4, <2>6, CommitLemma DEF Good
  <2>9. Idlers(r) /\ r.bug = M.bug
    BY <2>2, <2>7, SMT, Zenon, SMTT(40) DEF Idlers, Stay, Frame
  <2>10. \A a \in Task : Timed(M, r, a)
    BY <2>2, <2>5, <2>7, ZenonT(60) DEF Timed, Stay, Frame
  <2>11. ASSUME NEW a \in Task \ {p} PROVE Kept(M, r, a)
    <3>1. r.tsk[a].cpu = M.tsk[a].cpu /\ r.tsk[a].on_rq = M.tsk[a].on_rq
      BY <2>2, <2>7, SmpAssumption, Zenon DEF Stay, Frame
    <3>2. \A c \in Cpu : r.rq[c].curr = M.rq[c].curr
      BY <2>2, <2>7, ZenonT(60) DEF Stay, Frame
    <3> QED
      BY <3>1, <3>2, Zenon DEF Kept
  <2>12. ASSUME NEW y \in Cpu \ {x}, Chosen(ctx[y]) \/ ctx[y].pc \in {"select", "woken"}
         PROVE  ctx[y].task \notin {p}
    <3>1. Local(M, lock, ctx[y], y)
      BY Zenon DEF SmpInv, State
    <3>2. CASE ctx[y].pc \in {"select", "woken"}
      BY <2>1, <3>1, <3>2, ZenonT(60) DEF Local
    <3>3. CASE Chosen(ctx[y])
      <4>1. M.tsk[ctx[y].task].cpu = ctx[y].rq /\ lock[ctx[y].rq] = y
        BY <3>1, <3>3, ZenonT(60) DEF Local, Chosen
      <4> QED
        BY <1>1, <2>1, <4>1, SmpAssumption, SMT, Zenon, SMTT(40) DEF Free
    <3> QED
      BY <2>12, <3>2, <3>3, SMTT(40), SMTT(60)
  <2>13. State(r, lock', ctx')
    BY <1>5, <2>6, <2>9, <2>10, <2>11, <2>12, ChangeLemma, ZenonT(60)
  <2> QED
    BY <2>8, <2>13 DEF SmpInv
<1> QED
  BY <1>3, <1>6, <1>7, ZenonT(60)

\* __schedule() from put_prev_task() on: x runs another task, with its runqueue locked.
LEMMA SwitchLemma ==
    ASSUME Counting, SmpInv, NEW x \in Cpu, Switch(x)
    PROVE  SmpInv'
<1> DEFINE p == rq[x].curr
           q(b) == IF dl_task(p) THEN put_prev_task_dl(M, x, p, b) ELSE M
           k == [User EXCEPT !.pc = "post"]
<1>1. /\ M \in Machine /\ M.tsk = tsk /\ M.rq = rq /\ M.bug = bug /\ Good(M, {}) /\ Idlers(M)
      /\ User \in Context /\ ctx \in [Cpu -> Context] /\ lock \in [Cpu -> Cpu \cup {Free}]
  BY TypeLemma, ZenonT(60) DEF SmpInv, State
<1>2. ctx[x].pc = "pick" /\ lock[x] = x /\ Drop({x})
  <2>1. Local(M, lock, ctx[x], x)
    BY DEF SmpInv, State
  <2> QED
    BY <2>1 DEF Switch, At, Local
<1>3. PICK b \in Budget(M, x) : /\ Commit(pick_next_task_dl(q(b), x))
                                /\ Goto(x, User) \/ Goto(x, k)
  BY ZenonT(60) DEF Switch
<1>4. b \in Int /\ p \in Task \cup {Idle} /\ M.rq[x].curr = p
  BY <1>1, TypeLemma, MachineType
<1>5. k \in Context /\ k.pc = "post" /\ User.pc = "user"
  <2>1. User.pc = "user"
    BY DEF User
  <2>2. k \in Context /\ k.pc = "post"
    BY <1>1, Zenon DEF Context, Pc
  <2> QED
    BY <2>1, <2>2, SMT, Zenon, SMTT(40)
<1> HIDE DEF k
<1>6. /\ Calm(lock, lock', ctx, ctx', x) /\ ctx'[x].pc \in {"user", "post"}
      /\ \A r : Local(r, lock', ctx'[x], x)
  <2>1. /\ ctx' \in [Cpu -> Context] /\ ctx'[x].pc \in {"user", "post"}
        /\ \A y \in Cpu \ {x} : ctx'[y] = ctx[y]
    BY <1>1, <1>3, <1>5, GotoLemma, ZenonT(60)
  <2>2. /\ lock' \in [Cpu -> Cpu \cup {Free}]
        /\ \A c \in Cpu : lock[c] \notin {x, Free} => lock'[c] = lock[c]
    BY <1>1, <1>2 DEF Drop
  <2> QED
    BY <2>1, <2>2, UserLemma, ZenonT(60) DEF Calm
<1> DEFINE m == q(b)
           r == pick_next_task_dl(m, x)
<1>7. /\ Good(m, {}) /\ Stay(M, m, Idle)
      /\ \A c \in Cpu \ {x} : m.rq[c].curr \notin Elems(m.rq[c].push)
  <2>1. CASE dl_task(p)
    <3>1. p \in Task /\ m = put_prev_task_dl(M, x, p, b)
      BY <1>4, <2>1, ZenonT(60) DEF dl_task
    <3> HIDE DEF p, m
    <3> QED
      BY <1>1, <1>4, <3>1, PutPrev, Zenon
  <2>2. CASE ~dl_task(p)
    <3>1. m = M
      BY <2>2
    <3> HIDE DEF m
    <3> QED
      BY <1>1, <3>1 DEF Stay, Frame, Idlers
  <2> QED
    BY <2>1, <2>2, ZenonT(60)
<1>8. Commit(r)
  BY <1>3
<1> HIDE DEF p, q, m
<1>9. /\ Good(r, {}) /\ Idlers(r) /\ r.tsk = m.tsk /\ r.bug = m.bug
      /\ \A c \in Cpu \ {x} : r.rq[c].curr = m.rq[c].curr
      /\ r.rq[x].curr = Idle \/ r.rq[x].curr \in Elems(m.rq[x].tree)
  BY <1>7, PickNext, ZenonT(60)
<1> HIDE DEF r
<1>10. M' = r
  BY <1>8, <1>9, CommitLemma, ZenonT(60) DEF Good
<1> DEFINE n == r.rq[x].curr
<1>11. n \in Task => M.tsk[n].cpu = x /\ M.tsk[n].on_rq
  <2>1. n \in Task => m.tsk[n].cpu = x /\ m.tsk[n].on_rq
    BY <1>7, <1>9, SmpAssumption, SMTT(60), SMTT(80) DEF Good, Placed
  <2> QED
    BY <1>7, <2>1, SmpAssumption, ZenonT(60) DEF Stay, Frame
<1>12. p \in Task => M.tsk[p].cpu = x
  BY <1>1, <1>4 DEF Good, Placed
<1>13. \A a \in Task : Timed(M, r, a)
  BY <1>7, <1>9, ZenonT(60) DEF Timed, Stay, Frame
<1>14. ASSUME NEW a \in Task \ {p, n} PROVE Kept(M, r, a)
  <2>1. r.tsk[a].cpu = M.tsk[a].cpu /\ r.tsk[a].on_rq = M.tsk[a].on_rq
    BY <1>7, <1>9, SmpAssumption, ZenonT(60) DEF Stay, Frame
  <2>2. \A c \in Cpu : (r.rq[c].curr = a) = (M.rq[c].curr = a)
    BY <1>4, <1>7, <1>9, SMTT(40), SMTT(60) DEF Stay, Frame
  <2> QED
    BY <2>1, <2>2 DEF Kept
<1>15. ASSUME NEW y \in Cpu \ {x}, Chosen(ctx[y]) \/ ctx[y].pc \in {"select", "woken"}
       PROVE  ctx[y].task \notin {p, n}
  <2>1. Local(M, lock, ctx[y], y)
    BY SMT, Zenon, SMTT(40) DEF SmpInv, State
  <2>2. CASE ctx[y].pc \in {"select", "woken"}
    <3>1. ctx[y].task \in Task /\ ~M.tsk[ctx[y].task].on_rq /\ ctx[y].task # p
      BY <1>4, <2>1, <2>2, ZenonT(60) DEF Local
    <3> QED
      BY <1>11, <3>1, Zenon
  <2>3. CASE Chosen(ctx[y])
    <3>1. ctx[y].task \in Task /\ M.tsk[ctx[y].task].cpu = ctx[y].rq /\ lock[ctx[y].rq] = y
      BY <2>1, <2>3, ZenonT(60) DEF Local, Chosen
    <3> QED
      BY <1>2, <1>11, <1>12, <3>1, SMT, Zenon, SMTT(40)
  <2> QED
    BY <1>15, <2>2, <2>3, Zenon
<1>16. r.bug = M.bug
  BY <1>7, <1>9, ZenonT(60) DEF Stay, Frame
<1> HIDE DEF n
<1>17. State(r, lock', ctx')
  BY <1>6, <1>9, <1>13, <1>14, <1>15, <1>16, ChangeLemma, ZenonT(60)
<1> QED
  BY <1>10, <1>17 DEF SmpInv

\* post_schedule() locks its runqueue for push_dl_tasks().
LEMMA PostLemma ==
    ASSUME SmpInv, NEW x \in Cpu, post_schedule(x)
    PROVE  SmpInv'
<1>1. /\ lock[x] = Free /\ Take(x, {x})
      /\ Goto(x, [User EXCEPT !.pc = "push", !.rq = x, !.all = TRUE])
      /\ UNCHANGED <<rq, tsk, rd, bug>>
  BY DEF post_schedule, IsFree
<1>2. M' = M /\ Good(M, {}) /\ Idlers(M)
  BY <1>1 DEF SmpInv, State, M
<1>3. /\ Calm(lock, lock', ctx, ctx', x) /\ ctx'[x].pc \in {"user", "push"}
      /\ Local(M, lock', ctx'[x], x)
  BY <1>1, PushOrUser, Zenon
<1>4. Stay(M, M, Idle)
  BY ZenonT(60) DEF Stay, Frame
<1>5. State(M, lock', ctx')
  BY <1>2, <1>3, <1>4, MoveLemma, SmpAssumption, SMT, Zenon, SMTT(40) DEF SmpInv
<1> QED
  BY <1>2, <1>5 DEF SmpInv

=============================================================================
