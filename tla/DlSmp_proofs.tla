---------------------------- MODULE DlSmp_proofs ----------------------------
(***************************************************************************)
(* Push, pull and a change of affinity keep the invariant, and what follows *)
(* from it.                                                                *)
(***************************************************************************)
EXTENDS DlSmp_steps, FiniteSetTheorems, WellFoundedInduction

-----------------------------------------------------------------------------
(* The steps of push and pull.                                             *)

\* A round of pull_dl_task(), with both runqueues locked.
LEMMA PullStep ==
    ASSUME Counting, SmpInv, NEW x \in Cpu, NEW c \in Cpu, c # x, lock[c] = Free, Pull(x, c),
           \/ lock[x] = x /\ lock' = lock
           \/ lock[x] = Free /\ Take(x, {x})
    PROVE  SmpInv'
<1> DEFINE p == pick_next_earliest_dl_task(M, c, x)
           j == [ctx[x] EXCEPT !.pc = "pull", !.to = c]
           k(e) == [j EXCEPT !.dmin = e]
<1>1. /\ M \in Machine /\ M.tsk = tsk /\ M.rq = rq /\ M.bug = bug /\ Good(M, {}) /\ Idlers(M)
      /\ ctx \in [Cpu -> Context] /\ lock \in [Cpu -> Cpu \cup {Free}]
  BY TypeLemma, Zenon DEF SmpInv, State
<1>2. \/ Commit(M) /\ Goto(x, j)
      \/ /\ p # Idle
         /\ \E b \in Budget(M, c), d \in Updated(M, p) :
               LET m == Migrate(M, c, x, p, b, d)
               IN  Commit(m) /\ Goto(x, k(m.tsk[p].dl))
  BY Zenon DEF Pull
<1>3. j \in Context /\ j.pc = "pull"
  <2>1. ctx[x] \in Context /\ c \in Int
    BY <1>1, SmpAssumption, SMT, Zenon, SMTT(40)
  <2> QED
    BY <2>1, Zenon DEF Context, Pc
<1> HIDE DEF j
<1>4. \A e \in Int : k(e) \in Context /\ k(e).pc = "pull"
  BY <1>3, SMT, Zenon, SMTT(40) DEF Context
<1>5. ASSUME NEW a \in Context, a.pc = "pull", Goto(x, a)
      PROVE  /\ Calm(lock, lock', ctx, ctx', x) /\ ctx'[x].pc = "pull"
             /\ \A r : Local(r, lock', ctx'[x], x)
  <2>1. /\ lock' \in [Cpu -> Cpu \cup {Free}] /\ lock'[x] = x
        /\ \A d \in Cpu : lock[d] \notin {x, Free} => lock'[d] = lock[d]
    BY <1>1 DEF Take
  <2>2. ctx' \in [Cpu -> Context] /\ ctx'[x] = a /\ \A y \in Cpu \ {x} : ctx'[y] = ctx[y]
    BY <1>1, <1>5, GotoLemma, SMT, Zenon, SMTT(40)
  <2> QED
    BY <1>5, <2>1, <2>2, UserLemma, Zenon DEF Calm
<1>6. CASE Commit(M) /\ Goto(x, j)
  <2>1. M' = M
    BY <1>1, <1>6, CommitLemma, SMT, Zenon, SMTT(40)
  <2>2. Stay(M, M, Idle)
    BY DEF Stay, Frame
  <2>3. State(M, lock', ctx')
    BY <1>1, <1>3, <1>5, <1>6, <2>2, MoveLemma, SmpAssumption, ZenonT(60) DEF SmpInv
  <2> QED
    BY <2>1, <2>3, SMT, Zenon, SMTT(40) DEF SmpInv
<1>7. ASSUME p # Idle, NEW b \in Budget(M, c), NEW d \in Updated(M, p),
             LET m == Migrate(M, c, x, p, b, d)
             IN  Commit(m) /\ Goto(x, k(m.tsk[p].dl))
      PROVE  SmpInv'
  <2> DEFINE r == Migrate(M, c, x, p, b, d)
  <2>1. Commit(r) /\ Goto(x, k(r.tsk[p].dl))
    BY <1>7, SMT, Zenon, SMTT(40)
  <2>2. p \in Task /\ p \in Elems(M.rq[c].tree) /\ M.rq[c].curr # p
    BY <1>1, <1>7, EarliestLemma, SMT, Zenon, SMTT(40)
  <2> HIDE DEF p
  <2>3. M.tsk[p].cpu = c /\ M.tsk[p].on_rq
    BY <1>1, <2>2, ZenonT(60) DEF Good, Placed
  <2>4. b \in Int /\ d \in Int
    BY <2>2, TypeLemma, Zenon
  <2>5. Good(r, {}) /\ Idlers(r) /\ Stay(M, r, p)
    BY <1>1, <2>2, <2>3, <2>4, MigrateLemma, Zenon
  <2> HIDE DEF r
  <2>6. M' = r /\ r.tsk[p].dl \in Int
    BY <2>1, <2>2, <2>5, CommitLemma, MachineType, Zenon DEF Good
  <2> DEFINE a == k(r.tsk[p].dl)
  <2>7. a \in Context /\ a.pc = "pull" /\ Goto(x, a)
    BY <1>4, <2>1, <2>6, SMT, Zenon, SMTT(40)
  <2> HIDE DEF a, k
  <2>8. /\ Calm(lock, lock', ctx, ctx', x) /\ ctx'[x].pc = "pull"
        /\ Local(r, lock', ctx'[x], x)
    BY <1>5, <2>7, ZenonT(60)
  <2>9. lock[M.tsk[p].cpu] \in {x, Free}
    BY <2>3, ZenonT(60)
  <2>10. State(r, lock', ctx')
    BY <2>3, <2>5, <2>8, <2>9, MoveLemma, ZenonT(60) DEF SmpInv
  <2> QED
    BY <2>6, <2>10, Zenon DEF SmpInv
<1> QED
  BY <1>2, <1>6, <1>7, Zenon

\* pull_dl_task() up to double_lock_balance().
LEMMA PullLemma ==
    ASSUME Counting, SmpInv, NEW x \in Cpu, pull_dl_task(x)
    PROVE  SmpInv'
<1> DEFINE todo == {c \in rd.dlo_mask \ {x} : c > ctx[x].to}
           d == CHOOSE e \in todo : \A f \in todo : e <= f
           k1 == [User EXCEPT !.pc = "pick"]
           k2 == [ctx[x] EXCEPT !.to = d]
           k3 == [ctx[x] EXCEPT !.pc = "pull_wait", !.to = d]
<1>1. /\ M \in Machine /\ M.rd = rd /\ Good(M, {}) /\ Idlers(M) /\ User \in Context
      /\ ctx \in [Cpu -> Context] /\ lock \in [Cpu -> Cpu \cup {Free}]
  BY TypeLemma, ZenonT(60) DEF SmpInv, State
<1>2. ctx[x].pc = "pull" /\ lock[x] = x /\ ctx[x] \in Context
  <2>1. Local(M, lock, ctx[x], x)
    BY DEF SmpInv, State
  <2> QED
    BY <1>1, <2>1 DEF pull_dl_task, At, Local
<1>3. \/ Goto(x, k1) /\ UNCHANGED <<rq, tsk, rd, lock, bug>>
      \/ todo # {} /\ Goto(x, k2) /\ UNCHANGED <<rq, tsk, rd, lock, bug>>
      \/ todo # {} /\ lock[d] = Free /\ Pull(x, d) /\ UNCHANGED lock
      \/ todo # {} /\ Drop({x}) /\ Goto(x, k3) /\ UNCHANGED <<rq, tsk, rd, bug>>
  BY Zenon DEF pull_dl_task, IsFree
<1>4. todo # {} => d \in Cpu /\ d # x
  <2>1. rd.dlo_mask \subseteq Cpu
    BY <1>1 DEF Machine, RootDomain
  <2>2. todo \in SUBSET Nat
    BY <2>1, SmpAssumption, ZenonT(60)
  <2>3. todo # {} => d \in todo
    <3> HIDE DEF todo
    <3> QED
      BY <2>2, Least
  <2> QED
    BY <2>1, <2>3
<1> HIDE DEF todo, d
<1>5. k1 \in Context /\ k1.pc = "pick"
  BY <1>1, Zenon DEF Context, Pc
<1>6. d \in Cpu => /\ k2 \in Context /\ k2.pc = "pull"
                   /\ k3 \in Context /\ k3.pc = "pull_wait" /\ k3.to = d
  <2>1. ASSUME d \in Cpu PROVE d \in Int
    BY <2>1, SmpAssumption
  <2> QED
    BY <1>2, <2>1, Zenon DEF Context, Pc
<1>7. ASSUME NEW k \in Context, Goto(x, k), UNCHANGED <<rq, tsk, rd, bug>>,
             \/ k.pc \in {"pull", "pick"} /\ lock' = lock
             \/ k.pc = "pull_wait" /\ k.to \in Cpu /\ k.to # x /\ Drop({x})
      PROVE  SmpInv'
  <2>1. M' = M /\ Stay(M, M, Idle)
    BY <1>7, Zenon DEF M, Stay, Frame
  <2>2. ctx' \in [Cpu -> Context] /\ ctx'[x] = k /\ \A y \in Cpu \ {x} : ctx'[y] = ctx[y]
    BY <1>1, <1>7, GotoLemma, SMTT(40), SMTT(60)
  <2>3. Calm(lock, lock', ctx, ctx', x)
    BY <1>1, <1>2, <1>7, <2>2, Zenon DEF Calm, Drop
  <2>4. Local(M, lock', ctx'[x], x)
    BY <1>2, <1>7, <2>2, ZenonT(60) DEF Local, Chosen
  <2>5. State(M, lock', ctx')
    BY <1>1, <1>7, <2>1, <2>2, <2>3, <2>4, MoveLemma, SmpAssumption, ZenonT(60) DEF SmpInv
  <2> QED
    BY <2>1, <2>5 DEF SmpInv
<1> HIDE DEF k1, k2, k3
<1>8. CASE todo # {} /\ lock[d] = Free /\ Pull(x, d) /\ UNCHANGED lock
  BY <1>2, <1>4, <1>8, PullStep, ZenonT(60)
<1> QED
  BY <1>3, <1>4, <1>5, <1>6, <1>7, <1>8, ZenonT(60)

\* pull_dl_task() after double_lock_balance() dropped the lock.
LEMMA PullLockedLemma ==
    ASSUME Counting, SmpInv, NEW x \in Cpu, PullLocked(x)
    PROVE  SmpInv'
<1>1. Local(M, lock, ctx[x], x)
  BY DEF SmpInv, State
<1>2. /\ ctx[x].to \in Cpu /\ ctx[x].to # x /\ lock[ctx[x].to] = Free /\ lock[x] = Free
      /\ Pull(x, ctx[x].to) /\ Take(x, {x})
  BY <1>1 DEF PullLocked, At, IsFree, Local
<1> QED
  BY <1>2, PullStep, Zenon

\* The first pushable task of a runqueue satisfies pick_next_pushable_dl_task()'s BUG_ONs.
LEMMA PushableLemma ==
    ASSUME NEW m, Good(m, {}), Idlers(m), NEW c \in Cpu
    PROVE  LET p == Pushable(m, c)
           IN  /\ p \in Task \cup {Idle}
               /\ p # Idle => /\ p \in Task /\ m.tsk[p].cpu = c /\ m.tsk[p].on_rq
                              /\ m.rq[c].curr # p
               /\ pick_next_pushable_dl_task(m, c) = m
<1> DEFINE s == m.rq[c].push
           p == Pushable(m, c)
<1>1. s \in Seq(Task)
  BY MachineType DEF Good
<1>2. p = Idle \/ (p \in Task /\ p \in Elems(s))
  <2> HIDE DEF p
  <2>1. p = IF s = <<>> THEN Idle ELSE s[1]
    BY DEF Pushable, p
  <2> HIDE DEF s
  <2> QED
    BY <1>1, <2>1, SMTT(40), SMTT(60) DEF Elems
<1>3. pick_next_pushable_dl_task(m, c) =
        IF p = Idle THEN m
        ELSE BUG_ON(m, \/ m.tsk[p].cpu # c \/ m.rq[c].curr = p
                       \/ ~Migratory(m, p) \/ ~m.tsk[p].on_rq, "pick_next_pushable")
  BY DEF pick_next_pushable_dl_task
<1> HIDE DEF p
<1>4. ASSUME p # Idle
      PROVE  /\ p \in Task /\ m.tsk[p].cpu = c /\ m.tsk[p].on_rq
             /\ m.rq[c].curr # p /\ Migratory(m, p)
  <2>1. p \in Task /\ p \in Movers(m, c) /\ m.rq[c].curr # p
    BY <1>2, <1>4, Zenon DEF Good, Counted, Idlers
  <2> QED
    BY <2>1 DEF Good, Placed, Movers
<1>5. pick_next_pushable_dl_task(m, c) = m
  BY <1>3, <1>4, Zenon DEF BUG_ON
<1> QED
  BY <1>2, <1>4, <1>5, Zenon DEF p

\* x holds, or may take, the locks it works under in push_dl_task().
Mine(x, c, more) ==
    /\ c \in Cpu /\ lock[c] \in {x, Free}
    /\ \A d \in more : d \in Cpu /\ d # c /\ lock[d] \in {x, Free}

\* push_dl_task() returns.
LEMMA ReturnLemma ==
    ASSUME SmpInv, NEW x \in Cpu, NEW ret, NEW more, Mine(x, ctx[x].rq, more),
           Return(x, ret, more)
    PROVE  /\ Calm(lock, lock', ctx, ctx', x) /\ ctx'[x].pc \in {"user", "push"}
           /\ \A r : Local(r, lock', ctx'[x], x)
<1> DEFINE k == [ctx[x] EXCEPT !.pc = "push", !.task = Idle, !.to = 0, !.tries = 0]
           c == ctx[x].rq
<1>1. /\ User \in Context /\ ctx \in [Cpu -> Context] /\ lock \in [Cpu -> Cpu \cup {Free}]
      /\ ctx[x] \in Context
  BY TypeLemma
<1>2. \/ Goto(x, k) /\ Hold(x, {c}, more)
      \/ Goto(x, User) /\ Drop(more \cup {c})
  BY DEF Return
<1>3. /\ k \in Context /\ k.pc = "push" /\ k.task = Idle /\ k.rq = c
      /\ User.pc = "user"
  <2>1. 0 \in Int
    OBVIOUS
  <2>2. k \in Context /\ k.pc = "push" /\ k.task = Idle /\ k.rq = c
    BY <1>1, <2>1, Zenon DEF Context, Pc
  <2>3. User.pc = "user"
    BY DEF User
  <2> QED
    BY <2>2, <2>3, Zenon
<1> HIDE DEF k
<1>4. c \in Cpu /\ lock[c] \in {x, Free} /\ \A d \in more : d # c /\ lock[d] \in {x, Free}
  BY DEF Mine
<1> HIDE DEF c
<1>5. CASE Goto(x, k) /\ Hold(x, {c}, more)
  <2>1. ctx' \in [Cpu -> Context] /\ ctx'[x] = k /\ \A y \in Cpu \ {x} : ctx'[y] = ctx[y]
    BY <1>1, <1>3, <1>5, GotoLemma, Zenon
  <2>2. /\ lock' \in [Cpu -> Cpu \cup {Free}] /\ lock'[c] = x
        /\ \A d \in Cpu : lock[d] \notin {x, Free} => lock'[d] = lock[d]
    BY <1>1, <1>4, <1>5, Zenon DEF Hold
  <2> QED
    BY <1>3, <1>4, <2>1, <2>2, UserLemma, ZenonT(60) DEF Calm
<1>6. CASE Goto(x, User) /\ Drop(more \cup {c})
  <2>1. ctx' \in [Cpu -> Context] /\ ctx'[x] = User /\ \A y \in Cpu \ {x} : ctx'[y] = ctx[y]
    BY <1>1, <1>6, GotoLemma, Zenon
  <2>2. /\ lock' \in [Cpu -> Cpu \cup {Free}]
        /\ \A d \in Cpu : lock[d] \notin {x, Free} => lock'[d] = lock[d]
    BY <1>1, <1>4, <1>6, Zenon DEF Drop
  <2> QED
    BY <1>3, <2>1, <2>2, UserLemma, Zenon DEF Calm
<1> QED
  BY <1>2, <1>5, <1>6, ZenonT(60)

\* The task that x pushes, with the lock of its runqueue.
Candidate(p, c) ==
    /\ p \in Task /\ M.tsk[p].cpu = c /\ M.tsk[p].on_rq /\ M.rq[c].curr # p

\* A step of push_dl_task() that leaves the queues alone and goes on with task p.
LEMMA GoOn ==
    ASSUME SmpInv, NEW x \in Cpu, NEW k \in Context, Goto(x, k), M' = M,
           lock' \in [Cpu -> Cpu \cup {Free}],
           \A c \in Cpu : lock[c] \notin {x, Free} => lock'[c] = lock[c],
           k.pc \in {"push", "root", "find", "lock"}, k.rq \in Cpu, lock'[k.rq] = x,
           Candidate(k.task, k.rq),
           k.pc = "lock" => k.to \in Cpu /\ k.to # k.rq
    PROVE  SmpInv'
<1>1. ctx' \in [Cpu -> Context] /\ ctx'[x] = k /\ \A y \in Cpu \ {x} : ctx'[y] = ctx[y]
  BY TypeLemma, GotoLemma, ZenonT(60)
<1>2. Calm(lock, lock', ctx, ctx', x)
  BY <1>1 DEF Calm
<1>3. Local(M, lock', ctx'[x], x)
  BY <1>1, ZenonT(60) DEF Local, Chosen, Candidate
<1>4. Stay(M, M, Idle) /\ Good(M, {}) /\ Idlers(M)
  BY ZenonT(60) DEF Stay, Frame, SmpInv, State
<1>5. State(M, lock', ctx')
  BY <1>1, <1>2, <1>3, <1>4, MoveLemma, SmpAssumption, ZenonT(60) DEF SmpInv
<1> QED
  BY <1>5, Zenon DEF SmpInv

\* push_dl_task() when no runqueue was found.
LEMMA NotFoundLemma ==
    ASSUME SmpInv, NEW x \in Cpu, NEW next, NEW more, Mine(x, ctx[x].rq, more),
           NotFound(x, M, next, more)
    PROVE  SmpInv'
<1> DEFINE c == ctx[x].rq
           p == Pushable(M, c)
           k == [ctx[x] EXCEPT !.pc = "push", !.task = p, !.to = 0, !.tries = 0]
           r == dequeue_pushable_dl_task(M, c, next)
<1>1. /\ M \in Machine /\ Good(M, {}) /\ Idlers(M) /\ lock \in [Cpu -> Cpu \cup {Free}]
      /\ ctx[x] \in Context
  BY TypeLemma, ZenonT(60) DEF SmpInv, State
<1>2. c \in Cpu /\ lock[c] \in {x, Free} /\ \A d \in more : d # c /\ lock[d] \in {x, Free}
  BY ZenonT(60) DEF Mine
<1>3. /\ pick_next_pushable_dl_task(M, c) = M /\ p \in Task \cup {Idle}
      /\ p # Idle => Candidate(p, c)
  BY <1>1, <1>2, PushableLemma, ZenonT(60) DEF Candidate
<1>4. \/ Commit(r) /\ Return(x, 1, more)
      \/ Commit(M) /\ Return(x, 1, more)
      \/ Commit(M) /\ p # Idle /\ Goto(x, k) /\ Hold(x, {c}, more)
  BY <1>3, Zenon DEF NotFound
<1>5. ASSUME NEW m, Good(m, {}), Idlers(m), Stay(M, m, Idle), Commit(m), Return(x, 1, more)
      PROVE  SmpInv'
  <2>1. M' = m
    BY <1>5, CommitLemma DEF Good
  <2>2. /\ Calm(lock, lock', ctx, ctx', x) /\ ctx'[x].pc \in {"user", "push"}
        /\ Local(m, lock', ctx'[x], x)
    BY <1>5, ReturnLemma, ZenonT(60)
  <2>3. State(m, lock', ctx')
    BY <1>5, <2>2, MoveLemma, SmpAssumption, ZenonT(60) DEF SmpInv
  <2> QED
    BY <2>1, <2>3, SMT, Zenon, SMTT(40) DEF SmpInv
<1>6. Good(r, {}) /\ Idlers(r) /\ Stay(M, r, Idle)
  <2>1. Unpushable(M, r, c, next, {})
    BY <1>1, <1>2, DequeuePushable, ZenonT(60)
  <2> HIDE DEF r
  <2> QED
    BY <1>1, <2>1, ZenonT(60) DEF Unpushable, Idlers, Stay, Frame
<1>7. Stay(M, M, Idle)
  BY DEF Stay, Frame
<1> HIDE DEF r
<1>8. CASE Commit(M) /\ p # Idle /\ Goto(x, k) /\ Hold(x, {c}, more)
  <2>1. k \in Context /\ k.pc = "push" /\ k.task = p /\ k.rq = c
    <3>1. 0 \in Int
      OBVIOUS
    <3> HIDE DEF p
    <3> QED
      BY <1>1, <1>3, <3>1, Zenon DEF Context, Pc
  <2> HIDE DEF k, p, c
  <2>2. /\ lock' \in [Cpu -> Cpu \cup {Free}] /\ lock'[c] = x
        /\ \A d \in Cpu : lock[d] \notin {x, Free} => lock'[d] = lock[d]
    BY <1>1, <1>2, <1>8, Zenon DEF Hold
  <2>3. M' = M
    BY <1>1, <1>8, CommitLemma, Zenon
  <2> QED
    BY <1>2, <1>3, <1>8, <2>1, <2>2, <2>3, GoOn, ZenonT(60)
<1> QED
  BY <1>1, <1>4, <1>5, <1>6, <1>7, <1>8, ZenonT(60)

\* find_later_rq() returned a CPU.
LEMMA FoundLemma ==
    ASSUME SmpInv, NEW x \in Cpu, NEW p, Candidate(p, ctx[x].rq), ctx[x].rq \in Cpu,
           lock[ctx[x].rq] = x, NEW d \in Cpu, Found(x, M, p, d)
    PROVE  SmpInv'
<1> DEFINE k == [ctx[x] EXCEPT !.pc = "lock", !.task = p, !.to = d]
<1>1. CASE d = ctx[x].rq
  <2>1. NotFound(x, M, p, {}) /\ Mine(x, ctx[x].rq, {})
    BY <1>1, Zenon DEF Found, Mine
  <2> QED
    BY <2>1, NotFoundLemma, Zenon
<1>2. CASE d # ctx[x].rq
  <2>1. Commit(M) /\ lock' = lock /\ Goto(x, k)
    BY <1>2 DEF Found
  <2>2. M' = M /\ lock \in [Cpu -> Cpu \cup {Free}] /\ ctx[x] \in Context
    BY <2>1, TypeLemma, CommitLemma, Zenon
  <2>3. k \in Context /\ k.pc = "lock" /\ k.task = p /\ k.to = d /\ k.rq = ctx[x].rq
    <3>1. d \in Int /\ p \in Task \cup {Idle}
      BY SmpAssumption DEF Candidate
    <3> QED
      BY <2>2, <3>1, Zenon DEF Context, Pc
  <2> HIDE DEF k
  <2> QED
    BY <1>2, <2>1, <2>2, <2>3, GoOn, ZenonT(60)
<1> QED
  BY <1>1, <1>2, ZenonT(60)

\* find_later_rq().
LEMMA FindLemma ==
    ASSUME SmpInv, NEW x \in Cpu, NEW p, Candidate(p, ctx[x].rq), ctx[x].rq \in Cpu,
           lock[ctx[x].rq] = x, Find(x, M, p)
    PROVE  SmpInv'
<1> DEFINE k == [ctx[x] EXCEPT !.pc = "root", !.task = p]
<1>1. M \in Machine /\ p \in Task /\ lock \in [Cpu -> Cpu \cup {Free}] /\ ctx[x] \in Context
  BY TypeLemma DEF Candidate
<1>2. \/ NotFound(x, M, p, {})
      \/ \E d \in Choice(M, x, p, Unclaimed(M, p)) : Found(x, M, p, d)
      \/ Commit(M) /\ UNCHANGED lock /\ Goto(x, k)
  BY DEF Find
<1>3. CASE NotFound(x, M, p, {})
  <2>1. Mine(x, ctx[x].rq, {})
    BY ZenonT(60) DEF Mine
  <2> QED
    BY <1>3, <2>1, NotFoundLemma, ZenonT(60)
<1>4. ASSUME NEW d \in Choice(M, x, p, Unclaimed(M, p)), Found(x, M, p, d) PROVE SmpInv'
  <2>1. M.tsk[p] \in Entity
    BY <1>1, MachineType, ZenonT(60)
  <2>2. M.tsk[p].allowed \subseteq Cpu /\ M.tsk[p].cpu \in Cpu
    BY <2>1, Zenon DEF Entity
  <2>3. d \in Cpu
    BY <2>2 DEF Choice, Unclaimed
  <2> QED
    BY <1>4, <2>3, FoundLemma, Zenon
<1>5. CASE Commit(M) /\ UNCHANGED lock /\ Goto(x, k)
  <2>1. M' = M
    BY <1>1, <1>5, CommitLemma, Zenon
  <2>2. k \in Context /\ k.pc = "root" /\ k.task = p /\ k.rq = ctx[x].rq
    BY <1>1, Zenon DEF Context, Pc
  <2> HIDE DEF k
  <2> QED
    BY <1>1, <1>5, <2>1, <2>2, GoOn, ZenonT(60)
<1> QED
  BY <1>2, <1>3, <1>4, <1>5, ZenonT(60)

\* The task of a CPU that has chosen one.
LEMMA ChosenLemma ==
    ASSUME SmpInv, NEW x \in Cpu, Chosen(ctx[x])
    PROVE  /\ Candidate(ctx[x].task, ctx[x].rq) /\ ctx[x].rq \in Cpu /\ lock[ctx[x].rq] = x
           /\ ctx[x].pc = "lock" => ctx[x].to \in Cpu /\ ctx[x].to # ctx[x].rq
<1>1. Local(M, lock, ctx[x], x)
  BY DEF SmpInv, State
<1> QED
  BY <1>1, Zenon DEF Local, Chosen, Candidate

\* The second half of cpudl_find(), for a push.
LEMMA FindRootLemma ==
    ASSUME SmpInv, NEW x \in Cpu, FindRoot(x) \/ FindAgain(x)
    PROVE  SmpInv'
<1> DEFINE p == ctx[x].task
<1>1. Chosen(ctx[x])
  BY DEF FindRoot, FindAgain, At, Chosen
<1>2. Candidate(p, ctx[x].rq) /\ ctx[x].rq \in Cpu /\ lock[ctx[x].rq] = x
  BY <1>1, ChosenLemma, Zenon
<1>3. (\E d \in Cpu : Found(x, M, p, d)) \/ Find(x, M, p)
  BY DEF FindRoot, FindAgain, Roots
<1> HIDE DEF p
<1> QED
  BY <1>2, <1>3, FoundLemma, FindLemma, ZenonT(60)

\* push_dl_task() up to find_lock_later_rq().
LEMMA PushTask ==
    ASSUME SmpInv, NEW x \in Cpu, push_dl_task(x)
    PROVE  SmpInv'
<1> DEFINE c     == ctx[x].rq
           retry == ctx[x].task # Idle
           curr  == rq[c].curr
           m     == IF retry \/ ~rq[c].overloaded THEN M ELSE pick_next_pushable_dl_task(M, c)
           next  == IF retry THEN ctx[x].task
                    ELSE IF rq[c].overloaded THEN Pushable(M, c) ELSE Idle
<1>1. /\ M \in Machine /\ Good(M, {}) /\ Idlers(M) /\ M.rq = rq
      /\ Local(M, lock, ctx[x], x)
  BY TypeLemma, ZenonT(60) DEF SmpInv, State
<1>2. ctx[x].pc = "push" /\ c \in Cpu /\ lock[c] = x
  BY <1>1, ZenonT(60) DEF push_dl_task, At, Local
<1>3. m = M
  BY <1>1, <1>2, PushableLemma, Zenon
<1>4. \/ next = Idle /\ Commit(m) /\ Return(x, 0, {})
      \/ Commit(m) /\ Return(x, 0, {})
      \/ Commit(resched_task(m, c)) /\ Return(x, 0, {})
      \/ next # Idle /\ Find(x, m, next)
  BY Zenon DEF push_dl_task
<1>5. next # Idle => Candidate(next, c)
  <2>1. CASE retry
    BY <1>2, <2>1, ChosenLemma, Zenon DEF Chosen
  <2>2. CASE ~retry
    BY <1>1, <1>2, <2>2, PushableLemma, ZenonT(60) DEF Candidate
  <2> QED
    BY <2>1, <2>2, Zenon
<1> HIDE DEF m, next, retry, curr
<1>6. ASSUME NEW r, Alike(M, r), Commit(r), Return(x, 0, {}) PROVE SmpInv'
  <2>1. M' = r /\ Good(r, {}) /\ Idlers(r) /\ Stay(M, r, Idle)
    BY <1>1, <1>6, CommitLemma, AlikeLemma, AlikeStays, ZenonT(60) DEF Alike
  <2>2. Mine(x, ctx[x].rq, {})
    BY <1>2, Zenon DEF Mine
  <2>3. /\ Calm(lock, lock', ctx, ctx', x) /\ ctx'[x].pc \in {"user", "push"}
        /\ Local(r, lock', ctx'[x], x)
    BY <1>6, <2>2, ReturnLemma, Zenon
  <2>4. State(r, lock', ctx')
    BY <2>1, <2>3, MoveLemma, SmpAssumption, ZenonT(60) DEF SmpInv
  <2> QED
    BY <2>1, <2>4, Zenon DEF SmpInv
<1>7. Alike(M, M) /\ Alike(M, resched_task(M, c))
  BY <1>1, <1>2, ReschedLemma, ZenonT(60)
<1> QED
  BY <1>2, <1>3, <1>4, <1>5, <1>6, <1>7, FindLemma, ZenonT(60)

\* Both runqueues are locked.
LEMMA PushStep ==
    ASSUME Counting, SmpInv, NEW x \in Cpu, Push(x), Candidate(ctx[x].task, ctx[x].rq),
           Mine(x, ctx[x].rq, {ctx[x].to})
    PROVE  SmpInv'
<1> DEFINE c == ctx[x].rq
           d == ctx[x].to
           p == ctx[x].task
           k == [ctx[x] EXCEPT !.pc = "find", !.tries = @ + 1]
<1>1. /\ M \in Machine /\ Good(M, {}) /\ Idlers(M) /\ lock \in [Cpu -> Cpu \cup {Free}]
      /\ ctx[x] \in Context
  BY TypeLemma, ZenonT(60) DEF SmpInv, State
<1>2. /\ c \in Cpu /\ d \in Cpu /\ c # d /\ lock[c] \in {x, Free} /\ lock[d] \in {x, Free}
      /\ p \in Task /\ M.tsk[p].cpu = c /\ M.tsk[p].on_rq /\ M.rq[c].curr # p
  BY DEF Mine, Candidate
<1>3. \/ /\ \E b \in Budget(M, c), dl \in Updated(M, p) :
              Commit(resched_task(Migrate(M, c, d, p, b, dl), d))
         /\ Return(x, 1, {d})
      \/ Goto(x, k) /\ Hold(x, {c}, {d}) /\ UNCHANGED <<rq, tsk, rd, bug>>
      \/ NotFound(x, M, p, {d})
  BY Zenon DEF Push
<1>4. CASE NotFound(x, M, p, {d})
  BY <1>4, NotFoundLemma
<1>5. CASE Goto(x, k) /\ Hold(x, {c}, {d}) /\ UNCHANGED <<rq, tsk, rd, bug>>
  <2>1. M' = M
    BY <1>5 DEF M
  <2>2. k \in Context /\ k.pc = "find" /\ k.task = p /\ k.rq = c
    <3>1. ctx[x].tries + 1 \in Int
      BY <1>1, SMTT(60), SMTT(80) DEF Context
    <3> QED
      BY <1>1, <3>1, Zenon DEF Context, Pc
  <2> HIDE DEF k
  <2>3. /\ lock' \in [Cpu -> Cpu \cup {Free}] /\ lock'[c] = x
        /\ \A a \in Cpu : lock[a] \notin {x, Free} => lock'[a] = lock[a]
    <3> HIDE DEF c, d
    <3> QED
      BY <1>1, <1>2, <1>5, Zenon DEF Hold
  <2> QED
    BY <1>2, <1>5, <2>1, <2>2, <2>3, GoOn, ZenonT(60)
<1>6. ASSUME NEW b \in Budget(M, c), NEW dl \in Updated(M, p), Return(x, 1, {d}),
             Commit(resched_task(Migrate(M, c, d, p, b, dl), d))
      PROVE  SmpInv'
  <2>1. b \in Int /\ dl \in Int
    BY <1>2, TypeLemma, ZenonT(60)
  <2>2. /\ Calm(lock, lock', ctx, ctx', x) /\ ctx'[x].pc \in {"user", "push"}
        /\ \A a : Local(a, lock', ctx'[x], x)
    BY <1>6, ReturnLemma, ZenonT(60)
  <2> HIDE DEF c, d, p
  <2> DEFINE q == Migrate(M, c, d, p, b, dl)
             r == resched_task(q, d)
  <2>3. Good(q, {}) /\ Idlers(q) /\ Stay(M, q, p)
    BY <1>1, <1>2, <2>1, MigrateLemma, ZenonT(60)
  <2>4. Commit(r)
    BY <1>6
  <2> HIDE DEF q
  <2>5. Alike(q, r)
    BY <1>2, <2>3, ReschedLemma, ZenonT(60) DEF Good
  <2> HIDE DEF r
  <2>6. Good(r, {}) /\ Idlers(r) /\ Stay(M, r, p)
    BY <2>3, <2>5, AlikeLemma, AlikeStays, StayLemma, ZenonT(60)
  <2>7. M' = r
    BY <2>4, <2>6, CommitLemma, ZenonT(60) DEF Good
  <2>8. State(r, lock', ctx')
    BY <1>2, <2>2, <2>6, MoveLemma, ZenonT(60) DEF SmpInv
  <2> QED
    BY <2>7, <2>8, Zenon DEF SmpInv
<1> QED
  BY <1>3, <1>4, <1>5, <1>6, ZenonT(60)

\* double_lock_balance() of push_dl_task().
LEMMA PushLockLemma ==
    ASSUME Counting, SmpInv, NEW x \in Cpu, PushLock(x)
    PROVE  SmpInv'
<1> DEFINE k == [ctx[x] EXCEPT !.pc = "push_wait"]
<1>1. ctx[x].pc = "lock" /\ Chosen(ctx[x])
  BY DEF PushLock, At, Chosen
<1>2. /\ Candidate(ctx[x].task, ctx[x].rq) /\ ctx[x].rq \in Cpu /\ lock[ctx[x].rq] = x
      /\ ctx[x].to \in Cpu /\ ctx[x].to # ctx[x].rq
  BY <1>1, ChosenLemma, Zenon
<1>3. \/ lock[ctx[x].to] = Free /\ Push(x)
      \/ Drop({ctx[x].rq}) /\ Goto(x, k) /\ UNCHANGED <<rq, tsk, rd, bug>>
  BY DEF PushLock, IsFree
<1>4. CASE lock[ctx[x].to] = Free /\ Push(x)
  <2>1. Mine(x, ctx[x].rq, {ctx[x].to})
    BY <1>2, <1>4, Zenon DEF Mine
  <2> QED
    BY <1>2, <1>4, <2>1, PushStep, ZenonT(60)
<1>5. CASE Drop({ctx[x].rq}) /\ Goto(x, k) /\ UNCHANGED <<rq, tsk, rd, bug>>
  <2>1. /\ ctx \in [Cpu -> Context] /\ lock \in [Cpu -> Cpu \cup {Free}] /\ ctx[x] \in Context
        /\ Good(M, {}) /\ Idlers(M)
    BY TypeLemma, Zenon DEF SmpInv, State
  <2>2. /\ k \in Context /\ k.pc = "push_wait" /\ k.task = ctx[x].task
        /\ k.rq = ctx[x].rq /\ k.to = ctx[x].to
    BY <2>1, Zenon DEF Context, Pc
  <2> HIDE DEF k
  <2>3. ctx' \in [Cpu -> Context] /\ ctx'[x] = k /\ \A y \in Cpu \ {x} : ctx'[y] = ctx[y]
    BY <1>5, <2>1, <2>2, GotoLemma, ZenonT(60)
  <2>4. Calm(lock, lock', ctx, ctx', x)
    BY <1>2, <1>5, <2>1, <2>3, ZenonT(60) DEF Calm, Drop
  <2>5. Local(M, lock', ctx'[x], x)
    BY <1>2, <2>2, <2>3, ZenonT(60) DEF Local, Chosen, Candidate
  <2>6. M' = M /\ Stay(M, M, Idle)
    BY <1>5 DEF M, Stay, Frame
  <2>7. State(M, lock', ctx')
    BY <2>1, <2>2, <2>3, <2>4, <2>5, <2>6, MoveLemma, SmpAssumption, ZenonT(60) DEF SmpInv
  <2> QED
    BY <2>6, <2>7, SMTT(40), SMTT(60) DEF SmpInv
<1> QED
  BY <1>3, <1>4, <1>5, Zenon

\* push_dl_task() after double_lock_balance() dropped the lock: whatever happened meanwhile, the
\* task is pushed only if it is still one to push.
LEMMA PushLockedLemma ==
    ASSUME Counting, SmpInv, NEW x \in Cpu, PushLocked(x)
    PROVE  SmpInv'
<1>1. Local(M, lock, ctx[x], x) /\ M.tsk = tsk /\ M.rq = rq
  BY TypeLemma, ZenonT(60) DEF SmpInv, State
<1>2. /\ ctx[x].pc = "push_wait" /\ lock[ctx[x].rq] = Free /\ lock[ctx[x].to] = Free
      /\ IF Unchanged(x) THEN Push(x) ELSE NotFound(x, M, ctx[x].task, {ctx[x].to})
  BY ZenonT(60) DEF PushLocked, At, IsFree
<1>3. Mine(x, ctx[x].rq, {ctx[x].to}) /\ ctx[x].task \in Task
  BY <1>1, <1>2, ZenonT(60) DEF Local, Mine
<1>4. CASE Unchanged(x)
  <2>1. Candidate(ctx[x].task, ctx[x].rq)
    BY <1>1, <1>3, <1>4, Zenon DEF Unchanged, Candidate
  <2> QED
    BY <1>2, <1>3, <1>4, <2>1, PushStep, ZenonT(60)
<1>5. CASE ~Unchanged(x)
  BY <1>2, <1>3, <1>5, NotFoundLemma, ZenonT(60)
<1> QED
  BY <1>4, <1>5, SMT, Zenon, SMTT(40)

\* What set_cpus_allowed_dl() does to a queued task that can go, or cannot any more.
LEMMA AffinityLemma ==
    ASSUME Counting, NEW m, Good(m, {}), Idlers(m), NEW c \in Cpu, NEW p \in Task,
           p \in Elems(m.rq[c].tree), NEW g \in BOOLEAN, Migratory(m, p) <=> ~g, NEW e \in Entity,
           e.cpu = c, ~e.throttled, e.on_rq, Cardinality(e.allowed) > 1 <=> g,
           NEW q \in Machine, q.tsk = m.tsk, Shown(q, {}),
           \A d \in Cpu : /\ q.rq[d].curr = m.rq[d].curr /\ q.rq[d].tree = m.rq[d].tree
                          /\ d # c => /\ q.rq[d].push = m.rq[d].push
                                      /\ q.rq[d].nr_migratory = m.rq[d].nr_migratory,
           q.rq[c].nr_migratory = m.rq[c].nr_migratory + IF g THEN 1 ELSE -1,
           Simple(q.rq[c].push), m.rq[c].curr \notin Elems(q.rq[c].push),
           \A a \in Elems(q.rq[c].push) : IF a = p THEN g ELSE a \in Elems(m.rq[c].push)
    PROVE  Good(SetTask(q, p, e), {}) /\ Idlers(SetTask(q, p, e))
<1> DEFINE r == SetTask(q, p, e)
<1>1. /\ r \in Machine /\ r.rq = q.rq /\ r.rd = q.rd /\ r.bug = q.bug
      /\ r.tsk[p] = e /\ \A a \in Task : a # p => r.tsk[a] = q.tsk[a]
  BY SetTaskLemma, SMTT(60), SMTT(80)
<1> HIDE DEF r
<1>2. m \in Machine /\ Placed(m, {}) /\ Counted(m) /\ m.tsk[p].cpu = c
  BY ZenonT(60) DEF Good, Placed
<1>3. \A d \in Cpu : /\ Elems(m.rq[d].tree) \subseteq Task
                     /\ d # c => p \notin Elems(m.rq[d].tree)
                     /\ m.rq[d].curr \in Task \cup {Idle}
  BY <1>2, MachineType, SMTT(60), SMTT(80) DEF Placed
<1>4. Placed(r, {})
  BY <1>1, <1>2, <1>3, SMTT(60), SMTT(80) DEF Placed
<1>5. \A a \in Task : Migratory(r, a) <=> IF a = p THEN g ELSE Migratory(m, a)
  BY <1>1, SMTT(60), SMTT(80) DEF Migratory
<1>6. /\ \A d \in Cpu : d # c => Movers(r, d) = Movers(m, d)
      /\ Movers(r, c) = IF g THEN Movers(m, c) \cup {p} ELSE Movers(m, c) \ {p}
  BY <1>1, <1>3, <1>5, SMTT(60), SMTT(80) DEF Movers
<1>7. Cardinality(Movers(r, c)) = Cardinality(Movers(m, c)) + IF g THEN 1 ELSE -1
  <2>1. p \in Movers(m, c) <=> ~g
    BY Zenon DEF Movers
  <2> QED
    BY <1>2, <1>6, <2>1, MoversLemma, SMTT(60), SMTT(80)
<1>8. Elems(r.rq[c].push) \subseteq Movers(r, c)
  <2>1. Elems(m.rq[c].push) \subseteq Movers(m, c)
    BY <1>2, ZenonT(60) DEF Counted
  <2> QED
    BY <1>1, <1>6, <2>1, ZenonT(60)
<1>9. Counted(r)
  <2>1. ASSUME NEW d \in Cpu, d # c
        PROVE  /\ Simple(r.rq[d].push) /\ Elems(r.rq[d].push) \subseteq Movers(r, d)
               /\ r.rq[d].nr_migratory = Cardinality(Movers(r, d))
    BY <1>1, <1>2, <1>6, <2>1, SMTT(60), SMTT(80) DEF Counted
  <2>2. /\ Simple(r.rq[c].push) /\ Elems(r.rq[c].push) \subseteq Movers(r, c)
        /\ r.rq[c].nr_migratory = Cardinality(Movers(r, c))
    BY <1>1, <1>2, <1>7, <1>8, SMTT(60), SMTT(80) DEF Counted
  <2> QED
    BY <2>1, <2>2, ZenonT(60) DEF Counted
<1>10. Shown(r, {})
  BY <1>1, ShownLemma, ZenonT(60)
<1>11. Idlers(r)
  BY <1>1 DEF Idlers
<1> QED
  BY <1>1, <1>4, <1>9, <1>10, <1>11, ZenonT(60) DEF Good, r

\* set_cpus_allowed_dl().
LEMMA SetAllowed ==
    ASSUME Counting, SmpInv, NEW x \in Cpu, NEW p \in Task, NEW mask \in Masks,
           set_cpus_allowed_dl(x, p, mask)
    PROVE  SmpInv'
<1> DEFINE c == tsk[p].cpu
           n == Cardinality(mask)
           g == n > 1
           shown == on_dl_rq(M, p) /\ Migratory(M, p) # (n > 1)
           m1 == IF rq[c].curr = p THEN M
                 ELSE IF n > 1 THEN enqueue_pushable_dl_task(M, c, p)
                 ELSE dequeue_pushable_dl_task(M, c, p)
           m2 == BUG_ON(m1, n <= 1 /\ rq[c].nr_migratory = 0, "nr_migratory")
           m3 == [m2 EXCEPT !.rq[c].nr_migratory = IF n > 1 THEN @ + 1 ELSE @ - 1]
           m4 == update_dl_migration(m3, c)
           m  == IF shown THEN m4 ELSE M
           e  == [tsk[p] EXCEPT !.allowed = mask]
           r  == SetTask(m, p, e)
<1>1. /\ M \in Machine /\ M.tsk = tsk /\ M.rq = rq /\ M.bug = bug /\ Good(M, {}) /\ Idlers(M)
      /\ ctx \in [Cpu -> Context] /\ lock \in [Cpu -> Cpu \cup {Free}]
  BY TypeLemma, ZenonT(60) DEF SmpInv, State
<1>2. ctx[x].pc = "user" /\ ctx' = ctx /\ lock' = lock
  BY Zenon DEF set_cpus_allowed_dl, At
<1>3. Commit([m EXCEPT !.tsk[p].allowed = mask])
  BY Zenon DEF set_cpus_allowed_dl
<1>4. tsk[p] \in Entity /\ c \in Cpu /\ mask \in SUBSET Cpu /\ n \in Nat
  <2>1. tsk[p] \in Entity /\ c \in Cpu
    BY <1>1, MachineType, SMT, Zenon, SMTT(40)
  <2>2. mask \in SUBSET Cpu /\ IsFiniteSet(Cpu)
    BY SmpAssumption
  <2>3. IsFiniteSet(mask)
    BY <2>2 DEF Counting, CardSubset
  <2> QED
    BY <2>1, <2>2, <2>3, ZenonT(60) DEF Counting, CardType
<1>5. /\ e \in Entity /\ e.cpu = c /\ e.on_rq = tsk[p].on_rq /\ e.allowed = mask
      /\ e.throttled = tsk[p].throttled /\ e.armed = tsk[p].armed
  BY <1>4 DEF Entity
<1>6. Calm(lock, lock', ctx, ctx', x)
  BY <1>1, <1>2, SMT, Zenon, SMTT(40) DEF Calm
<1>7. ASSUME m.tsk = tsk, m \in Machine, m.bug = bug,
             \A d \in Cpu : m.rq[d].curr = M.rq[d].curr,
             Good(r, {}), Idlers(r)
      PROVE  SmpInv'
  <2>1. [m EXCEPT !.tsk[p].allowed = mask] = r
    <3> HIDE DEF m
    <3> QED
      BY <1>4, <1>7, SMT, Zenon, SMTT(40) DEF SetTask, Machine, Entity
  <2>2. Commit(r)
    BY <1>3, <2>1, ZenonT(60)
  <2> HIDE DEF m, e
  <2>3. /\ r.rq = m.rq /\ r.bug = m.bug /\ r.tsk[p] = e
        /\ \A a \in Task : a # p => r.tsk[a] = m.tsk[a]
    BY <1>5, <1>7, SetTaskLemma, ZenonT(60)
  <2> HIDE DEF r
  <2>4. Stay(M, r, Idle)
    <3>1. \A a \in Task : /\ r.tsk[a].cpu = M.tsk[a].cpu /\ r.tsk[a].on_rq = M.tsk[a].on_rq
                          /\ r.tsk[a].throttled = M.tsk[a].throttled
                          /\ r.tsk[a].armed = M.tsk[a].armed
      BY <1>1, <1>5, <1>7, <2>3, ZenonT(60)
    <3> QED
      BY <1>1, <1>7, <2>3, <3>1, ZenonT(60) DEF Stay, Frame
  <2>5. M' = r
    BY <1>7, <2>2, CommitLemma, ZenonT(60) DEF Good
  <2>6. Local(r, lock', ctx'[x], x)
    BY <1>2, UserLemma, ZenonT(60)
  <2>7. State(r, lock', ctx')
    BY <1>2, <1>6, <1>7, <2>4, <2>6, MoveLemma, SmpAssumption, ZenonT(60) DEF SmpInv
  <2> QED
    BY <2>5, <2>7, SMT, Zenon, SMTT(40) DEF SmpInv
<1>8. CASE ~shown
  <2>1. m = M
    BY <1>8, Zenon
  <2>2. \/ \A d \in Cpu : p \notin Elems(M.rq[d].tree)
        \/ (Cardinality(e.allowed) > 1 <=> Migratory(M, p))
    BY <1>5, <1>8, SMT, Zenon, SMTT(40) DEF on_dl_rq, Migratory
  <2>3. Good(SetTask(M, p, e), {})
    <3> HIDE DEF e
    <3> QED
      BY <1>1, <1>5, <2>2, TaskLemma, ZenonT(60)
  <2>4. Idlers(SetTask(M, p, e))
    <3> HIDE DEF e
    <3> QED
      BY <1>1, <1>5, SetTaskLemma DEF Idlers
  <2> QED
    BY <1>1, <1>7, <2>1, <2>3, <2>4, ZenonT(60)
<1>9. CASE shown
  <2>1. p \in Elems(M.rq[c].tree) /\ (Migratory(M, p) <=> ~g)
    <3>1. p \in Elems(M.rq[c].tree)
      BY <1>1, <1>4, <1>9, OnceLemma, ZenonT(60)
    <3>2. Migratory(M, p) <=> ~g
      BY <1>9 DEF Migratory
    <3> QED
      BY <3>1, <3>2, ZenonT(60)
  <2>2. ~tsk[p].throttled /\ tsk[p].on_rq
    BY <1>1, <1>4, <2>1, ZenonT(60) DEF Good, Placed
  <2> DEFINE s == IF rq[c].curr = p THEN M.rq[c].push
                  ELSE IF g THEN Insert(M, M.rq[c].push, p) ELSE Without(M.rq[c].push, p)
             k == IF n > 1 THEN m2.rq[c].nr_migratory + 1 ELSE m2.rq[c].nr_migratory - 1
  <2>3. /\ s \in Seq(Task) /\ Simple(s) /\ M.rq[c].curr \notin Elems(s)
        /\ \A a \in Elems(s) : IF a = p THEN g ELSE a \in Elems(M.rq[c].push)
    <3>1. /\ M.rq[c].push \in Seq(Task) /\ Simple(M.rq[c].push)
          /\ M.rq[c].curr \notin Elems(M.rq[c].push)
      BY <1>1, <1>4, MachineType, ZenonT(60) DEF Good, Counted, Idlers
    <3>2. g => p \notin Elems(M.rq[c].push)
      BY <1>1, <1>4, <2>1, OnceLemma, ZenonT(60)
    <3> HIDE DEF c, g
    <3> QED
      BY <1>1, <3>1, <3>2, InsertLemma, WithoutLemma, SMTT(40), SMTT(60)
  <2>4. /\ m1 \in Machine /\ m1.tsk = tsk /\ m1.rd = M.rd /\ m1.bug = bug
        /\ m1.rq[c].push = s
        /\ \A d \in Cpu :
              /\ d # c => m1.rq[d] = M.rq[d]
              /\ m1.rq[d].curr = M.rq[d].curr /\ m1.rq[d].tree = M.rq[d].tree
              /\ m1.rq[d].first = M.rq[d].first
              /\ m1.rq[d].nr_migratory = M.rq[d].nr_migratory
              /\ m1.rq[d].overloaded = M.rq[d].overloaded
    <3>1. CASE rq[c].curr = p
      BY <1>1, <3>1, ZenonT(60)
    <3>2. CASE rq[c].curr # p
      <4>1. g => ~\E d \in Cpu : p \in Elems(M.rq[d].push)
        BY <1>1, <1>4, <2>1, OnceLemma, ZenonT(60)
      <4>2. m1 = SetPush(M, c, s)
        BY <3>2, <4>1, ZenonT(60) DEF enqueue_pushable_dl_task, dequeue_pushable_dl_task, BUG_ON, SetPush
      <4> HIDE DEF m1, s, c
      <4> QED
        BY <1>1, <1>4, <2>3, <4>2, PushLemma, SMTT(60), SMTT(80)
    <3> QED
      BY <3>1, <3>2, ZenonT(60)
  <2>5. m2 = m1
    <3>1. ~g => rq[c].nr_migratory # 0
      <4>1. ~g => p \in Movers(M, c)
        BY <2>1 DEF Movers
      <4>2. rq[c].nr_migratory = Cardinality(Movers(M, c))
        BY <1>1, <1>4, ZenonT(60) DEF Good, Counted
      <4> HIDE DEF g, c
      <4>3. ~g => Cardinality(Movers(M, c)) > 0
        BY <1>1, <1>4, <4>1, MoversLemma, ZenonT(60)
      <4> QED
        BY <4>2, <4>3, SMTT(60), SMTT(80)
    <3>2. n <= 1 <=> ~g
      BY <1>4
    <3> HIDE DEF m1, g
    <3> QED
      BY <3>1, <3>2, ZenonT(60) DEF BUG_ON
  <2>6. m3 = SetCount(m1, c, k)
    <3> HIDE DEF m1, m2, n
    <3> QED
      BY <2>5, ZenonT(60) DEF SetCount
  <2>7. k = M.rq[c].nr_migratory + (IF g THEN 1 ELSE -1) /\ k \in Int
    <3>1. m2.rq[c].nr_migratory = M.rq[c].nr_migratory /\ M.rq[c].nr_migratory \in Int
      <4> HIDE DEF m2, m1, c
      <4> QED
        BY <1>1, <1>4, <2>4, <2>5, MachineType, ZenonT(60)
    <3> HIDE DEF m2, n
    <3> QED
      BY <3>1, SMTT(60), SMTT(80)
  <2>8. m = m4 /\ r = SetTask(m4, p, e)
    BY <1>9, ZenonT(60)
  <2> HIDE DEF m, r, s, k, m1, m2, g, c, e
  <2>9. /\ m3 \in Machine /\ m3.tsk = tsk /\ m3.rd = M.rd /\ m3.bug = bug
        /\ m3.rq[c].nr_migratory = k
        /\ \A d \in Cpu :
              /\ d # c => m3.rq[d] = m1.rq[d]
              /\ m3.rq[d].curr = m1.rq[d].curr /\ m3.rq[d].tree = m1.rq[d].tree
              /\ m3.rq[d].push = m1.rq[d].push
              /\ m3.rq[d].first = m1.rq[d].first
              /\ m3.rq[d].overloaded = m1.rq[d].overloaded
    <3> HIDE DEF m3
    <3>1. m1 \in Machine /\ m1.tsk = tsk /\ m1.rd = M.rd /\ m1.bug = bug
      BY <2>4
    <3>2. k \in Int
      BY <2>7, Zenon
    <3>3. c \in Cpu /\ m3 = SetCount(m1, c, k)
      BY <1>4, <2>6, ZenonT(60)
    <3>4. /\ m3 \in Machine /\ m3.tsk = m1.tsk /\ m3.rd = m1.rd /\ m3.bug = m1.bug
          /\ m3.rq[c].nr_migratory = k
          /\ \A d \in Cpu :
                /\ d # c => m3.rq[d] = m1.rq[d]
                /\ m3.rq[d].curr = m1.rq[d].curr /\ m3.rq[d].tree = m1.rq[d].tree
                /\ m3.rq[d].push = m1.rq[d].push
                /\ m3.rq[d].first = m1.rq[d].first
                /\ m3.rq[d].overloaded = m1.rq[d].overloaded
      BY <3>1, <3>2, <3>3, CountLemma, SMTT(60), SMTT(80)
    <3> QED
      BY <3>1, <3>4, ZenonT(60)
  <2> HIDE DEF m3
  <2>10. Shown(m3, {c})
    <3>1. Shown(M, {})
      BY <1>1 DEF Good
    <3> QED
      BY <2>4, <2>9, <3>1, SMTT(60), SMTT(80) DEF Shown
  <2>11. /\ m4 \in Machine /\ m4.tsk = m3.tsk /\ m4.bug = m3.bug /\ Shown(m4, {})
         /\ \A d \in Cpu :
               /\ m4.rq[d].curr = m3.rq[d].curr /\ m4.rq[d].tree = m3.rq[d].tree
               /\ m4.rq[d].push = m3.rq[d].push
               /\ m4.rq[d].nr_migratory = m3.rq[d].nr_migratory
    BY <1>4, <2>9, <2>10, UpdateLemma, ZenonT(60)
  <2> HIDE DEF m4
  <2>12. Good(SetTask(m4, p, e), {}) /\ Idlers(SetTask(m4, p, e))
    <3>1. (Cardinality(e.allowed) > 1 <=> g) /\ g \in BOOLEAN
      BY <1>5, SMTT(60), SMTT(80) DEF g
    <3>2. m4.tsk = M.tsk /\ e.cpu = c /\ ~e.throttled /\ e.on_rq
      BY <1>1, <1>5, <2>2, <2>9, <2>11, ZenonT(60)
    <3>3. \A d \in Cpu : /\ m4.rq[d].curr = M.rq[d].curr /\ m4.rq[d].tree = M.rq[d].tree
                         /\ d # c => /\ m4.rq[d].push = M.rq[d].push
                                     /\ m4.rq[d].nr_migratory = M.rq[d].nr_migratory
      BY <2>4, <2>9, <2>11, SMTT(60), SMTT(80)
    <3>4. /\ m4.rq[c].nr_migratory = M.rq[c].nr_migratory + (IF g THEN 1 ELSE -1)
          /\ m4.rq[c].push = s
      BY <1>4, <2>4, <2>7, <2>9, <2>11, ZenonT(60)
    <3> QED
      BY <1>1, <1>4, <1>5, <2>1, <2>3, <2>11, <3>1, <3>2, <3>3, <3>4, AffinityLemma, SMTT(60), SMTT(80)
  <2> QED
    BY <1>1, <1>7, <2>4, <2>8, <2>9, <2>11, <2>12
<1> QED
  BY <1>8, <1>9, Zenon

\* Initially nothing is queued and nobody is in the kernel.
LEMMA InitLemma ==
    ASSUME Counting, Init
    PROVE  SmpInv
<1>1. PICK where \in [Task -> Cpu] :
        tsk = [p \in Task |-> [cpu |-> where[p], allowed |-> Cpu, on_rq |-> FALSE, dl |-> 0,
                               throttled |-> FALSE, armed |-> FALSE]]
  BY ZenonT(60) DEF Init
<1> DEFINE q == [curr |-> Idle, tree |-> <<>>, push |-> <<>>, first |-> 0, next |-> 0,
                 nr_migratory |-> 0, overloaded |-> FALSE, resched |-> FALSE]
<1>2. /\ rq = [c \in Cpu |-> q]
      /\ rd = [dlo_mask |-> {}, dlo_count |-> 0, cpudl |-> [c \in Cpu |-> 0]]
      /\ lock = [c \in Cpu |-> Free] /\ ctx = [c \in Cpu |-> User] /\ bug = "none"
  BY Zenon DEF Init
<1>3. /\ q \in Runqueue /\ q.curr = Idle /\ q.tree = <<>> /\ q.push = <<>> /\ q.first = 0
      /\ q.nr_migratory = 0 /\ q.overloaded = FALSE
  BY DEF Runqueue
<1> HIDE DEF q
<1>4. rq \in [Cpu -> Runqueue] /\ \A c \in Cpu : rq[c] = q
  BY <1>2, <1>3, Zenon
<1>5. /\ tsk \in [Task -> Entity]
      /\ \A p \in Task : ~tsk[p].on_rq /\ ~tsk[p].throttled /\ ~tsk[p].armed
  BY <1>1, SMTT(40), SMTT(60) DEF Entity
<1>6. /\ rd \in RootDomain /\ rd.dlo_mask = {} /\ rd.dlo_count = 0
      /\ \A c \in Cpu : rd.cpudl[c] = 0
  BY <1>2 DEF RootDomain
<1>7. M \in Machine /\ M.rq = rq /\ M.tsk = tsk /\ M.rd = rd /\ M.bug = bug
  <2>1. bug \in Bugs
    BY <1>2 DEF Bugs
  <2> QED
    BY <1>4, <1>5, <1>6, <2>1, ZenonT(60) DEF M, Machine
<1>8. Elems(<<>>) = {} /\ Simple(<<>>) /\ Len(<<>>) = 0
  BY DEF Elems, Simple
<1>9. Placed(M, {}) /\ Idlers(M)
  BY <1>3, <1>4, <1>7, <1>8, SmpAssumption, ZenonT(60) DEF Placed, Idlers
<1>10. Counted(M)
  <2>1. \A c \in Cpu : Movers(M, c) = {}
    BY <1>3, <1>4, <1>7, <1>8, ZenonT(60) DEF Movers
  <2>2. Cardinality({}) = 0
    BY DEF Counting, CardEmpty
  <2> QED
    BY <1>3, <1>4, <1>7, <1>8, <2>1, <2>2, ZenonT(60) DEF Counted
<1>11. Shown(M, {})
  <2>1. rd.dlo_count = Cardinality(rd.dlo_mask)
    BY <1>6 DEF Counting, CardEmpty
  <2>2. rd.dlo_mask = {c \in Cpu : rq[c].overloaded}
    BY <1>3, <1>4, <1>6, Zenon
  <2>3. \A c \in Cpu : /\ rd.cpudl[c] = rq[c].first
                       /\ rq[c].overloaded = (rq[c].nr_migratory > 0 /\ Len(rq[c].tree) > 1)
    <3>1. \A c \in Cpu : rd.cpudl[c] = rq[c].first
      BY <1>3, <1>4, <1>6, ZenonT(60)
    <3>2. \A c \in Cpu : ~(rq[c].nr_migratory > 0) /\ rq[c].overloaded = FALSE
      BY <1>3, <1>4, SMTT(40), SMTT(60)
    <3> QED
      BY <3>1, <3>2, Zenon
  <2> QED
    BY <1>7, <2>1, <2>2, <2>3, ZenonT(60) DEF Shown
<1>12. User \in Context /\ User.pc = "user"
  <2>1. MaxDl + 1 \in Int /\ 0 \in Int
    BY SmpAssumption
  <2>2. User \in Context
    BY <2>1, Zenon DEF User, Context, Pc
  <2> QED
    BY <2>2 DEF User
<1>13. lock \in [Cpu -> Cpu \cup {Free}] /\ ctx \in [Cpu -> Context]
  BY <1>2, <1>12, Zenon
<1>14. \A x \in Cpu : ctx[x].pc = "user"
  BY <1>2, <1>12, Zenon
<1>15. \A x \in Cpu : Local(M, lock, ctx[x], x)
  BY <1>14, UserLemma, Zenon
<1>16. \A x, y \in Cpu : Apart(ctx[x], ctx[y])
  BY <1>14, SMTT(40), SMTT(60) DEF Apart
<1> QED
  BY <1>2, <1>5, <1>7, <1>9, <1>10, <1>11, <1>13, <1>15, <1>16, ZenonT(60) DEF SmpInv, State, Good

\* Every step of every CPU preserves the invariant.
LEMMA NextLemmaSmp ==
    ASSUME Counting, SmpInv, [Next]_vars
    PROVE  SmpInv'
<1>1. CASE UNCHANGED vars
  <2>1. M' = M /\ lock' = lock /\ ctx' = ctx
    BY <1>1, ZenonT(60) DEF vars, M
  <2> QED
    BY <2>1 DEF SmpInv
<1>2. CASE Stopped
  <2>1. M' = M /\ lock' = lock /\ ctx' = ctx
    BY <1>2 DEF Stopped, vars, M
  <2> QED
    BY <2>1 DEF SmpInv
<1>3. ASSUME NEW x \in Cpu, NEW p \in Task, try_to_wake_up(x, p) PROVE SmpInv'
  BY <1>3, TryToWakeUp, SMT, Zenon, SMTT(40)
<1>4. ASSUME NEW x \in Cpu, NEW p \in Task, TimerFires(x, p) PROVE SmpInv'
  BY <1>4, TimerFiresLemma, SMT, Zenon, SMTT(40)
<1>5. ASSUME NEW x \in Cpu, NEW p \in Task, NEW mask \in Masks, set_cpus_allowed_dl(x, p, mask)
      PROVE  SmpInv'
  BY <1>5, SetAllowed, SMT, Zenon, SMTT(40)
<1>6. ASSUME NEW x \in Cpu, SelectRoot(x) PROVE SmpInv'
  BY <1>6, SelectRootLemma, ZenonT(60)
<1>7. ASSUME NEW x \in Cpu, Woken(x) PROVE SmpInv'
  BY <1>7, WokenLemma, SMT, Zenon, SMTT(40)
<1>8. ASSUME NEW x \in Cpu, dl_task_timer(x) PROVE SmpInv'
  BY <1>8, TimerLemma, ZenonT(60)
<1>9. ASSUME NEW x \in Cpu, task_tick_dl(x) PROVE SmpInv'
  BY <1>9, TickLemma
<1>10. ASSUME NEW x \in Cpu, schedule(x) PROVE SmpInv'
  BY <1>10, ScheduleLemma
<1>11. ASSUME NEW x \in Cpu, pull_dl_task(x) PROVE SmpInv'
  BY <1>11, PullLemma
<1>12. ASSUME NEW x \in Cpu, PullLocked(x) PROVE SmpInv'
  BY <1>12, PullLockedLemma
<1>13. ASSUME NEW x \in Cpu, Switch(x) PROVE SmpInv'
  BY <1>13, SwitchLemma
<1>14. ASSUME NEW x \in Cpu, post_schedule(x) PROVE SmpInv'
  BY <1>14, PostLemma
<1>15. ASSUME NEW x \in Cpu, push_dl_task(x) PROVE SmpInv'
  BY <1>15, PushTask
<1>16. ASSUME NEW x \in Cpu, FindAgain(x) \/ FindRoot(x) PROVE SmpInv'
  BY <1>16, FindRootLemma, ZenonT(60)
<1>17. ASSUME NEW x \in Cpu, PushLock(x) PROVE SmpInv'
  BY <1>17, PushLockLemma
<1>18. ASSUME NEW x \in Cpu, PushLocked(x) PROVE SmpInv'
  BY <1>18, PushLockedLemma
<1> QED
  BY <1>1, <1>2, <1>3, <1>4, <1>5, <1>6, <1>7, <1>8, <1>9, <1>10, <1>11, <1>12, <1>13, <1>14,
     <1>15, <1>16, <1>17, <1>18, ZenonT(60) DEF Next

\* The invariant says that tasks are where they belong, and that what is published is coherent.
LEMMA SmpInvImplies ==
    ASSUME SmpInv
    PROVE  OneRunqueue /\ Published
<1>1. /\ M.rq = rq /\ M.tsk = tsk /\ M.rd = rd /\ M.bug = bug /\ Good(M, {}) /\ Idlers(M)
      /\ bug \in {"none", "wrong_rq"}
  BY TypeLemma, ZenonT(60) DEF SmpInv, State
<1>2. ASSUME NEW c \in Cpu
      PROVE  /\ \A p \in Elems(rq[c].tree) : tsk[p].cpu = c /\ tsk[p].on_rq /\ ~tsk[p].throttled
             /\ rq[c].curr \in Task => tsk[rq[c].curr].cpu = c
  BY <1>1, ZenonT(60) DEF Good, Placed
<1>3. ASSUME NEW c \in Cpu
      PROVE  Elems(rq[c].push) \subseteq {p \in Elems(rq[c].tree) \ {rq[c].curr} : Migratory(M, p)}
  BY <1>1, ZenonT(60) DEF Good, Counted, Movers, Idlers
<1>4. OneRunqueue
  BY <1>1, <1>2, <1>3, ZenonT(60) DEF OneRunqueue
<1>5. Published
  BY <1>1, Zenon DEF Good, Shown, Published
<1> QED
  BY <1>4, <1>5, Zenon

-----------------------------------------------------------------------------
(* The theorems.                                                           *)

\* What was used of minima and of numbers of elements.
LEMMA CountingHolds == Counting
<1>1. ASSUME NEW S \in SUBSET Nat, S # {}
      PROVE  \E k \in S : \A j \in S : k <= j
  <2>1. PICK x \in S : \A y \in S : ~(<<y, x>> \in OpToRel(<, Nat))
    BY <1>1, NatLessThanWellFounded, WFMin, Zenon
  <2>2. \A y \in S : ~(y < x)
    BY <2>1, Zenon DEF OpToRel
  <2> QED
    BY <2>2
<1>2. LeastExists
  BY <1>1 DEF LeastExists
<1>3. CardInterval
  <2>1. ASSUME NEW n \in Nat
        PROVE  IsFiniteSet(1 .. n) /\ Cardinality(1 .. n) = n
    <3>1. Cardinality(1 .. n) = IF 1 > n THEN 0 ELSE n - 1 + 1
      BY FS_Interval, 1 \in Int, n \in Int, SMTT(40), SMTT(60)
    <3> QED
      BY <3>1, FS_Interval, SMTT(40), SMTT(60)
  <2> QED
    BY <2>1, Zenon DEF CardInterval
<1>4. CardEmpty /\ CardType
  BY FS_EmptySet, FS_CardinalityType, Zenon DEF CardEmpty, CardType
<1>5. CardSubset
  BY FS_Subset, Zenon DEF CardSubset
<1>6. CardAdd /\ CardRemove
  BY FS_AddElement, FS_RemoveElement, Zenon DEF CardAdd, CardRemove
<1> QED
  BY <1>2, <1>3, <1>4, <1>5, <1>6, ZenonT(60) DEF Counting

\* On any number of CPUs: a queued task is on the runqueue of its CPU only, runnable and not
\* throttled, the pushable ones can go and do not run, no task runs twice, and no BUG_ON of
\* deadline.c is reached but by a timer that locked the runqueue of a CPU its task had left.
THEOREM OneRunqueueHolds == Spec => []OneRunqueue
<1>1. Init => SmpInv
  BY CountingHolds, InitLemma, Zenon
<1>2. SmpInv /\ [Next]_vars => SmpInv'
  BY CountingHolds, NextLemmaSmp, Zenon
<1>3. SmpInv => OneRunqueue
  BY CountingHolds, SmpInvImplies, ZenonT(60)
<1> QED
  BY <1>1, <1>2, <1>3, PTL DEF Spec

\* On any number of CPUs, dlo_mask, dlo_count and cpudl agree with the runqueues between any two
\* steps, whoever reads them without a lock.
THEOREM PublishedHolds == Spec => []Published
<1>1. Init => SmpInv
  BY CountingHolds, InitLemma, SMT, Zenon, SMTT(40)
<1>2. SmpInv /\ [Next]_vars => SmpInv'
  BY CountingHolds, NextLemmaSmp, SMT, Zenon, SMTT(40)
<1>3. SmpInv => Published
  BY CountingHolds, SmpInvImplies
<1> QED
  BY <1>1, <1>2, <1>3, PTL DEF Spec
=============================================================================
