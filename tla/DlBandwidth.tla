----------------------------- MODULE DlBandwidth -----------------------------
(***************************************************************************)
(* Admission control of the SCHED_DEADLINE class (kernel/sched/core.c).     *)
(* Every root domain has a cap per CPU (dl_bw.bw) and the bandwidth it has  *)
(* granted (dl_bw.total_bw).  sched_setscheduler2(), exit() and migration   *)
(* between root domains change the second; two sysctl handlers change the   *)
(* first, one CPU at a time, and write their knob before they validate it.  *)
(*                                                                         *)
(* A step is one critical section of dl_b->lock.  Tasks are runnable when    *)
(* they are migrated, and the scheduler is built without group scheduling.  *)
(***************************************************************************)
EXTENDS RootDomain, FiniteSets, FiniteSetsExt

CONSTANTS
    Task,
    rd,                 \* the root domain of every CPU
    Params,             \* values of struct sched_param2 that __checkparam_dl() accepts
    Writes,             \* what is written to the knobs: handler, knob, value
    Default,            \* their values at boot
    Services,           \* "reenter": a task may come back with the bandwidth it left with;
                        \* "zero_period": a task may leave its sched_period 0
    Unit, U64           \* 1 << 20 and the modulus of u64

Domain == {rd[c] : c \in CPU}
Span(d) == {c \in CPU : rd[c] = d}

RUNTIME_INF == U64 - 1

ASSUME BandwidthAssumption ==
    /\ NCPU \in Nat \ {0} /\ U64 \in Nat /\ Unit \in Nat /\ U64 > Unit
    /\ DOMAIN rd = CPU
ASSUME KnobAssumption == \A w \in Writes : w.handler \in {"rt", "dl"}

VARIABLES
    sysctl,             \* the three knobs
    def_dl_runtime,     \* def_dl_bandwidth.dl_runtime
    dl_bw,              \* struct dl_bw of every root domain
    tsk,                \* policy, dl.dl_bw and CPU of every task
    mig,                \* migrations that hold the lock of the domain they leave
    hnd                 \* the sysctl handlers

BwVars == <<sysctl, def_dl_runtime, dl_bw, tsk, mig, hnd>>
-----------------------------------------------------------------------------
to_ratio(period, runtime) ==
    IF runtime = RUNTIME_INF THEN Unit
    ELSE IF period = 0 THEN 0
    ELSE ((runtime * Unit) % U64) \div period

global(v) == IF v < 0 THEN RUNTIME_INF ELSE v

actual_dl_runtime ==
    IF sysctl.dl_runtime < 0 THEN RUNTIME_INF
    ELSE ((global(sysctl.dl_runtime) * global(sysctl.rt_runtime)) % U64) \div sysctl.rt_period

dl_bandwidth_enabled == sysctl.dl_runtime >= 0

Idle == [pc |-> "idle", old |-> Default, bw |-> 0, i |-> 0]

\* sched_init(), init_rootdomain() and init_dl_bw()
BwInit ==
    /\ sysctl = Default
    /\ def_dl_runtime = (Default.dl_runtime * Default.rt_runtime) \div Default.rt_period
    /\ dl_bw = [d \in Domain |-> [bw |-> to_ratio(Default.rt_period, Default.dl_runtime),
                                  total_bw |-> 0]]
    /\ tsk \in [Task -> [policy : {"NORMAL"}, dl_bw : {0}, cpu : CPU]]
    /\ mig = [p \in Task |-> {}]
    /\ hnd = [h \in {"rt", "dl"} |-> Idle]
-----------------------------------------------------------------------------
(* Tasks.                                                                  *)

\* dl_b->lock is free; the locks of p (pi_lock and its runqueue's) are free.
DomainFree(d) == \A p \in Task : mig[p] # {} => rd[tsk[p].cpu] # d
Quiet(cpus)   == \A q \in Task : mig[q] # {} => ({tsk[q].cpu} \cup mig[q]) \cap cpus = {}
Touchable(p)  == Quiet({tsk[p].cpu}) /\ DomainFree(rd[tsk[p].cpu])

\* Mutant: what the domain has granted is not counted.
__dl_overflow_Total(b, cpus, old_bw, new_bw) ==
    b.bw # RUNTIME_INF /\ (b.bw * cpus) % U64 < new_bw

__dl_overflow(b, cpus, old_bw, new_bw) ==
    b.bw # RUNTIME_INF /\ (b.bw * cpus) % U64 < (b.total_bw - old_bw + new_bw) % U64

Grant(d, old_bw, new_bw) == [dl_bw EXCEPT ![d].total_bw = (@ - old_bw + new_bw) % U64]

\* What dl_overflow() takes out of total_bw before it adds the new bandwidth.
Replaced(p) == IF tsk[p].policy = "DEADLINE" THEN tsk[p].dl_bw ELSE 0

\* dl_overflow() for a task that becomes or stays SCHED_DEADLINE.
dl_overflow(p, new_bw) ==
    LET d == rd[tsk[p].cpu]
    IN  \/ new_bw = tsk[p].dl_bw /\ UNCHANGED dl_bw
        \/ /\ new_bw # tsk[p].dl_bw
           /\ ~__dl_overflow(dl_bw[d], Cardinality(Span(d)), Replaced(p), new_bw)
           /\ dl_bw' = Grant(d, Replaced(p), new_bw)

\* sched_setscheduler2(p, SCHED_DEADLINE, prm); a call that fails changes nothing.
setscheduler_dl(p, prm) ==
    LET new_bw == to_ratio(prm.sched_period, prm.sched_runtime)
        period == IF prm.sched_period # 0 THEN prm.sched_period ELSE prm.sched_deadline
    IN  /\ tsk[p].policy # "DEAD" /\ Touchable(p)
        /\ dl_bandwidth_enabled => dl_bw[rd[tsk[p].cpu]].bw # 0
        /\ tsk[p].policy = "NORMAL" /\ new_bw = tsk[p].dl_bw /\ new_bw # 0 => "reenter" \in Services
        /\ prm.sched_period = 0 => "zero_period" \in Services
        /\ dl_overflow(p, new_bw)
        /\ tsk' = [tsk EXCEPT ![p].policy = "DEADLINE",
                              ![p].dl_bw = to_ratio(period, prm.sched_runtime)]
        /\ UNCHANGED <<sysctl, def_dl_runtime, mig, hnd>>

\* sched_setscheduler(p, SCHED_NORMAL): dl.dl_bw keeps its value.
setscheduler_normal(p) ==
    /\ tsk[p].policy = "DEADLINE" /\ Touchable(p)
    /\ dl_bw' = IF tsk[p].dl_bw = 0 THEN dl_bw ELSE Grant(rd[tsk[p].cpu], tsk[p].dl_bw, 0)
    /\ tsk' = [tsk EXCEPT ![p].policy = "NORMAL"]
    /\ UNCHANGED <<sysctl, def_dl_runtime, mig, hnd>>

\* exit(): the class of a -deadline task has a task_dead method, task_dead_dl().
task_dead(p) ==
    /\ tsk[p].policy \in {"NORMAL", "DEADLINE"} /\ Touchable(p)
    /\ dl_bw' = Grant(rd[tsk[p].cpu], Replaced(p), 0)
    /\ tsk' = [tsk EXCEPT ![p].policy = "DEAD"]
    /\ UNCHANGED <<sysctl, def_dl_runtime, mig, hnd>>

\* fork(): the child is a copy of its parent, but dl.dl_bw is not reset; the child of a
\* -deadline task is SCHED_NORMAL (reset-on-fork) or is not created (-EAGAIN).
sched_fork(current, p) ==
    /\ tsk[p].policy = "DEAD" /\ tsk[current].policy # "DEAD"
    /\ tsk' = [tsk EXCEPT ![p] = [tsk[current] EXCEPT !.policy = "NORMAL"]]
    /\ UNCHANGED <<sysctl, def_dl_runtime, dl_bw, mig, hnd>>

\* Mutant: only the runqueue the task leaves is locked.
__migrate_task_OneLock(p, cpu) ==
    /\ tsk[p].policy # "DEAD" /\ cpu # tsk[p].cpu /\ mig[p] = {}
    /\ IF tsk[p].policy # "DEADLINE" \/ rd[cpu] = rd[tsk[p].cpu]
       THEN tsk' = [tsk EXCEPT ![p].cpu = cpu] /\ UNCHANGED mig
       ELSE /\ DomainFree(rd[tsk[p].cpu])
            /\ mig' = [mig EXCEPT ![p] = {cpu}]
            /\ UNCHANGED tsk
    /\ UNCHANGED <<sysctl, def_dl_runtime, dl_bw, hnd>>

\* __migrate_task() with both runqueues locked.  Within a root domain, or for another
\* class, the task just moves; otherwise set_task_cpu_dl() locks the domain it leaves,
__migrate_task(p, cpu) ==
    /\ tsk[p].policy # "DEAD" /\ cpu # tsk[p].cpu
    /\ Quiet({tsk[p].cpu, cpu})
    /\ IF tsk[p].policy # "DEADLINE" \/ rd[cpu] = rd[tsk[p].cpu]
       THEN tsk' = [tsk EXCEPT ![p].cpu = cpu] /\ UNCHANGED mig
       ELSE /\ DomainFree(rd[tsk[p].cpu])
            /\ mig' = [mig EXCEPT ![p] = {cpu}]
            /\ UNCHANGED tsk
    /\ UNCHANGED <<sysctl, def_dl_runtime, dl_bw, hnd>>

\* Mutant: the bandwidth stays behind.
set_task_cpu_dl_Stays(p) ==
    \E cpu \in mig[p] :
       /\ DomainFree(rd[cpu])
       /\ tsk' = [tsk EXCEPT ![p].cpu = cpu]
       /\ mig' = [mig EXCEPT ![p] = {}]
       /\ UNCHANGED <<sysctl, def_dl_runtime, dl_bw, hnd>>

\* then the domain it enters, and moves the bandwidth and the task, or neither.
set_task_cpu_dl(p) ==
    \E cpu \in mig[p] :
       LET dl_b  == rd[tsk[p].cpu]
           cpu_b == rd[cpu]
           bw    == (dl_bw[cpu_b].bw * Cardinality(Span(cpu_b))) % U64
           full  == bw < (dl_bw[cpu_b].total_bw + tsk[p].dl_bw) % U64
       IN  /\ DomainFree(cpu_b)
           /\ IF dl_bandwidth_enabled /\ full THEN UNCHANGED <<tsk, dl_bw>>
              ELSE /\ dl_bw' = [d \in Domain |-> [bw |-> dl_bw[d].bw, total_bw |->
                                  CASE d = dl_b  -> (dl_bw[d].total_bw - tsk[p].dl_bw) % U64
                                    [] d = cpu_b -> (dl_bw[d].total_bw + tsk[p].dl_bw) % U64
                                    [] OTHER     -> dl_bw[d].total_bw]]
                   /\ tsk' = [tsk EXCEPT ![p].cpu = cpu]
           /\ mig' = [mig EXCEPT ![p] = {}]
           /\ UNCHANGED <<sysctl, def_dl_runtime, hnd>>
-----------------------------------------------------------------------------
(* sched_rt_handler() and sched_dl_handler(), each under a mutex of its    *)
(* own.  The second holds def_dl_bandwidth.dl_runtime_lock throughout, the  *)
(* first only once it has made up its mind.                                *)

Holds(h)      == hnd[h].pc = "update" \/ (h = "dl" /\ hnd[h].pc \in {"check", "commit", "restore"})
LockFree(h)   == \A g \in {"rt", "dl"} \ {h} : ~Holds(g)
Goto(h, pc, bw, i) ==
    hnd' = [hnd EXCEPT ![h] = [pc |-> pc, old |-> hnd[h].old, bw |-> bw, i |-> i]]
ThisDomain(h) == rd[hnd[h].i]

\* proc_dointvec() stores the value.
Write(h, knob, v) ==
    /\ hnd[h].pc = "idle"
    /\ sysctl' = [sysctl EXCEPT ![knob] = v]
    /\ hnd' = [hnd EXCEPT ![h] = [pc |-> "start", old |-> sysctl, bw |-> 0, i |-> 0]]
    /\ UNCHANGED <<def_dl_runtime, dl_bw, tsk, mig>>

\* The tests that precede check_dl_bw() and the bandwidth it compares with.
global_constraints(h) ==
    LET invalid == IF h = "rt" THEN sysctl.rt_period <= 0 \/ sysctl.rt_runtime = 0
                   ELSE \/ sysctl.rt_period = 0
                        \/ def_dl_runtime # RUNTIME_INF /\ def_dl_runtime > sysctl.rt_period
    IN  /\ hnd[h].pc = "start"
        /\ h = "dl" => LockFree(h)
        /\ Goto(h, IF invalid THEN "restore" ELSE "check",
                to_ratio(sysctl.rt_period, def_dl_runtime), 0)
        /\ UNCHANGED <<sysctl, def_dl_runtime, dl_bw, tsk, mig>>

\* One iteration of check_dl_bw().
check_dl_bw(h) ==
    /\ hnd[h].pc = "check"
    /\ \/ hnd[h].i = NCPU /\ Goto(h, "commit", 0, 0)
       \/ /\ hnd[h].i < NCPU /\ DomainFree(ThisDomain(h))
          /\ IF hnd[h].bw < dl_bw[ThisDomain(h)].total_bw THEN Goto(h, "restore", 0, 0)
             ELSE Goto(h, "check", hnd[h].bw, hnd[h].i + 1)
    /\ UNCHANGED <<sysctl, def_dl_runtime, dl_bw, tsk, mig>>

Restore(h) ==
    /\ hnd[h].pc = "restore" /\ LockFree(h)
    /\ sysctl' = IF h = "dl" THEN [sysctl EXCEPT !.dl_runtime = hnd[h].old.dl_runtime]
                 ELSE [sysctl EXCEPT !.rt_period  = hnd[h].old.rt_period,
                                     !.rt_runtime = hnd[h].old.rt_runtime]
    /\ hnd' = [hnd EXCEPT ![h] = Idle]
    /\ UNCHANGED <<def_dl_runtime, dl_bw, tsk, mig>>

\* Mutant: the lock is not taken.
Commit_Unlocked(h) ==
    LET bw == IF def_dl_runtime' = RUNTIME_INF \/ sysctl.rt_runtime < 0 THEN RUNTIME_INF
              ELSE to_ratio(sysctl.rt_period, def_dl_runtime')
    IN  /\ hnd[h].pc = "commit"
        /\ def_dl_runtime' = actual_dl_runtime
        /\ Goto(h, "update", bw, 0)
        /\ UNCHANGED <<sysctl, dl_bw, tsk, mig>>

\* update_dl_bw() computes the new cap ...
Commit(h) ==
    LET bw == IF def_dl_runtime' = RUNTIME_INF \/ sysctl.rt_runtime < 0 THEN RUNTIME_INF
              ELSE to_ratio(sysctl.rt_period, def_dl_runtime')
    IN  /\ hnd[h].pc = "commit" /\ LockFree(h)
        /\ def_dl_runtime' = actual_dl_runtime
        /\ Goto(h, "update", bw, 0)
        /\ UNCHANGED <<sysctl, dl_bw, tsk, mig>>

\* ... and stores it in the domain of one CPU after the other.
update_dl_bw(h) ==
    /\ hnd[h].pc = "update"
    /\ \/ /\ hnd[h].i = NCPU
          /\ hnd' = [hnd EXCEPT ![h] = Idle]
          /\ UNCHANGED dl_bw
       \/ /\ hnd[h].i < NCPU /\ DomainFree(ThisDomain(h))
          /\ dl_bw' = [dl_bw EXCEPT ![ThisDomain(h)].bw = hnd[h].bw]
          /\ Goto(h, "update", hnd[h].bw, hnd[h].i + 1)
    /\ UNCHANGED <<sysctl, def_dl_runtime, tsk, mig>>

Handler(h) ==
    global_constraints(h) \/ check_dl_bw(h) \/ Restore(h) \/ Commit(h) \/ update_dl_bw(h)

BwNext ==
    \/ \E p \in Task :
          \/ \E prm \in Params : setscheduler_dl(p, prm)
          \/ setscheduler_normal(p) \/ task_dead(p)
          \/ \E current \in Task : sched_fork(current, p)
          \/ \E cpu \in CPU : __migrate_task(p, cpu)
          \/ set_task_cpu_dl(p)
    \/ \E w \in Writes : Write(w.handler, w.knob, w.value)
    \/ \E h \in {"rt", "dl"} : Handler(h)

BwSpec == BwInit /\ [][BwNext]_BwVars
-----------------------------------------------------------------------------
(* Properties.                                                             *)

\* "this function also accordingly updates the currently allocated bandwidth": what
\* a domain has granted is what its -deadline tasks hold, through admission, changes
\* of reservation, exit and migration.  It holds without the two Services: a task that
\* comes back is not counted, and for a sched_period of 0 dl_overflow() grants 0 while
\* __setparam_dl() stores runtime / deadline, so that the first such call breaks it.
Members(d) == {p \in Task : tsk[p].policy = "DEADLINE" /\ rd[tsk[p].cpu] = d}
TotalIsSum ==
    \A d \in Domain :
        dl_bw[d].total_bw = MapThenSumSet(LAMBDA p : tsk[p].dl_bw, Members(d)) % U64

\* Two handlers may race, but whenever dl_runtime_lock is free every root domain
\* has the same cap.
UniformCap == (\A h \in {"rt", "dl"} : ~Holds(h)) => \A c, d \in Domain : dl_bw[c].bw = dl_bw[d].bw

\* No admission and no migration fills a domain beyond its cap: only a knob does,
\* by lowering the cap.
Within(d) ==
    \/ dl_bw[d].bw = RUNTIME_INF
    \/ dl_bw[d].total_bw <= dl_bw[d].bw * Cardinality(Span(d))
OnlyKnobsOvercommit ==
    [][\A d \in Domain :
          Within(d) /\ ~(Within(d)') => dl_bw'[d].bw < dl_bw[d].bw \/ ~dl_bandwidth_enabled]_BwVars

\* set_task_cpu_dl() locks two domains in the order of the migration, so two opposite
\* migrations can wait for each other.  The runqueue locks of __migrate_task() leave
\* only one way to it: four different runqueues, two in each domain.
CycleNeedsFourRunqueues ==
    \A p, q \in Task : \A cpu \in mig[p], to \in mig[q] :
        rd[cpu] = rd[tsk[q].cpu] /\ rd[to] = rd[tsk[p].cpu]
            => Cardinality({tsk[p].cpu, cpu, tsk[q].cpu, to}) = 4
=============================================================================
