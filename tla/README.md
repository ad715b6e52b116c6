# Verification of linux-kernel-lab

The repository has two halves. `src/sched-dl` is a kernel patch series that adds
the SCHED_DEADLINE scheduling class (earliest deadline first, with a constant
bandwidth server per task). The other directories are small kernel modules, one
per kernel facility: character devices, wait queues, poll, interrupts and their
bottom halves, locks, timers, block devices, data structures, mmap, kobjects.

The scheduler patch is the core of this project: it is the largest piece of code,
it is concurrent, and most of its behaviour is decided by races that no test in
the repository exercises. The modules follow, by how much state they share
between concurrent contexts.

Line numbers below that start with `P:` are lines of
`src/sched-dl/patch-dl/sched-add-sched_dl.patch`, the patch that sums up the
series 0001-0014.

## Inventory

| Component | State | Operations | What makes it hard |
|---|---|---|---|
| Deadline runqueue (`kernel/sched/deadline.c`, P:2540-4160) | rb-tree of entities, `rb_leftmost`, `dl_nr_running`, `earliest_dl`; per task: budget, absolute deadline, `dl_throttled`, `dl_new`, `dl_boosted`, bandwidth timer | enqueue, dequeue, tick, yield, schedule, wake-up, timer callback, policy change, boost | the timer callback cannot be cancelled once it has begun and waits for `rq->lock`; three cached views of one tree; budgets that overrun |
| Admission control (`core.c`, P:1271-1371, 2018-2237) | `dl_bw.bw`, `dl_bw.total_bw` per root domain, `p->dl.dl_bw`, sysctl values | `dl_overflow`, `task_dead_dl`, sysctl handlers | handlers change two global limits under different mutexes; subtraction of a stale bandwidth |
| cpudl heap (`cpudeadline.c`, P:2240-2500) | `elements[]`, `cpu_to_idx[]`, `size`, `free_cpus` | `cpudl_set`, `cpudl_find`, `cpudl_init` | an index that must stay the inverse of the heap; `cpudl_find` reads without the lock |
| Push/pull migration (P:2596-2714, 3389-3973) | pushable trees, `earliest_dl.next`, `dlo_mask`, overload count | push, pull, select_task_rq, set_cpus_allowed | `double_lock_balance` drops the lock: what was read before must be checked again |
| rt_mutex (P:780-1073) | waiter trees of locks and of tasks | block, chain walk, wake-up, setprio | deadline inheritance along a chain |
| `wait-event-labs/wait_event.c` | one flag, one wait queue, one buffer | open, read, write, release | check-then-sleep; two readers, one flag |
| `poll-labs/poll.c` | `pd` of the open file, wait queue | open, poll, ioctl, close | a wake-up between `poll_wait()` and the sleep; close while another thread polls |
| `interrupt-labs` | event counter, wait queue; tasklet; work item | handler, thread, exit | an event that arrives between the test and the sleep; unload with work pending |
| `sync` | counters under different locks, kthreads | threads, init, exit | who protects what; `kthread_stop` of a thread that has returned, or of one that was never created |
| `sched-lab`, `timer-labs` | tasklet, work, timers | arm, fire, unload | what can still run after `module_exit` |
| `ramdisk-lab` | gendisk, queue, major number, memory | init with error paths, request functions, exit | release in the wrong order, or of what was never acquired; requests copied on two CPUs |
| `char-device-labs`, `mmap-labs`, `kobject-ueveng-lab`, `notifier-labs`, `kprobe-labs`, `mm-lab` | registration, buffers, a timer, callbacks | init/exit, file operations | partial failure of init; callbacks during exit |
| `sched-dl/patch-dl/test-dl.c` | a flag, a thread | create, set the policy, spin, join | the thread spins at a higher priority than the task that ends it |
| `data-struct-labs` | list, hash list, rb-tree | insert, search, delete | duplicate keys; deletion while iterating |

Correctness means, for the scheduler: the tree is in deadline order and its
caches agree with it; exactly the runnable unthrottled tasks are in it; nobody
uses more than the reservation; a throttled task is always released; the earliest
task runs; admitted reservations meet their deadlines; the admitted bandwidth
stays below its limit. For the modules: no lost wake-up, no event counted twice or
never, mutual exclusion, everything released that was acquired and nothing running
after unload.

## Modules

| Module | Models | Instance for TLC | Theorems |
|---|---|---|---|
| `DlRq` | the deadline class of one runqueue | `MC_DlRq` | `DlRq_proofs`, `DlRq_edf` |
| `RootDomain` | the CPUs, which the next two share | | `RootDomain_proofs` |
| `CpuDl`, `CpuDlMap` | the cpudl heap, and the map it implements | `MC_CpuDl` | `RootDomain_proofs` |
| `DlBandwidth` | admission control | `MC_DlBandwidth` | `RootDomain_proofs` |
| `DlSmp` | the deadline class on several CPUs: push and pull | `MC_DlSmp` | `DlSmp_ops`, `DlSmp_steps`, `DlSmp_proofs` |
| `MiscDev`, `IrqLabs`, `SyncLabs`, `DeferredLabs` | the kernel modules of the labs | `MC_Labs`, which composes them | `Labs_proofs` |
| `ModuleLoad`, `BlockIO`, `KobjEvent`, `PollDev` | the drivers; `Drivers` composes them | `MC_Drivers` | `Drivers_proofs` |
| `AtomicDisk` | what `ramhd_req.c` implements | `MC_Drivers` | |
| `DataStructs`, `TestDl` | the data structures and the test program | `MC_Drivers` | |

`RootDomain_proofs` is about two specifications, `Spec` of `CpuDl` and `BwSpec` of
`DlBandwidth`, that have nothing but the CPUs in common.

### DlRq

Variables: `rq` (the running task, its `exec_start`, the TIF_NEED_RESCHED flags, and
which BUG_ON stopped the machine, if any), `dl` (the rb-tree read from left to right, and
the three values cached about it), `tsk` (per task: policy, effective priority,
`on_rq`, the reservation, the `sched_dl_entity` and its timer) and `clock`.

Each C function is an operator from a machine state to the next machine state; an
action is one critical section of `rq->lock` and commits the state its handler
computes. So `schedule` contains the dequeue, the accounting, the possible
throttling or replenishment, and the choice of the successor; `setscheduler_dl` and
`rt_mutex_lock` contain the dequeue, `put_prev_task`, the change, `set_curr_task`,
the enqueue and `check_class_changed`. The bandwidth timer takes two steps:
`TimerFire` (the interrupt enters the callback, no lock) and `dl_task_timer` (the
callback has the lock). Between them any other action may run, which is the race
the code must survive: `hrtimer_try_to_cancel` does nothing then.

A BUG_ON stops the machine: `Commit` keeps the state in which the operation began
and records which assertion failed.

Abstractions. Time is counted in units of 2^DL_SCALE ns, so the shifts of
`dl_entity_overflow()` lose nothing, and stays far below 2^63, so
`dl_time_before()` is `<`. Tasks of the other classes are one class without state.
The root domain has one CPU: `nr_cpus_allowed` is 1 and the push and pull calls find
nobody (they are in `DlSmp`). Admission control (`dl_overflow()`, P:1636) always admits here. A mutex has
one waiter, the task that runs when it blocks; releasing it wakes the waiter and
restores the priority in one step.

`Services` selects what the environment uses: `"yield"`, `"boost"` (mutexes with
inheritance), `"setsched"` (any policy change at any time), `"admit"` (another task
makes a runnable task SCHED_DEADLINE). Without any of them a task makes itself
SCHED_DEADLINE once, as `test-dl.c` does. `Prompt` lets time pass only when the kernel
has nothing to do at this instant, which is the assumption of EDF analysis.

### CpuDl and CpuDlMap

`CpuDl` models `cpudl_set()` and `cpudl_find()`. Variables: the members of
`struct cpudl`, `set` (the `cpudl_set()` that holds `cp->lock`: where it is, its
CPU, its place in the heap, the key it will store) and `find` (a search in
progress). Every iteration of the loops of `cpudl_change_key()`,
`cpudl_heapify()` and of the removal is one step, because `cpudl_find()` reads the
root and the mask without the lock; its reads are the steps `cpudl_find` (the
mask), `cpudl_maximum`, `FindLater` and `FindBest`. The second call of
`cpudl_maximum()` may be a second read or, if the compiler merges them, the
first value.

`CpuDlMap` is what callers rely on: a map from CPUs to deadlines where an update
changes one entry. `CpuDl` implements it (`MapSpec`); the mapping reads the heap
through the index, so it fails as soon as an exchange loses an element.

Abstractions: deadlines are below 2^63, so `dl_time_before()` is `<`; all CPUs are
active; `cpudl_set(cp, cpu, 0, 0)` for a CPU outside the heap changes nothing and is
a stuttering step.

### DlBandwidth

Variables: `sysctl` (the knobs `sched_rt_period_us`, `sched_rt_runtime_us`,
`sched_dl_runtime_us`), `def_dl_runtime`, `dl_bw` (cap and granted bandwidth of each
root domain), `tsk` (policy, `dl.dl_bw` and CPU), `mig` (migrations between the two
locks of `set_task_cpu_dl()`) and `hnd` (the two sysctl handlers: where they are, the
values to restore, the bandwidth they compare or store, the CPU their loop is at).
A step is one critical section of a `dl_b->lock`; the loops of `check_dl_bw()` and
`update_dl_bw()` take one step per CPU, and the handlers exclude each other only by
`dl_runtime_lock`, which `sched_dl_handler()` holds from its tests on and
`sched_rt_handler()` only while it stores.

Abstractions: bandwidths are multiples of `Unit`, which stands for 2^20; a task is
runnable when it is migrated; a call that fails changes nothing and is a stuttering
step. `Services` has `"reenter"` when a task may come back with the bandwidth it left
with, and `"zero_period"` when it may leave `sched_period` 0, which `__checkparam_dl()` accepts and which
stands for the deadline.

### DlSmp

`DlSmp` models what `DlRq` leaves out: several runqueues, and tasks that move between them.
Variables: `rq` (per CPU: the running task, the tree, the pushable tree, `earliest_dl`,
`dl_nr_migratory`, `overloaded`, TIF_NEED_RESCHED), `tsk` (CPU, affinity, `on_rq`, deadline,
throttling and timer), `rd` (`dlo_mask`, `dlo_count`, and cpudl as the map of `CpuDlMap`), `lock`
(who holds each `rq->lock`) and `ctx` (what the kernel does on each CPU, with its locals).

A step is what one CPU does while it holds a lock, or between two reads of shared data without
one: `try_to_wake_up` chooses a CPU without a lock and `Woken` queues the task there;
`TimerFires` reads `task_rq(p)` and `dl_task_timer` has the lock; `schedule`,
`pull_dl_task`, `PullLocked`, `Switch` and `post_schedule` are one call of `__schedule()`;
`push_dl_task`, `FindRoot`, `FindAgain`, `PushLock` and `PushLocked` are one call of
`push_dl_tasks()`. `double_lock_balance()` may take the second lock while it keeps
the first, or drop the first and take both, as its two builds do.

Abstractions. All tasks are SCHED_DEADLINE and none is boosted; what else a CPU runs is `Idle`. There is no
clock and no budget: whenever the running task is accounted for it may be found exhausted (and
is then throttled, or replenished at once), and a replenished or woken task may get any later
deadline up to `MaxDl`. `dl_nr_running` and `dl_nr_total` are the length of the tree, which
`DlRq` checks. All CPUs are in one scheduling domain with SD_WAKE_AFFINE. `cpudl_find()` reads the root twice, as in
`CpuDl`; when several CPUs share the latest deadline each of them may be the root. The affinity of a runnable task keeps
the CPU it is on. When the timer callback has the lock of a runqueue its task has left, it goes on to change a runqueue
that it has not locked; the model stops there.

### The labs

Labs that share a shape share a module, and the variable `lab` says which of them is
loaded: the guards and the targets of the steps depend on it where the files differ.

| Module | Files | State | Actors |
|---|---|---|---|
| `MiscDev` | `lab-misc.c`, `wait_event.c` | the memory, the registration, `data_ready`, each process's positions, place and state on the wait queue | processes, signals, insmod and rmmod |
| `IrqLabs` | `interrupt_thread.c`, `interrupt_add_thread.c`, `interrupt_tasklet.c`, `interrupt_workqueue.c` | the atomics, the stored jiffies, a pending request | handler, bottom half, `my_exit()` |
| `SyncLabs` | `atomic.c`, `mutex.c`, `spinlock.c`, `rw_lock.c`, `completion.c`, `kthread_run.c` | the counter, its lock or completion, each thread | threads, `my_mod_init()`, `my_mod_exit()` |
| `DeferredLabs` | `sched-lab/tasklet.c`, `work_queue.c`, `timer.c`, `hrtimer.c`, `mmap.c` | what is acquired, what is queued, the function | the deferred function, init and exit |

A step is one access to shared state. The test of `wait_event_interruptible()`, going on the queue,
the test there and the sleep are steps of their own, because its users are right only if nothing
falls between them. What the kernel promises is modelled from how the labs use it:
requests that are already pending are dropped, `free_irq()` waits for the handler and
its thread, `kthread_stop()` waits for the thread, the synchronous cancellations wait
for the function, an open file keeps its module loaded.

Loads that fail for want of memory or of an interrupt just end, except in `mmap.c`,
where the error path has labels to get wrong, and in `MiscDev`, where loading and unloading are
steps beside the processes. A `kthread_run()` that fails does not end a load: the modules of `sync` ignore its
ERR_PTR, `kthread_run.c` and `interrupt_add_thread.c` look for NULL, and all of them pass it to `kthread_stop()` at
exit. The model stops that exit function there (`Oops`, and `my_exit` of `IrqLabs`), with the module half unloaded.

A call of `MiscDev` works at the position of its file, which `read()` and `write()` move on, or at one that the
caller of `pread()` or `pwrite()` chooses. `bytes_to_do` is computed as the code does: `maxbytes` is an int, which wraps
modulo `IntWord`, and is compared with a `size_t`, as which a negative value is above every `lbuf`. What the pages hold is left out, inside the area
and beyond it, so a copy that leaves the area has no effect but the one that the property names. Signals come only where
the code looks for them: an earlier one is no different from one that comes just before the test on the queue.

### The drivers, the data structures and the test program

| Module | Files | State | Actors |
|---|---|---|---|
| `ModuleLoad` | 15 modules: `ramdisk-lab/*.c`, `lab-char.c`, `kobject-event.c`, `poll.c`, `data-struct-labs`, `notifier-module.c`, `kprobe.c`, `mod_kmem_cache.c`, `kmalloc.c`, `high_mem.c`, `rammap.c` | what is held, where init or exit is, whether anything failed | insmod, rmmod, the callbacks registered |
| `BlockIO` | `sample_blk.c`, `ramhd_mkreq.c`, `ramhd_req.c` | the sectors, the requests, what each CPU is copying | two CPUs that submit and serve |
| `KobjEvent` | `kobject-event.c` | `flag`, `uevent_suppress`, each store: its command, what it acts on, what became of its event | two writers of the attribute |
| `PollDev` | `poll.c` | the open file, `pd`, its wait queue | two threads that poll, ioctl and close |
| `DataStructs` | `rbtree.c`, `hlist.c`, `list.c` | the tree, the chains, the ring, the operation in progress | one caller |
| `TestDl` | `test-dl.c` | `done`, where `main()` and the thread are, and the state of `DlRq` | the two tasks and the kernel |

`ModuleLoad` writes every init and exit function as a table of its steps in the order of the
code: an acquisition that may fail, with what the function does then (undo a set and
return, go on regardless, skip), a use, or a release. One step of the table is one step of the
model, so a callback may run between any two of them. A use or a release of what is not there is
`misuse`.

While a block module is loaded `BlockIO` runs on what `ModuleLoad` has set up. A request is
a range of sectors that may reach beyond the disk; every segment is copied in a step of
its own, under the queue lock in `ramhd_req.c` and without it in the other two.
`AtomicDisk` is a disk that carries out each request at one instant; `ramhd_req.c` implements it
(`AtomicRequests`, stated in `MC_Drivers` with the mapping of `BlockIO`). `Drivers` puts the request functions,
the attribute of `kobject-event.c` and the file of `poll.c` on top of the loading of their modules.

`KobjEvent` splits `att_store()` at its accesses to what the stores share: it stores `flag`, switches on it (the compiler may
keep the value or read it again), and `kobject_uevent()` tests `uevent_suppress` before it sends. Each store remembers
the commands stored between its own and its switch, and the values `uevent_suppress` has had since it began.

`PollDev` splits `poll()` into the call of `kern_poll()` (which goes on the queue, then
reads), the sleep, and the return; the timeout may end the sleep at any time. What
`kern_poll()` reads before it was ever set is a choice.

`DataStructs` takes one step per turn of a loop. The rotations of `lib/rbtree.c` are
not part of the repository: after an insertion or a removal the tree is any search tree of
the names it should have. The hash of `hlist.c` is computed modulo 2^16, which keeps the bits
`dev_name_hash()` uses.

`TestDl` is the program on one CPU, with the runqueue of `DlRq` under it: the thread makes itself
SCHED_DEADLINE and spins; `main()` sleeps, sets `done` and joins. Nothing but throttling lets
`main()` run.

## Runs

The runqueue. Two tasks in every run: the races are between one task and its timer, or between
two tasks; reservations have runtime 1 to 2 and periods 2 to 4. `MaxClock` bounds time; with
periods of 2 to 4 it covers at least two replenishments of the shorter reservation
in every run that checks budgets.

| Run | Shows |
|---|---|
| `rq_structure` | with yield, boosting and policy changes racing the timer: `TypeOK`; `TreeCoherent` (the tree is in deadline order and its caches agree with it); `ExactlyRunnable` (it holds the runnable unthrottled tasks, all of them and no other); `BugCauses` (a BUG_ON has one of two causes) |
| `rq_cbs` | for two different reservations: `BudgetRules` (no entity is queued without budget ahead of its deadline, no budget exceeds its reservation, no BUG_ON); `PreemptionPending`; `OnlyYieldStuck` and `Replenished` (a throttled task has its timer and is released, unless it yielded) |
| `rq_edf` | `NoDeadlineMiss`: two reservations of total utilisation 1 get their budgets in time |
| `rq_yield` | violated: a task that yields is throttled for good, against the comment at P:3373-3376 |
| `rq_setsched_timer` | violated: the timer callback finds the task queued, against the comment at P:2983-2985 |

`BudgetRules` is checked for tasks that only use their own
reservation (`rq_cbs` has only the service `"yield"`). With `"boost"` it does not hold: a task
without a reservation uses up the budget it was lent, and when it releases the mutex
its lender is gone before it is replenished, from its own reservation of 0:
`BUG_ON(pi_se->dl_runtime <= 0)` (P:2804). The same assertion stops the machine when such a task runs and blocks on a mutex: it is then itself the lender, with nothing
to lend. A late callback can find a boosted task queued. `BugCauses` states that nothing else leads to a
BUG_ON. `PreemptionPending` too is about the services of `rq_cbs`: boosting, its end, and the policy changes of another
task are outside of it. In `rq_structure`, where
all services are on, such a state stops the machine and the other invariants are
checked up to it.

The cpudl heap. Four CPUs give a heap of three levels (the last with one element), so
elements move more than one level in both directions; three deadlines tell a node and
both its children apart. The searches are those of CPU 0 and of no CPU for a task
allowed on two CPUs, and one update at a time overlaps a search.

| Run | Shows |
|---|---|
| `cpudl` | `IndexInverse`, `RootIsLatest`, the refinement `MapSpec`, and `FindBestAlone`: a search that no update overlaps returns the right CPU |
| `cpudl_suitable` | violated: an overlapped search returns a CPU outside the affinity of the task, against the comment at P:2343 |

Admission control. Two root domains of two CPUs, two tasks, reservations of a half and
a quarter of a CPU, and one write to each knob that changes the cap, repeated at will;
u64 is modulo 64, so that a subtraction of too much wraps. Bound (`Calm`): while both handlers are at work no task is dead
or between the locks of two domains; each of these is explored with one handler.

`TotalIsSum` is restricted to tasks that do not come back with the bandwidth they left with (`bw_reenter` shows what
happens then) and to periods other than 0. With `sched_period` = 0 `dl_overflow()` computes a bandwidth of 0 and grants
nothing (P:1342), while `__setparam_dl()` stores runtime / deadline (P:1499-1503), which is given back later:
with `"zero_period"` among the `Services` of `bw`, TLC finds `TotalIsSum` violated by the first call that has such a
parameter, which is why the run leaves the service out.
`OnlyKnobsOvercommit` makes an exception of a disabled knob; the run writes none.

| Run | Shows |
|---|---|
| `bw` | `TotalIsSum`: what a domain has granted is what its tasks hold, for periods other than 0; `UniformCap`: the handlers leave all domains with one cap; `OnlyKnobsOvercommit`; `CycleNeedsFourRunqueues` |
| `bw_reenter` | violated: a task that comes back to the class with the bandwidth it left with is not counted, against the comment at P:1329-1332 |

`bw` does not check for deadlock because the code has one: two opposite migrations
between the domains, on four runqueues, each hold the `dl_b->lock` the other needs
(P:1878-1879), and both sysctl handlers then wait behind them.

Push and pull. Two CPUs, three tasks (one CPU can have a running task and two to push or pull), two deadlines
and affinities that pin a task to CPU 0 or release it: enough for a choice to become stale, for all tries of
`find_lock_later_rq()` to be used, and for both CPUs to push and pull against each other. Bound (`FewAside`): at one time a task is
throttled, or two are pinned, or one is pinned and one has the latest deadline, so that the others are left to migrate. A looser
form of this bound, with four times as many states, was checked too.

| Run | Shows |
|---|---|
| `smp` | `OneRunqueue`: a task is queued on the runqueue of its own CPU only, runs on one CPU, and the BUG_ONs of push, pull and affinity changes are not reached; `OverloadAgrees`: what other CPUs read of a runqueue is coherent (`Published`) and true; `MigratesEarlier`: a task only moves to a CPU where it is earlier than all that is queued, and never while it runs; no deadlock on the runqueue locks |

`OneRunqueue` makes one exception, which the model reaches: `dl_task_timer()` reads `task_rq(p)` before it
takes the lock (P:3001-3002), and a wake-up or a push can move the throttled task in between.
With two CPUs a task that can migrate is allowed everywhere. With three, the search of `cpudl_suitable` that
returns a CPU outside the affinity has a consequence: `find_lock_later_rq()` tests the affinity only if
`double_lock_balance()` dropped the lock (P:3730-3732), so the task is pushed to that CPU.
`MigratesEarlier` makes an exception for just this push; with it, random simulation of three CPUs and four tasks with `MaxDl` 3 (17 million
states) finds no violation of the three properties, and without it, one at once.

Not claimed: that no CPU idles while a task waits that could run there. Two things stand against it. A
woken task with the deadline of the running one is not pushed although another CPU is free: `task_woken_dl()` asks for a
later deadline (P:3970), and `check_preempt_equal_dl()` calls `cpudl_find()` without a mask, which
then ignores the free CPUs (P:3437). And a task whose budget is found exhausted in `put_prev_task_dl()`, after
`pre_schedule_dl()` had nothing to pull, leaves its CPU idle.

The labs. `labs` loads one of the 17 files in each behaviour; the variables of the other
modules stand still, so the state spaces add up. Three processes (two readers that
sleep and a writer) share a memory of one page, with buffers of one page, and `pread()` and `pwrite()` at page 2,
beyond its end (positions so far beyond that `maxbytes` wraps to a positive number are left to the theorem); three interrupts are enough for one to
arrive while another is being handled and a third after that; the atomics are modulo 8, more
than the interrupts, so that a counter that has gone around can be told from one that has not;
the target of `completion.c` is 2 instead of 1234.

| Property | Shows |
|---|---|
| `AreaSafe` | file positions stay in the memory; no copy leaves it but that of a `pread()` or `pwrite()` that starts beyond the end; it is never freed under a process |
| `ReaderWakes` | no reader sleeps through a write: it wakes, or another takes the data |
| `EventsCounted` | `interrupt_thread.c` counts every event, modulo 2^32; tasklet and work item may drop requests, never the last interrupt; `interrupt_add_thread.c` and they count no more events than interrupts (as long as the counter of the interrupts has not wrapped) |
| `OutlivesExit` | after exit nothing runs but in the modules that cancel nothing, or the wrong timer |
| `ExitsReturn` | the exit functions of `interrupt-labs` and `sync` return, unless they oops, or wait for the reader of `completion.c` whose writer could not be created |
| `StablePrint` | no reader prints in the middle of `counter++` |
| `ThreadsStopped` | when an exit function has returned, all threads had been created and have exited; it oopses only if a `kthread_run()` failed, or in `completion.c` |
| `MmapSound` | `mmap.c`: the timer never reads a freed page; error path and exit release everything |

`AreaSafe`, `OutlivesExit`, `ExitsReturn` and `ThreadsStopped` name exceptions; those are what the code does, and the model reaches each. At a position
beyond the end `maxbytes` is negative, and a copy of `lbuf` bytes begins outside of the area (`lab-misc.c:43-48`, `wait_event.c:58-63`). `interrupt_workqueue.c`,
`sched-lab/tasklet.c` and `work_queue.c` do not wait for what they queued, `timer.c`
deletes a timer it never armed, and `completion.c` calls `kthread_stop()` for threads
that exit by themselves. After a failed `kthread_run()` every exit function of `sync`, `kthread_run.c` and `interrupt_add_thread.c`
follows an ERR_PTR, and what it has not stopped by then stays. If it is the writer of `completion.c` that failed, `kthread_stop()`
of the reader comes first and waits for a completion that nobody gives. `EventsCounted` holds modulo 2^32 for a reason: an interrupt
whose event the running thread has already counted starts the thread once more with
`nevents` = 0, and the loop goes through all values of an `atomic_t` before it stops.
Deadlock is not checked because a module that is unloaded stops.

Fairness in `labs`: a process inside the device, a thread, a handler and a bottom half go on
when they can; rmmod goes on once it has begun; nobody has to begin anything. Locks
are strongly fair, because mutexes, ticket locks and queued rwlocks serve in order. `ExitsReturn`
rests on the number of interrupts being finite: nothing in the code bounds how
long a storm of interrupts keeps `free_irq()` waiting.

The drivers. `drivers` chooses one module, or the test program, in each behaviour. Two contexts and
two requests on a disk of two sectors: enough for requests that overlap in one sector, in both, or beyond the end.
Four names make trees of three levels, with the descent going both ways; the hash table has 256 chains
as in the code, where the ten names do not collide, or 4, where they do. `test-dl.c`
has a runtime of 1 in a period of 3, its 10 ms in 30 ms, and 14 units of time, four periods.

| Property | Shows |
|---|---|
| `LoadReleases` | a module whose acquisitions all succeed never uses what is not there (exceptions: `kobject-event.c`, `rammap.c`); an init function that fails releases what it had acquired (exceptions: `lab-char.c`, `ramhd_mkreq.c`, `list.c`, `kobject-event.c`), and an exit function everything (exceptions: `rbtree.c`, where a product taken out of the tree is not freed, and `poll.c`, where `pd` of an open that fails after allocating it is lost) |
| `LiveObjects` | a callback runs only while what it uses is there; `pd` of `poll.c` outlives everybody on its queue |
| `RequestSound` | no copy leaves the disk or its memory; a request fails exactly when it reaches beyond the end |
| `DiskCoherent` | without a lock around a request: a read sees nothing older than what was complete when it began, and a completed write stays until another replaces it |
| `AtomicRequests` | `ramhd_req.c`: every request takes effect at one instant (refinement of `AtomicDisk`) |
| `Served` | every request that is submitted ends |
| `CommandObeyed` | of stores to the attribute that overlap, each acts on its own command or on one stored after it; an event is sent, or dropped, only if events were allowed, or suppressed, at some time during the store |
| `IoctlWakes` | an ioctl wakes whoever polls |
| `TreeSound`, `TreeOperations` | `rbtree.c`: the tree is ordered, a search is right, clearing frees all of two products; a removal touches nothing else, adding a new name ends |
| `ListsSound` | a lookup in `hlist.c` finds its device also in a shared chain; the list of `list.c` is doubly linked at every step and taken apart without touching a freed entry |
| `JoinInTime` | `main()` sets `done` at most one runtime after its sleep ends, and has joined at most one period after |

The exceptions are what the code does, and each is as narrow as the code allows: the property says
what exactly is left behind. `TreeOperations` is about new names because adding a name that is there
never returns (`rbtree.c:93-95`).

Fairness in `drivers`: a request being served, a thread that was woken and an addition in progress
go on. Nobody has to submit, poll or call anything. `JoinInTime` bounds the time instead of
assuming fairness: the clock is that of `DlRq` with `Prompt`.

Fairness in `rq_cbs`: the clock advances, an expired timer is serviced, and a
callback that spins for `rq->lock` gets it (stated as: it does not spin for ever). The first two are what the hrtimer
subsystem does; the third is the ticket spinlock's order. Nothing is assumed of
tasks: no task needs to run, sleep or wake.

Deadlock checking is off where the clock's bound or a BUG_ON stops the model.

## Proofs

Every theorem is for all values of the constants that satisfy the assumptions (`ASSUME`) of
its module: the bounds that make a run finite (of the clock, the deadlines, the requests,
the interrupts) are parameters here, and no constraint of a run applies.

### One runqueue

`DlRq_proofs` proves, for every set of tasks, every set of reservations that
`__checkparam_dl()` accepts, every combination of services and every bound of the
clock:

- `TypeCorrect`: `Spec => []TypeOK`;
- `TreeCorrect`: `Spec => []TreeCoherent`;
- `QueueExact`: `Spec => []ExactlyRunnable`.

Assumptions: the idle task and NULL are not tasks; the parameters pass
`__checkparam_dl()`.

The argument. `IInv` says that the machine state is well typed, the tree is ordered,
the caches agree with it, every queued deadline is positive (0 stands for "no task"
in `earliest_dl.curr`, so without this `TreeCoherent` is not inductive), and every
task is `Fit`: in the tree only if it may be, and not lost. In the middle of an operation
on task p all of this holds except `Fit` of p, so the lemmas about the functions
of deadline.c are stated with `Safe(m, X)`, where X is the set of tasks exempt: dequeueing makes p
exempt, enqueueing (or a BUG_ON) settles the debt. Two lemmas carry the weight:
inserting into an ordered tree keeps it ordered, and removing keeps the rest in
order; both are proved by locating the place of insertion as the least index, since
induction over sequences is not available.

`DlRq_edf` proves what the class promises on top of that:

- `BudgetCorrect`: `Spec /\ OwnServices => []BudgetRules`;
- `ThrottlingCorrect`: `Spec /\ OwnServices => []OnlyYieldStuck`;
- `PreemptionCorrect`: `Spec /\ YieldOnly => []PreemptionPending`.

The conditions are about the constant `Services`. `OwnServices` leaves out boosting and policy changes
under way, with each of which TLC finds `BudgetRules` violated on the instance of `rq_cbs`; tasks yield, and are made
SCHED_DEADLINE by themselves or by others. `YieldOnly`, the services of `rq_cbs`, also leaves out the second: `switched_to_dl()`
asks for a preemption only if the running task is itself of the class, so a task that another one
makes SCHED_DEADLINE waits while a normal task runs.

`CbsInv` says of every task one of two things. It was never of the class, and is
not throttled and has no timer (`Fair`). Or it lives on its own reservation
(`OwnBudget`), its timer agrees with `dl_throttled` (`Timed`), and it is throttled, or about to get a new instance, or `Funded`: it has budget
or its deadline has come. The last disjunct is what the replenishing code can really
give: an instance that ends at this very instant may be queued without budget.
`Kept(m, X)` states it inside an operation. The lemmas about
`replenish_dl_entity()` and `update_dl_entity()` show that the loops and the overflow test leave a budget
in the reservation, whatever the overrun.
`EdfInv` says that the running task is runnable, and is either marked TIF_NEED_RESCHED or `Leads`:
it is in the tree, if it is of the class, and no queued task is earlier. Each
operation either keeps `Leads` or marks the task, which `check_preempt_curr_dl()`, `update_curr_dl()` and
`dl_task_timer()` do on different paths.

Only model-checked: `NoDeadlineMiss` (utilisation is a sum over all tasks and their
past, beyond an invariant of the state), `BugCauses`, and `Replenished` (liveness).

### The root domain

`RootDomain_proofs` proves of cpudl, for every number of CPUs and every bound of the deadlines,
`TypeCorrect`, `IndexCorrect` (`Spec => []IndexInverse`), `HeapCorrect` (`Spec =>
[]RootIsLatest`), `FindCorrect` (`Spec => []FindBestAlone`) and `Refinement`
(`Spec => MapSpec`). The inductive invariant adds to these: the heap is in order
except around the place the current loop works on, where the children are in order
with the grandparent (`HeapOrder`); what each loop knows of that place (`Place`: when the
last element is removed the place is the one just after the heap, and neither loop may
touch it); the mask lags the index by the CPU being set (`Mask`); and what a search has established
so far (`Search`). That the root of an ordered heap is its maximum follows from the
least place whose deadline exceeds the root's: its parent would be smaller. That
there is room for a new CPU is the pigeonhole principle on the index.

Of admission control it proves `CapCorrect` (`BwSpec => []UniformCap`) and `CycleCorrect`
(`BwSpec => []CycleNeedsFourRunqueues`) for any tasks, CPUs,
root domains, reservations and any values written to the knobs. For the first the inductive invariant `BwInv`
adds that at most one handler holds `dl_runtime_lock`, and that while one stores its
cap the domains of the CPUs it has passed have that cap, and so, at the end of the loop,
all domains. For the second, `Apart` says that a migration between the locks of two domains holds the two runqueues it goes from
and to, and shares neither with another migration.

Only model-checked: `TotalIsSum`, since sums over sets need induction, and `OnlyKnobsOvercommit`, which depends on it.

### Several CPUs

For any finite sets of CPUs and tasks, any bound of the deadlines and any affinities:

- `OneRunqueueHolds`: `Spec => []OneRunqueue`;
- `PublishedHolds`: `Spec => []Published`, the first half of `OverloadAgrees`.

`DlSmp_ops` has a lemma for each operation on runqueues, as predicates of a machine
state: `Good(m, X)` says that tasks are where they say (`Placed`, where X is the task
being woken, queued before it is `on_rq`), that pushable trees and `dl_nr_migratory` agree
with the tree (`Counted`), and that what is published agrees with the runqueues
(`Shown`, with the runqueues whose mark is being updated exempt). `DlSmp_steps` has the inductive invariant `SmpInv` and one lemma
for each step of wake-up, tick, timer and `schedule()`; `DlSmp_proofs` those of push, pull and affinity.

`SmpInv` adds to `Good`: no running task is pushable; what each CPU may rely on between
two of its steps (`Local`: the locks it holds; that the task it is about to push is still
queued, as long as it has kept the lock; that the task it wakes is on no runqueue and runs
nowhere; that the task of its timer is still throttled); and that no two CPUs wake the same task or serve the same timer (`Apart`).
`Local` is where the dropped locks of `double_lock_balance()` matter: a CPU that waits for both locks
relies on nothing, and the test after them has to establish everything again. Numbers of tasks appear through facts about the cardinality of finite sets
(`Counting`), which are proved once from the library's.

Only model-checked: that `earliest_dl.curr` is the deadline of the first task in the tree (the rest of `OverloadAgrees`; the order of a tree is proved for `DlRq`), and
`MigratesEarlier`.

### The labs and the drivers

`Labs_proofs` proves `AreaSafe`, `EventsCounted`, `OutlivesExit`, `StablePrint`, `ThreadsStopped` and `MmapSound`
for any processes, any size of the memory and of a buffer, any positions given to `pread()` and `pwrite()`, any number of interrupts, any width of the counters and any target of
`completion.c`. The composition has one inductive invariant per module
(`IrqInv`, `SyncInv`, `DeferredInv`, `MiscInv`), and a step of one module leaves the variables of the others alone. For `AreaSafe` the
memory and a buffer are assumed to be below half of the values of an int (`PositionAssumption`), as they are in the code: then `ramdisk_size - *ppos` is exact for every position
in the area, and a copy that leaves it starts beyond the end. `MiscInv` relates the stages of loading and unloading to the memory and to who has the device open. `EventsCounted` rests on
a balance modulo the width of an `atomic_t`: what the bottom half has counted and what is still in `nevents`, less what the handler has counted, is 0 but for
the step each is in.

`Drivers_proofs` proves, for any number of CPUs, requests and sectors and any commands:
`RequestSound`, `DiskCoherent`, `LiveObjects` and `CommandObeyed`. The inductive invariant `DriversInv` relates
the row of the init or exit function to what is held (`Buffers` for the disks, `Objects` for callbacks and attributes); a
request that has not ended keeps the module loaded, and so the buffer of its disk (`Busy`); a worker is inside a request of its own that has started (`Working`); and
`Copies` says of every sector that a write has copied that it is on the disk, or was replaced by a write that overlaps it
or came later, and of every sector that a read has copied that it was on the disk meanwhile. `DiskCoherent` is about whole requests,
and is not inductive without the segments. For `CommandObeyed` the invariant says of every store under way that `flag` is
its command or a later one until it switches, and that the present value of `uevent_suppress` is among those it has seen (`Sound`).

Only model-checked: `ReaderWakes`, `ExitsReturn`, `Served` and `IoctlWakes` (liveness); `LoadReleases`, which is about 15 pairs of fixed tables that
TLC goes through completely; `AtomicRequests`; `TreeSound`, `TreeOperations` and `ListsSound`, whose
operators are recursive; and `JoinInTime`, which is about the numbers of `test-dl.c`.

## Not modelled

- On several CPUs: policy changes (`switched_to_dl()`, `prio_changed_dl()`), boosting, CPU hotplug
  (`rq_online_dl()`, `rq_offline_dl()`) and the stopper thread that moves a task off a CPU that its new affinity excludes.
- rt_mutex: the waiter trees and the walk along the chain of owners are in `kernel/rtmutex.c`, of which the
  patch shows fragments. Their effect on the runqueue is in `DlRq`.
- `rq->nr_running`: it belongs to `core.c`, and nothing says what it must count for throttled tasks.
- Deadlines beyond 2^63 ns (292 years), where a new element of cpudl would be sifted the wrong way.
- KVM test programs (a straight sequence of ioctls), the page-table exercises of mmap-root, print-only
  modules, generated files of `ramdisk-lab`, schedstats and tracing (no decision reads them),
  and the other user-space programs, which appear as the environment of the modules.
