---------------------------- MODULE DeferredLabs ----------------------------
(***************************************************************************)
(* Deferred functions and the unloading of the module they belong to:       *)
(* sched-lab/tasklet.c, sched-lab/work_queue.c, timer-labs/timer.c,         *)
(* timer-labs/hrtimer.c, and mmap-labs/mmap.c, whose timer arms itself       *)
(* again and reads a page that is part of the device's resources.          *)
(*                                                                         *)
(* my_exit() and the function interleave at every call.  From the kernel:   *)
(* a function runs once for each time it is queued, and the synchronous      *)
(* cancellations return when it is neither queued nor running.             *)
(***************************************************************************)
EXTENDS Integers

VARIABLES
    lab,            \* which module is loaded
    pc,             \* where my_init() or my_exit() is
    held,           \* what the module has acquired and not released
    queued,         \* the tasklet, the work item or the timer is pending
    fun,            \* where the deferred function is
    status          \* the flag work_queue.c stops its function with

vars == <<lab, pc, held, queued, fun, status>>

DeferredModules == {"sched_tasklet", "work_queue", "timer", "hrtimer", "mmap"}

Init ==
    /\ pc = "init" /\ held = {} /\ queued = FALSE /\ fun = "idle" /\ status = TRUE
-----------------------------------------------------------------------------
(* my_init(), demo_map_init()                                              *)

\* What the labels of demo_map_init() release: each also what follows it.
add_err    == {"region", "cdev", "page"}
region_err == {"cdev", "page"}
cdev_err   == {"page"}

\* One acquisition: it succeeds and the next one follows, or it fails.
Acquire(from, what, to, label) ==
    /\ pc = from
    /\ \/ pc' = to /\ held' = held \cup {what}
       \/ pc' = "failed" /\ held' = held \ label
    /\ UNCHANGED <<lab, queued, fun, status>>

alloc_pages == lab = "mmap" /\ Acquire("init", "page", "cdev_alloc", {})
cdev_alloc  == Acquire("cdev_alloc", "cdev", "alloc_chrdev_region", cdev_err)

alloc_chrdev_region == Acquire("alloc_chrdev_region", "region", "cdev_add", region_err)
cdev_add == Acquire("cdev_add", "added", "add_timer", add_err)

\* The last call of each my_init(): the function is queued, or its timer armed.
Queue(module, from) ==
    /\ lab = module /\ pc = from
    /\ pc' = "loaded" /\ queued' = TRUE
    /\ UNCHANGED <<lab, held, fun, status>>

tasklet_schedule == Queue("sched_tasklet", "init")
schedule_work    == Queue("work_queue", "init")
add_timer        == Queue("timer", "init")
hrtimer_start    == Queue("hrtimer", "init")
add_timer_mmap   == Queue("mmap", "add_timer")

my_init ==
    \/ alloc_pages \/ cdev_alloc \/ alloc_chrdev_region \/ cdev_add \/ add_timer_mmap
    \/ tasklet_schedule \/ schedule_work \/ add_timer \/ hrtimer_start
-----------------------------------------------------------------------------
(* The deferred functions.                                                 *)

\* The kernel takes the function off its queue and calls it.
Run ==
    /\ queued /\ fun = "idle"
    /\ queued' = FALSE
    /\ fun' = "running"
    /\ UNCHANGED <<lab, pc, held, status>>

\* The function returns; again: it has armed its timer.
Return(module, again) ==
    /\ lab = module /\ fun = "running"
    /\ fun' = "idle"
    /\ queued' = (queued \/ again)
    /\ UNCHANGED <<lab, pc, held, status>>

t_fun               == Return("sched_tasklet", FALSE)
thr_fun_work        == ~status /\ Return("work_queue", FALSE)   \* while (status)
thr_fun_timer       == Return("timer", FALSE)
my_hrtimer_callback == Return("hrtimer", FALSE)
timer_func          == Return("mmap", TRUE)

Function ==
    Run \/ t_fun \/ thr_fun_work \/ thr_fun_timer \/ my_hrtimer_callback \/ timer_func
-----------------------------------------------------------------------------
(* The exit functions.                                                     *)

Leave(modules, to) ==
    /\ lab \in modules /\ pc = "loaded"
    /\ pc' = to
    /\ UNCHANGED <<lab, held, queued, fun>>

my_exit_tasklet == Leave({"sched_tasklet"}, "gone") /\ UNCHANGED status
my_exit_work    == Leave({"work_queue"}, "gone") /\ status' = FALSE
\* del_timer(&my_timer): not the timer that was armed.
my_exit_timer   == Leave({"timer"}, "gone") /\ status' = FALSE

\* Mutant: the timer of mmap.c is forgotten.
my_exit_cancel_NoTimer ==
    /\ \/ Leave({"hrtimer"}, "cancel")
       \/ Leave({"mmap"}, "cdev_del")
    /\ UNCHANGED status

my_exit_cancel == Leave({"hrtimer", "mmap"}, "cancel") /\ UNCHANGED status

\* Mutant: what is queued is cancelled, what runs is not waited for.
cancel_Async ==
    /\ pc = "cancel"
    /\ queued' = FALSE
    /\ pc' = IF lab = "mmap" THEN "cdev_del" ELSE "gone"
    /\ UNCHANGED <<lab, held, fun, status>>

\* hrtimer_cancel(), del_timer_sync()
cancel ==
    /\ pc = "cancel" /\ fun = "idle"
    /\ queued' = FALSE
    /\ pc' = IF lab = "mmap" THEN "cdev_del" ELSE "gone"
    /\ UNCHANGED <<lab, held, fun, status>>

Release(from, what, to) ==
    /\ pc = from
    /\ pc' = to
    /\ held' = held \ what
    /\ UNCHANGED <<lab, queued, fun, status>>

cdev_del                 == Release("cdev_del", {"added", "cdev"}, "unregister")
unregister_chrdev_region == Release("unregister", {"region"}, "free_pages")
free_pages               == Release("free_pages", {"page"}, "gone")

my_exit ==
    \/ my_exit_tasklet \/ my_exit_work \/ my_exit_timer \/ my_exit_cancel
    \/ cancel \/ cdev_del \/ unregister_chrdev_region \/ free_pages

Next == lab \in DeferredModules /\ (my_init \/ Function \/ my_exit)
-----------------------------------------------------------------------------
(* Properties.                                                             *)

\* timer_func() reads the page only while it is mapped, at whatever point of
\* demo_map_exit() it fires.
PageMapped == lab = "mmap" /\ fun = "running" => "page" \in held

\* demo_map_init() that fails, and demo_map_exit(), leave nothing acquired.
NothingHeld == pc \in {"failed", "gone"} => held = {}

\* After my_exit() the function may still run in the three modules that cancel
\* nothing, or the wrong timer, and in no other.
OnlyUncancelledSurvive ==
    pc = "gone" /\ (queued \/ fun # "idle") => lab \in {"sched_tasklet", "work_queue", "timer"}
=============================================================================
