------------------------------ MODULE IrqLabs -------------------------------
(***************************************************************************)
(* The interrupt handlers of interrupt-labs and their bottom halves:        *)
(* "thread"      a threaded handler (interrupt_thread.c),                  *)
(* "add_thread"  a kernel thread on a wait queue (interrupt_add_thread.c),  *)
(* "tasklet", "work"   (interrupt_tasklet.c, interrupt_workqueue.c).       *)
(*                                                                         *)
(* Handler, bottom half and module_exit interleave at every access to what  *)
(* they share.  From the kernel: a handler is not entered again before it   *)
(* returns; an irq thread, a tasklet or a work item that is requested while  *)
(* it runs runs once more; a request that is already pending is dropped.    *)
(* kthread_run() may return an ERR_PTR, which interrupt_add_thread.c takes   *)
(* for a thread.                                                           *)
(* jiffies is the number of interrupts so far.                             *)
(***************************************************************************)
EXTENDS Integers

CONSTANTS MaxIrq,       \* interrupts in a behaviour
          Word          \* the modulus of atomic_t

VARIABLES
    lab,            \* which module is loaded
    mod,            \* where my_exit() is
    irqs,           \* interrupts so far
    data,           \* counter_th, counter_bh, nevents, cond and my_data.jiffies
    hard,           \* the handler
    soft            \* the bottom half: where it is, whether it is requested or asleep on
                    \* the wait queue, and the jiffies it printed last

vars == <<lab, mod, irqs, data, hard, soft>>

IrqModules == {"thread", "add_thread", "tasklet", "work"}

\* my_init()
Init ==
    /\ mod = "loaded" /\ irqs = 0 /\ hard = "idle"
    /\ data = [th |-> 0, bh |-> 0, nevents |-> 0, cond |-> TRUE, jiffies |-> 0]
    /\ \E at \in IF lab = "add_thread" THEN {"created", "failed"} ELSE {"idle"} :
          soft = [pc |-> at, pending |-> FALSE, interruptible |-> FALSE, seen |-> 0]

Inc(n) == (n + 1) % Word
Dec(n) == (n - 1) % Word
-----------------------------------------------------------------------------
(* my_interrupt()                                                          *)

Registered == mod \in {"loaded", "stop", "free", "oops"}

Enter ==
    /\ Registered /\ hard = "idle" /\ irqs < MaxIrq
    /\ irqs' = irqs + 1
    /\ data' = [data EXCEPT !.th = Inc(@)]
    /\ hard' = IF lab = "thread" THEN "count" ELSE "store"
    /\ UNCHANGED <<lab, mod, soft>>

\* interrupt_thread.c
CountEvent ==
    /\ hard = "count"
    /\ data' = [data EXCEPT !.nevents = Inc(@)]
    /\ hard' = "request"
    /\ UNCHANGED <<lab, mod, irqs, soft>>

\* data->jiffies = jiffies
StoreJiffies ==
    /\ hard = "store"
    /\ data' = [data EXCEPT !.jiffies = irqs]
    /\ hard' = IF lab = "add_thread" THEN "set" ELSE "request"
    /\ UNCHANGED <<lab, mod, irqs, soft>>

\* return IRQ_WAKE_THREAD, tasklet_schedule(), schedule_work()
Request ==
    /\ hard = "request"
    /\ soft' = [soft EXCEPT !.pending = TRUE]
    /\ hard' = "idle"
    /\ UNCHANGED <<lab, mod, irqs, data>>

\* interrupt_add_thread.c: the condition, then the wake-up.
SetCond ==
    /\ hard = "set"
    /\ data' = [data EXCEPT !.cond = TRUE]
    /\ hard' = "wake"
    /\ UNCHANGED <<lab, mod, irqs, soft>>

wake_up ==
    /\ hard = "wake"
    /\ soft' = [soft EXCEPT !.interruptible = FALSE]
    /\ hard' = "idle"
    /\ UNCHANGED <<lab, mod, irqs, data>>

HandlerStep == CountEvent \/ StoreJiffies \/ Request \/ SetCond \/ wake_up
-----------------------------------------------------------------------------
(* The bottom halves: thread_run(), the two t_fun() and thr_fun().         *)

Go(pc) == soft' = [soft EXCEPT !.pc = pc] /\ UNCHANGED data

\* The kernel clears the request before it calls the function.
Start ==
    /\ soft.pc = "idle" /\ soft.pending
    /\ soft' = [soft EXCEPT !.pc = "count", !.pending = FALSE]
    /\ UNCHANGED data

CountBh ==
    /\ soft.pc = "count"
    /\ data' = [data EXCEPT !.bh = Inc(@)]
    /\ soft' = [soft EXCEPT !.pc = IF lab = "thread" THEN "dec" ELSE "print"]

\* Mutant: all events so far are taken for one.
DecAndTest_Clear ==
    /\ soft.pc = "dec"
    /\ data' = [data EXCEPT !.nevents = 0]
    /\ soft' = [soft EXCEPT !.pc = "idle"]

\* while (!atomic_dec_and_test(&nevents)), for interrupt_thread.c
DecAndTest ==
    /\ soft.pc = "dec"
    /\ data' = [data EXCEPT !.nevents = Dec(@)]
    /\ soft' = [soft EXCEPT !.pc = IF data'.nevents = 0 THEN "idle" ELSE "count"]

PrintJiffies ==
    /\ soft.pc = "print"
    /\ soft' = [soft EXCEPT !.pc = IF lab = "add_thread" THEN "loop" ELSE "idle",
                            !.seen = data.jiffies]
    /\ UNCHANGED data

\* thr_fun(); kthread_stop() before the thread first runs keeps it from being called.
kthread_should_stop == mod # "loaded"
Created == soft.pc = "created" /\ Go(IF kthread_should_stop THEN "exited" ELSE "reset")

ResetCond ==
    /\ soft.pc = "reset"
    /\ data' = [data EXCEPT !.cond = FALSE]
    /\ soft' = [soft EXCEPT !.pc = "test"]

\* Mutant: only an interrupt ends the wait.
WaitCond_NoStop == data.cond

WaitCond == kthread_should_stop \/ data.cond

\* wait_event_interruptible(): test, go on the queue, test again, schedule().
Test == soft.pc = "test" /\ Go(IF WaitCond THEN "check" ELSE "prepare")
PrepareToWait ==
    /\ soft.pc = "prepare"
    /\ soft' = [soft EXCEPT !.pc = "recheck", !.interruptible = TRUE]
    /\ UNCHANGED data
Recheck ==
    /\ soft.pc = "recheck"
    /\ soft' = IF WaitCond THEN [soft EXCEPT !.pc = "check", !.interruptible = FALSE]
               ELSE [soft EXCEPT !.pc = "sleep"]
    /\ UNCHANGED data
Woken == soft.pc = "sleep" /\ ~soft.interruptible /\ Go("prepare")

CheckCond == soft.pc = "check" /\ Go(IF data.cond THEN "count" ELSE "print")
Loop      == soft.pc = "loop" /\ Go(IF kthread_should_stop THEN "exited" ELSE "reset")

BottomHalf ==
    /\ \/ Start \/ CountBh \/ DecAndTest \/ PrintJiffies \/ Created \/ ResetCond
       \/ Test \/ PrepareToWait \/ Recheck \/ Woken \/ CheckCond \/ Loop
    /\ UNCHANGED <<lab, mod, irqs, hard>>
-----------------------------------------------------------------------------
(* my_exit()                                                               *)

Done == ~soft.pending /\ soft.pc = "idle"
Leave(next) == mod' = next /\ UNCHANGED <<lab, irqs, data, hard, soft>>

\* kthread_stop() wakes the thread, or follows an ERR_PTR and leaves the handler where it
\* is; the other modules go on to free_irq().
my_exit ==
    /\ mod = "loaded"
    /\ mod' = CASE soft.pc = "failed" -> "oops"
                [] soft.pc # "failed" /\ lab = "add_thread" -> "stop"
                [] lab # "add_thread" -> "free"
    /\ soft' = [soft EXCEPT !.interruptible = FALSE]
    /\ UNCHANGED <<lab, irqs, data, hard>>

Stopped == mod = "stop" /\ soft.pc = "exited" /\ Leave("free")

\* synchronize_irq() and free_irq() wait for the handler and for its thread.
free_irq ==
    /\ mod = "free" /\ hard = "idle"
    /\ lab = "thread" => Done
    /\ Leave(IF lab = "tasklet" THEN "kill" ELSE "gone")

tasklet_kill == mod = "kill" /\ Done /\ Leave("gone")

Exit == Stopped \/ free_irq \/ tasklet_kill

Next == lab \in IrqModules /\ (Enter \/ HandlerStep \/ BottomHalf \/ my_exit \/ Exit)

\* Handlers, softirqs, workers and threads run, and so does rmmod once it has begun.
Fairness ==
    /\ WF_vars(lab \in IrqModules /\ HandlerStep)
    /\ WF_vars(lab \in IrqModules /\ BottomHalf)
    /\ WF_vars(lab \in IrqModules /\ Exit)
-----------------------------------------------------------------------------
(* Properties.                                                             *)

Quiet == hard = "idle" /\ Done

\* interrupt_thread.c: interrupts that arrive while thread_run() counts down are not
\* lost: when nothing is left to do every event has been counted, modulo 2^32.
AllEventsCounted == lab = "thread" /\ Quiet => data.nevents = 0 /\ data.bh = data.th

\* Tasklet and work item: requests that arrive while one is pending are dropped, but the
\* time of the last interrupt is always printed.
LastInterruptSeen == lab \in {"tasklet", "work"} /\ Quiet => soft.seen = data.jiffies

\* The other bottom halves count at most one event for each interrupt, although cond
\* starts as 1.  (The counters can be compared until counter_th wraps around.)
NoPhantomEvent == lab # "thread" /\ irqs < Word => data.bh <= data.th

\* After my_exit() nothing of the module runs or is about to, with one exception:
\* the work item of interrupt_workqueue.c, which nobody flushes.
OnlyWorkSurvives ==
    mod = "gone" => /\ hard = "idle"
                    /\ lab # "work" => ~soft.pending /\ soft.pc \in {"idle", "exited"}

\* my_exit() returns: neither the sleeping thread nor the counting one keeps it.  Only
\* where there is no thread to stop it oopses.
ExitReturns == mod # "loaded" ~> mod = "gone" \/ (mod = "oops" /\ soft.pc = "failed")
=============================================================================
