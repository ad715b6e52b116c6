------------------------------ MODULE SyncLabs ------------------------------
(***************************************************************************)
(* Kernel threads and what protects their counter: sync/atomic.c, mutex.c,  *)
(* spinlock.c, rw_lock.c and completion.c, and sched-lab/kthread_run.c,     *)
(* whose only thread shares nothing.                                       *)
(*                                                                         *)
(* counter++ is a load and a store, except on atomic_t.  From the kernel:   *)
(* kthread_stop() waits until the thread has exited; a thread that is       *)
(* stopped before it first runs exits at once; the task_struct of a thread   *)
(* that exits by itself is gone, and stopping it is undefined.  A            *)
(* kthread_run() that fails returns an ERR_PTR: the modules keep it without   *)
(* a look, or look for NULL (kthread_run.c), and stop it in the end.         *)
(***************************************************************************)
EXTENDS Integers, Sequences, FiniteSets

CONSTANTS Word,         \* the modulus of unsigned int
          Target        \* 1234 in completion.c

VARIABLES
    lab,            \* which module is loaded
    up,             \* kthread_run() calls done
    down,           \* kthread_stop() calls done; -1 before my_mod_exit(), -2 after an oops
    thread,         \* where each thread is; "failed": it could not be created
    stopping,       \* threads that kthread_stop() has been called for
    counter, tmp,   \* tmp: the value counter++ has loaded
    comp            \* complete() has been called

vars == <<lab, up, down, thread, stopping, counter, tmp, comp>>

SyncModules == {"atomic", "mutex", "spinlock", "rw_lock", "completion", "kthread_run"}

W == "write_thread"
Thread == {"read_thread", "read_thread2", "read_thread3", W}
Reader == Thread \ {W}

\* The order in which my_mod_init() creates the threads; my_mod_exit() stops them
\* in the same order.
Order ==
    CASE lab = "rw_lock"     -> <<"read_thread", "read_thread2", "read_thread3", W>>
      [] lab = "kthread_run" -> <<"read_thread">>
      [] OTHER               -> <<"read_thread", W>>

Init ==
    /\ up = 0 /\ down = -1
    /\ thread = [t \in Thread |-> "none"]
    /\ stopping = {}
    /\ counter = 0 /\ tmp = 0 /\ comp = FALSE
-----------------------------------------------------------------------------
Goto(t, pc) == thread' = [thread EXCEPT ![t] = pc]
data        == <<counter, tmp, comp>>
module      == <<lab, up, down, stopping>>

kthread_should_stop(t) == t \in stopping

Begin(t) ==
    /\ thread[t] = "created"
    /\ Goto(t, IF kthread_should_stop(t) THEN "exited" ELSE "loop")
    /\ UNCHANGED <<module, data>>

\* while (!kthread_should_stop()), or what takes its place in completion.c
Loop(t) ==
    /\ thread[t] = "loop"
    /\ Goto(t, CASE lab # "completion" -> IF kthread_should_stop(t) THEN "exited" ELSE "lock"
                 [] lab = "completion" /\ t # W -> "lock"
                 [] lab = "completion" /\ t = W ->
                        IF counter # Target THEN "lock" ELSE "complete")
    /\ UNCHANGED <<module, data>>

Inside(t) == thread[t] \in {"inside", "store", "unlock"}

\* Mutant: readers share the lock with the writer.
MayEnter_Shared(t) == t = W => \A r \in Thread : ~Inside(r)

\* Each lock, and the completion for which a reader waits.
MayEnter(t) ==
    CASE lab \in {"mutex", "spinlock"} -> \A u \in Thread : ~Inside(u)
      [] lab = "rw_lock" -> IF t = W THEN \A u \in Thread : ~Inside(u) ELSE ~Inside(W)
      [] lab = "completion" -> t = W \/ comp
      [] lab \in {"atomic", "kthread_run"} -> TRUE

Lock(t) ==
    /\ thread[t] = "lock" /\ MayEnter(t)
    /\ Goto(t, "inside")
    /\ UNCHANGED <<module, data>>

\* The body: a reader prints, the writer counts.  atomic_inc() is one step.
PrintCounter(t) ==
    /\ t # W /\ thread[t] = "inside"
    /\ Goto(t, "unlock")
    /\ UNCHANGED <<module, data>>
Load ==
    /\ thread[W] = "inside"
    /\ IF lab = "atomic" THEN counter' = (counter + 1) % Word /\ Goto(W, "unlock") /\ UNCHANGED tmp
       ELSE tmp' = counter /\ Goto(W, "store") /\ UNCHANGED counter
    /\ UNCHANGED <<module, comp>>
Store ==
    /\ thread[W] = "store"
    /\ counter' = (tmp + 1) % Word
    /\ Goto(W, "unlock")
    /\ UNCHANGED <<module, tmp, comp>>

\* Unlock and msleep(), or do_exit() of the reader of completion.c.
Unlock(t) ==
    /\ thread[t] = "unlock"
    /\ Goto(t, IF lab = "completion" /\ t # W THEN "exited" ELSE "loop")
    /\ UNCHANGED <<module, data>>

complete ==
    /\ thread[W] = "complete"
    /\ comp' = TRUE
    /\ Goto(W, "exited")
    /\ UNCHANGED <<module, counter, tmp>>

Step(t) == Begin(t) \/ Loop(t) \/ PrintCounter(t) \/ Unlock(t)
Writer  == Load \/ Store \/ complete
-----------------------------------------------------------------------------
kthread_run ==
    /\ up < Len(Order)
    /\ up' = up + 1
    /\ \E result \in {"created", "failed"} : Goto(Order[up + 1], result)
    /\ UNCHANGED <<lab, down, stopping, data>>

my_mod_exit ==
    /\ up = Len(Order) /\ down = -1
    /\ down' = 0
    /\ UNCHANGED <<lab, up, thread, stopping, data>>

ToStop == IF down \in 0 .. Len(Order) - 1 THEN {Order[down + 1]} ELSE {}

kthread_stop(t) ==
    /\ t \in ToStop /\ t \notin stopping /\ thread[t] # "failed"
    /\ stopping' = stopping \cup {t}
    /\ UNCHANGED <<lab, up, down, thread, data>>

\* Mutant: the thread is told to stop, but not waited for.
Stopped_AtOnce(t) ==
    /\ t \in ToStop /\ t \in stopping
    /\ down' = down + 1
    /\ UNCHANGED <<lab, up, thread, stopping, data>>

Stopped(t) ==
    /\ t \in ToStop /\ t \in stopping /\ thread[t] = "exited"
    /\ down' = down + 1
    /\ UNCHANGED <<lab, up, thread, stopping, data>>

\* kthread_stop() of a thread that is gone uses a task_struct that may be free, that of
\* an ERR_PTR follows it.  rmmod ends there, and the module stays half unloaded.
Oops(t) ==
    /\ t \in ToStop \ stopping /\ thread[t] \in {"exited", "failed"}
    /\ down' = -2
    /\ UNCHANGED <<lab, up, thread, stopping, data>>

Exit == \E t \in Thread : kthread_stop(t) \/ Stopped(t) \/ Oops(t)

Next ==
    /\ lab \in SyncModules
    /\ kthread_run \/ my_mod_exit \/ Exit \/ Writer \/ \E t \in Thread : Step(t) \/ Lock(t)

\* Threads run, rmmod goes on once it has begun, and the locks are first come,
\* first served: whoever waits while a lock is free again and again gets it.
Fairness ==
    /\ WF_vars(lab \in SyncModules /\ Writer)
    /\ WF_vars(lab \in SyncModules /\ Exit)
    /\ \A t \in Thread : /\ WF_vars(lab \in SyncModules /\ Step(t))
                         /\ SF_vars(lab \in SyncModules /\ Lock(t))
-----------------------------------------------------------------------------
(* Properties.                                                             *)

Gone == down = Len(Order)

\* Whatever protects the counter, no reader prints it in the middle of counter++,
\* and the reader of completion.c prints the final value.
StablePrint ==
    \A r \in Reader : thread[r] = "inside" =>
        thread[W] # "store" /\ (lab = "completion" => counter = Target)

\* When my_mod_exit() returns none of the threads is left, and each had been created.
NoThreadLeft == Gone => \A t \in Thread : thread[t] \in {"none", "exited"}

\* my_mod_exit() stops what is no thread for two reasons only: a thread could not be
\* created, or it is completion.c, where both threads exit by themselves.
OopsCauses == down = -2 => lab = "completion" \/ \E t \in Thread : thread[t] = "failed"

\* my_mod_exit() returns, where it does not oops.  If the writer of completion.c could not
\* be created, it waits for a reader that waits for complete().
ThreadsStop ==
    down = 0 ~> Gone \/ down = -2 \/ (lab = "completion" /\ thread[W] = "failed")
=============================================================================
