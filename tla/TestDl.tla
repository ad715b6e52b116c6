------------------------------- MODULE TestDl -------------------------------
(***************************************************************************)
(* The program patch-dl/test-dl.c on the runqueue of DlRq: main() starts a    *)
(* thread that makes itself SCHED_DEADLINE and spins until done is set, sleeps, *)
(* sets done and joins it.  There is one CPU: only the throttling of the      *)
(* spinning thread lets main() reach the line that ends the loop.           *)
(*                                                                         *)
(* A unit of time is 10 ms.  A step of the program, but for the loop, takes   *)
(* less: the clock does not tick while the running task has one to take.    *)
(***************************************************************************)
EXTENDS DlRq

CONSTANTS Main, Thread

VARIABLES
    lab,
    done,       \* the volatile flag
    prog        \* where main() and run_deadline() are; woke: when main()'s sleep ended

dlVars   == <<clock, rq, dl, tsk>>
progVars == <<done, prog>>

Init_test == Init /\ done = FALSE /\ prog = [main |-> "create", thread |-> "none", woke |-> 0]

At(p, m, t) == Running /\ rq.curr = p /\ prog.main \in m /\ prog.thread \in t

\* The 10 ms / 30 ms reservation.
attr == [sched_runtime |-> 1, sched_deadline |-> 3, sched_period |-> 3]

exec_main == wake_up(Main) /\ prog.main = "create" /\ UNCHANGED progVars

pthread_create ==
    /\ At(Main, {"create"}, {"none"})
    /\ Commit(Activate(M, Thread)) /\ UNCHANGED clock
    /\ prog' = [prog EXCEPT !.main = "sleep", !.thread = "start"]
    /\ UNCHANGED done

\* sleep(10), and the timer that ends it.
sleep ==
    \/ /\ At(Main, {"sleep"}, {"start", "spin"})
       /\ schedule(TRUE)
       /\ prog' = [prog EXCEPT !.main = "asleep"] /\ UNCHANGED done
    \/ /\ prog.main = "asleep"
       /\ wake_up(Main)
       /\ prog' = [prog EXCEPT !.main = "set", !.woke = clock] /\ UNCHANGED done

set_done ==
    /\ At(Main, {"set"}, {"start", "spin"})
    /\ done' = TRUE
    /\ prog' = [prog EXCEPT !.main = "join"]
    /\ UNCHANGED dlVars

\* pthread_join() waits for the thread; both tasks end by sleeping for ever.
pthread_join ==
    \/ /\ At(Main, {"join"}, {"start", "spin"})
       /\ schedule(TRUE)
       /\ prog' = [prog EXCEPT !.main = "joining"] /\ UNCHANGED done
    \/ /\ At(Main, {"join", "woken"}, {"dead"})
       /\ schedule(TRUE)
       /\ prog' = [prog EXCEPT !.main = "dead"] /\ UNCHANGED done

\* sched_setattr() succeeds, or the whole process exits.
run_deadline ==
    /\ At(Thread, {"sleep", "asleep", "set", "join", "joining"}, {"start"})
    /\ \/ /\ setscheduler_dl(Thread, attr)
          /\ prog' = [prog EXCEPT !.thread = "spin"] /\ UNCHANGED done
       \/ /\ done' = FALSE /\ prog' = [prog EXCEPT !.main = "exited", !.thread = "exited"]
          /\ UNCHANGED dlVars

\* while (!done) has ended: the thread dies, and wakes the one that joins it.
thread_dies ==
    /\ At(Thread, {"join", "joining", "woken"}, {"spin", "dying"}) /\ done
    /\ IF prog.main = "joining"
       THEN /\ Commit(Activate(M, Main)) /\ UNCHANGED clock
            /\ prog' = [prog EXCEPT !.main = "woken", !.thread = "dying"]
       ELSE schedule(TRUE) /\ prog' = [prog EXCEPT !.thread = "dead"]
    /\ UNCHANGED done

Program ==
    exec_main \/ pthread_create \/ sleep \/ set_done \/ pthread_join \/ run_deadline \/ thread_dies

\* The running task is about to take a step of the program.
Busy ==
    \/ rq.curr = Main /\ prog.main \in {"create", "sleep", "set", "join", "woken"}
    \/ rq.curr = Thread /\ (prog.thread \in {"start", "dying"} \/ (prog.thread = "spin" /\ done))

Kernel ==
    /\ \/ ClockTick /\ ~Busy
       \/ task_tick_dl
       \/ schedule(FALSE) /\ rq.curr \in rq.resched
       \/ \E p \in Task : TimerFire(p) \/ dl_task_timer(p)
    /\ UNCHANGED progVars

TestNext == lab = "test_dl" /\ (Program \/ Kernel) /\ UNCHANGED lab

-----------------------------------------------------------------------------
\* main() sets done at most a budget, and joins the thread at most a period
\* after its sleep ended, although the thread spins on the only CPU.
JoinInTime ==
    prog.woke # 0 =>
        /\ prog.main = "set" => clock <= prog.woke + attr.sched_runtime
        /\ prog.main \in {"join", "joining", "woken"} =>
              clock <= prog.woke + attr.sched_period
=============================================================================
