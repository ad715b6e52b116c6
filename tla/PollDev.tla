------------------------------ MODULE PollDev -------------------------------
(***************************************************************************)
(* The poll device, poll-labs/poll.c: the threads of one process share an     *)
(* open file, poll it, wake each other by ioctl() and close it.             *)
(*                                                                         *)
(* kern_open() has no return statement and kern_poll() returns a mask that    *)
(* nothing sets: both values are whatever the register or the stack held.    *)
(* From the VFS: a system call holds a reference to the file, and the last    *)
(* one to go calls release(); poll() calls the driver, sleeps unless it was   *)
(* woken since, and calls it again.                                        *)
(***************************************************************************)
EXTENDS ModuleLoad

VARIABLES
    fd,         \* the descriptor is open
    state,      \* pd->state
    wq,         \* who is queued on pd->wq
    call,       \* the poll() of each thread
    owed        \* history: threads an ioctl() found in poll() and that have not woken since

pollVars == <<fd, state, wq, call, owed>>

POLLIN == 1
User   == [at |-> "user", triggered |-> FALSE]

PollInit == fd = FALSE /\ state = 0 /\ wq = {} /\ call = [c \in Ctx |-> User] /\ owed = {}

Polling == {c \in Ctx : call[c].at # "user"}

\* IS_ERR() does not see that kmalloc() failed.  If the value happens not to be 0 the
\* open fails, and nobody has a reference to pd.
kern_open ==
    /\ lab = "poll" /\ mod.at = "loaded" /\ ~fd /\ Polling = {}
    /\ \/ /\ fd' = TRUE /\ state' = 0 /\ wq' = {}
          /\ held' = held \cup {"pd"} /\ busy' = busy \cup {"file"}
          /\ UNCHANGED <<lab, mod, call, owed>>
       \/ held' = held \cup {"lost pd"} /\ UNCHANGED <<lab, mod, busy, pollVars>>
       \/ /\ mod' = [mod EXCEPT !.at = "misuse", !.failed = TRUE]
          /\ UNCHANGED <<lab, held, busy, pollVars>>

\* A reference goes; with the last one the VFS calls kern_release().
Fput(open, users) ==
    IF open \/ users # {} THEN UNCHANGED <<held, busy>>
    ELSE held' = held \ {"pd"} /\ busy' = busy \ {"file"}

\* Mutant: the thread is not queued.
kern_poll_NoWait(c) ==
    /\ UNCHANGED wq
    /\ call' = [call EXCEPT ![c].at = "polled"]

\* kern_poll(), the first time and after a wake-up: poll_wait() queues the thread.
kern_poll(c) ==
    /\ wq' = wq \cup {c}
    /\ call' = [call EXCEPT ![c].at = "polled"]

poll(c) ==
    /\ (call[c].at = "user" /\ fd) \/ call[c].at = "woken"
    /\ kern_poll(c)
    /\ UNCHANGED <<lab, mod, held, busy, fd, state, owed>>

\* The mask has a bit poll() waits for, or its time is over: it leaves the queue and
\* returns.
poll_return(c) ==
    /\ call[c].at \in {"polled", "asleep"}
    /\ call' = [call EXCEPT ![c] = User]
    /\ wq' = wq \ {c}
    /\ owed' = owed \ {c}
    /\ Fput(fd, Polling \ {c})
    /\ UNCHANGED <<lab, mod, fd, state>>

\* It has none: the thread sleeps until it is triggered.
poll_schedule(c) ==
    /\ \/ call[c].at = "polled" /\ call' = [call EXCEPT ![c].at = "asleep"] /\ UNCHANGED owed
       \/ /\ call[c].at = "asleep" /\ call[c].triggered
          /\ call' = [call EXCEPT ![c] = [at |-> "woken", triggered |-> FALSE]]
          /\ owed' = owed \ {c}
    /\ UNCHANGED <<lab, mod, held, busy, fd, state, wq>>

\* Commands 1 (WAKE) and 2 (RESET).
kern_unlocked_ioctl(c) ==
    /\ fd /\ call[c].at = "user"
    /\ state' \in {POLLIN, 0}
    /\ call' = [o \in Ctx |-> IF o \in wq THEN [call[o] EXCEPT !.triggered = TRUE] ELSE call[o]]
    /\ owed' = owed \cup {o \in Ctx : call[o].at \in {"polled", "asleep"}}
    /\ UNCHANGED <<lab, mod, held, busy, fd, wq>>

close(c) ==
    /\ fd /\ call[c].at = "user"
    /\ fd' = FALSE
    /\ Fput(FALSE, Polling)
    /\ UNCHANGED <<lab, mod, state, wq, call, owed>>

PollNext ==
    /\ lab = "poll" /\ mod.at # "misuse"
    /\ \/ kern_open
       \/ \E c \in Ctx :
             \/ poll(c) \/ poll_return(c) \/ poll_schedule(c)
             \/ kern_unlocked_ioctl(c) \/ close(c)

\* What fairness is assumed of: a thread goes to sleep, and one that was woken runs.
PollProgress(c) == lab = "poll" /\ (poll_schedule(c) \/ (call[c].at = "woken" /\ poll(c)))
-----------------------------------------------------------------------------
(* Properties.                                                             *)

\* pd outlives every poll() that uses it, also when another thread closes the file
\* meanwhile, and it is not freed while somebody is queued on pd->wq.
PdLive == lab = "poll" /\ (fd \/ Polling # {} \/ wq # {}) => "pd" \in held

\* A thread that an ioctl() finds in poll() calls kern_poll() again: between the
\* driver's poll_wait() and the sleep no wake-up is lost.
IoctlWakes == \A c \in Ctx : c \in owed ~> c \notin owed
=============================================================================
