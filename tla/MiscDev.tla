------------------------------ MODULE MiscDev -------------------------------
(***************************************************************************)
(* The character devices char-device-labs/lab-misc.c and                   *)
(* wait-event-labs/wait_event.c: a memory area behind a misc device.  They  *)
(* are one program, except that a read of the second sleeps until a write   *)
(* announces data in data_ready.                                           *)
(*                                                                         *)
(* The wait queue and the module loader are the kernel's: a process is on   *)
(* the queue while its state is TASK_INTERRUPTIBLE, and a module is         *)
(* unloaded only while nobody has it open.  A call works at a position: the *)
(* file's, which read() and write() move on, or one that the caller of      *)
(* pread() or pwrite() chooses and that is not kept.  Memory is counted in  *)
(* pages, and what they hold, inside the area or out of it, is left out.    *)
(***************************************************************************)
EXTENDS Integers, FiniteSets

CONSTANTS
    Proc, ramdisk_size, MaxBuf,     \* processes, pages, largest lbuf
    Position,                       \* positions pread() and pwrite() are given
    IntWord                         \* the values of an int

VARIABLES
    lab,            \* which module is loaded
    dev,            \* the module: out, loading, registered, going, unlisted
    ramdisk,        \* it is allocated
    data_ready,
    proc            \* per process: where it is, the position of its file, that of its call
                    \* and whether the call moves the file's, its state and its signal

vars == <<lab, dev, ramdisk, data_ready, proc>>

MiscModules == {"lab-misc", "wait_event"}

Closed == [pc |-> "closed", ppos |-> 0, at |-> 0, moves |-> FALSE,
           interruptible |-> FALSE, signal |-> FALSE]

Init ==
    /\ dev = "out" /\ ramdisk = FALSE /\ data_ready = FALSE
    /\ proc = [p \in Proc |-> Closed]
-----------------------------------------------------------------------------
Goto(p, pc) == proc' = [proc EXCEPT ![p].pc = pc]
Returned(p) == Goto(p, "open")

\* .owner = THIS_MODULE: an open file holds a reference to the module.
Pinned(p) == proc[p].pc # "closed"

\* A failed kmalloc() leaves everything as it is.
my_generic_init ==
    /\ dev = "out"
    /\ dev' = "loading" /\ ramdisk' = TRUE /\ data_ready' = FALSE
    /\ UNCHANGED <<lab, proc>>

\* A registration that fails takes the module out; the next one has a ramdisk of its own.
misc_register ==
    /\ dev = "loading"
    /\ \/ dev' = "registered" /\ ramdisk' = ramdisk
       \/ dev' = "out" /\ ramdisk' = FALSE
    /\ UNCHANGED <<lab, data_ready, proc>>

delete_module ==
    /\ dev = "registered" /\ \A p \in Proc : ~Pinned(p)
    /\ dev' = "going"
    /\ UNCHANGED <<lab, ramdisk, data_ready, proc>>

misc_deregister ==
    /\ dev = "going"
    /\ dev' = "unlisted"
    /\ UNCHANGED <<lab, ramdisk, data_ready, proc>>

my_generic_exit ==
    /\ dev = "unlisted"
    /\ dev' = "out" /\ ramdisk' = FALSE
    /\ UNCHANGED <<lab, data_ready, proc>>

\* misc_open() finds the device and takes a reference to a module that is not going.
mycdev_generic_open(p) ==
    /\ dev = "registered" /\ proc[p].pc = "closed"
    /\ proc' = [proc EXCEPT ![p] = [Closed EXCEPT !.pc = "open"]]
    /\ UNCHANGED <<lab, dev, ramdisk, data_ready>>

mycdev_generic_release(p) ==
    /\ proc[p].pc = "open"
    /\ proc' = [proc EXCEPT ![p] = Closed]
    /\ UNCHANGED <<lab, dev, ramdisk, data_ready>>

\* Mutant: the end of the area is forgotten.
bytes_to_do_NoEnd(pos, lbuf) == lbuf

\* maxbytes, an int, is compared as an unsigned number: a negative one is above every lbuf.
bytes_to_do(pos, lbuf) ==
    LET low      == (ramdisk_size - pos) % IntWord
        maxbytes == IF 2 * low < IntWord THEN low ELSE low - IntWord
    IN  IF maxbytes < 0 \/ maxbytes > lbuf THEN lbuf ELSE maxbytes

\* *ppos: read() and write() work at the file's position, pread() and pwrite() at any.
TakePosition(p, pc) ==
    \/ proc' = [proc EXCEPT ![p].pc = pc, ![p].at = proc[p].ppos, ![p].moves = TRUE]
    \/ \E pos \in Position :
          proc' = [proc EXCEPT ![p].pc = pc, ![p].at = pos, ![p].moves = FALSE]

\* copy_to_user() and copy_from_user() may stop early.
Copy(p, pc) ==
    \E lbuf \in 0 .. MaxBuf : \E nbytes \in 0 .. bytes_to_do(proc[p].at, lbuf) :
        proc' = [proc EXCEPT
            ![p] = [proc[p] EXCEPT !.pc = pc, !.at = 0, !.moves = FALSE,
                        !.ppos = IF proc[p].moves THEN proc[p].at + nbytes ELSE @]]
-----------------------------------------------------------------------------
(* read(): wait_event_interruptible(wq, data_ready), then the copy.        *)

\* The wait is over before it begins if there is data.
ReadStart(p) ==
    /\ proc[p].pc = "open"
    /\ IF lab = "wait_event" THEN Goto(p, IF data_ready THEN "awake" ELSE "prepare")
       ELSE TakePosition(p, "read")
    /\ UNCHANGED <<lab, dev, ramdisk, data_ready>>

\* Once more when schedule() returns.
prepare_to_wait(p) ==
    /\ \/ proc[p].pc = "prepare"
       \/ proc[p].pc = "sleep" /\ ~proc[p].interruptible
    /\ proc' = [proc EXCEPT ![p].pc = "recheck", ![p].interruptible = TRUE]
    /\ UNCHANGED <<lab, dev, ramdisk, data_ready>>

\* The condition, then a signal, ends the wait; otherwise schedule().
Recheck(p) ==
    /\ proc[p].pc = "recheck"
    /\ IF data_ready \/ proc[p].signal
       THEN proc' = [proc EXCEPT ![p].pc = "awake", ![p].interruptible = FALSE]
       ELSE Goto(p, "sleep")
    /\ UNCHANGED <<lab, dev, ramdisk, data_ready>>

\* signal_pending(): -ERESTARTSYS, and the signal is taken on the way out.
Interrupted(p) ==
    /\ proc[p].pc = "awake"
    /\ IF proc[p].signal
       THEN proc' = [proc EXCEPT ![p].pc = "open", ![p].signal = FALSE]
       ELSE TakePosition(p, "read")
    /\ UNCHANGED <<lab, dev, ramdisk, data_ready>>

mycdev_generic_read(p) ==
    /\ proc[p].pc = "read"
    /\ Copy(p, IF lab = "wait_event" THEN "clear" ELSE "open")
    /\ UNCHANGED <<lab, dev, ramdisk, data_ready>>

ReadDone(p) ==
    /\ proc[p].pc = "clear"
    /\ data_ready' = FALSE
    /\ Returned(p)
    /\ UNCHANGED <<lab, dev, ramdisk>>
-----------------------------------------------------------------------------
(* write(): copy, announce, wake.                                          *)

WriteStart(p) ==
    /\ proc[p].pc = "open"
    /\ TakePosition(p, "write")
    /\ UNCHANGED <<lab, dev, ramdisk, data_ready>>

mycdev_generic_write(p) ==
    /\ proc[p].pc = "write"
    /\ Copy(p, IF lab = "wait_event" THEN "announce" ELSE "open")
    /\ UNCHANGED <<lab, dev, ramdisk, data_ready>>

Announce(p) ==
    /\ proc[p].pc = "announce"
    /\ data_ready' = TRUE
    /\ Goto(p, "wake")
    /\ UNCHANGED <<lab, dev, ramdisk>>

\* Mutant: one reader is woken.
wake_up_One(p) ==
    LET Sleepers == {q \in Proc : proc[q].interruptible}
    IN  /\ proc[p].pc = "wake"
        /\ \/ Sleepers = {} /\ Returned(p)
           \/ \E q \in Sleepers : proc' = [proc EXCEPT ![p].pc = "open", ![q].interruptible = FALSE]
        /\ UNCHANGED <<lab, dev, ramdisk, data_ready>>

wake_up(p) ==
    /\ proc[p].pc = "wake"
    /\ proc' = [q \in Proc |-> [proc[q] EXCEPT !.interruptible = FALSE,
                                               !.pc = IF q = p THEN "open" ELSE @]]
    /\ UNCHANGED <<lab, dev, ramdisk, data_ready>>

\* A signal makes a process in an interruptible sleep runnable.  Nothing looks for one
\* before the test on the queue, so that an earlier one is no different.
Signal(p) ==
    /\ lab = "wait_event" /\ proc[p].pc \in {"recheck", "sleep", "awake"}
    /\ proc' = [proc EXCEPT ![p].signal = TRUE, ![p].interruptible = FALSE]
    /\ UNCHANGED <<lab, dev, ramdisk, data_ready>>

\* What a process does once it is in the device; the rest is its choice.
Inside(p) ==
    \/ prepare_to_wait(p) \/ Recheck(p) \/ Interrupted(p)
    \/ mycdev_generic_read(p) \/ ReadDone(p)
    \/ mycdev_generic_write(p) \/ Announce(p) \/ wake_up(p)

Next ==
    /\ lab \in MiscModules
    /\ \/ my_generic_init \/ misc_register
       \/ delete_module \/ misc_deregister \/ my_generic_exit
       \/ \E p \in Proc :
             \/ mycdev_generic_open(p) \/ mycdev_generic_release(p)
             \/ ReadStart(p) \/ WriteStart(p) \/ Signal(p) \/ Inside(p)

\* A process that can run does.
Fairness == \A p \in Proc : WF_vars(lab \in MiscModules /\ Inside(p))
-----------------------------------------------------------------------------
(* Properties.                                                             *)

\* The call of process p is about to copy, and may copy something outside of the area.
LeavesArea(p) ==
    /\ proc[p].pc \in {"read", "write"}
    /\ \E lbuf \in 1 .. MaxBuf : LET n == bytes_to_do(proc[p].at, lbuf)
                                IN  n > 0 /\ proc[p].at + n > ramdisk_size

\* The file positions stay in the area, every copy stays in it but those of a pread() or
\* pwrite() that starts beyond its end, where maxbytes is negative and bounds nothing; and
\* the memory is there under every process that has the device open, whatever loading and
\* unloading do in the meantime.
AreaSafe == \A p \in Proc : /\ proc[p].ppos \in 0 .. ramdisk_size
                            /\ LeavesArea(p) => ~proc[p].moves /\ proc[p].at > ramdisk_size
                            /\ proc[p].pc # "closed" => ramdisk

\* A reader that sleeps while data_ready is set wakes up, or another reader takes
\* the data.
ReaderWakes ==
    \A p \in Proc : proc[p].pc = "sleep" /\ data_ready ~> proc[p].pc # "sleep" \/ ~data_ready
=============================================================================
