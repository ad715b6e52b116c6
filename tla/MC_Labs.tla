------------------------------ MODULE MC_Labs -------------------------------
(* The kernel modules of the labs for TLC: one of them is loaded, and the   *)
(* variables of the others do not move.                                    *)
EXTENDS Integers, FiniteSets

CONSTANTS Proc, ramdisk_size, MaxBuf, Position, IntWord, MaxIrq, Word, Target

ASSUME LabsAssumption ==
    /\ ramdisk_size \in Nat /\ MaxBuf \in Nat /\ MaxIrq \in Nat
    /\ Word \in Nat \ {0} /\ Target \in Nat

\* The sizes are int, and no position is negative.
ASSUME PositionAssumption ==
    /\ Position \subseteq Nat /\ IntWord \in Nat
    /\ 2 * ramdisk_size < IntWord /\ 2 * MaxBuf < IntWord

VARIABLES lab,
    dev, ramdisk, data_ready, proc,
    mod, irqs, data, hard, soft,
    up, down, thread, stopping, counter, tmp, comp,
    pc, held, queued, fun, status

Misc     == INSTANCE MiscDev
Irq      == INSTANCE IrqLabs
Sync     == INSTANCE SyncLabs
Deferred == INSTANCE DeferredLabs

miscVars     == <<dev, ramdisk, data_ready, proc>>
irqVars      == <<mod, irqs, data, hard, soft>>
syncVars     == <<up, down, thread, stopping, counter, tmp, comp>>
deferredVars == <<pc, held, queued, fun, status>>

Init ==
    /\ lab \in Misc!MiscModules \cup Irq!IrqModules \cup Sync!SyncModules
               \cup Deferred!DeferredModules
    /\ Misc!Init /\ Irq!Init /\ Sync!Init /\ Deferred!Init

Next ==
    \/ Misc!Next /\ UNCHANGED <<irqVars, syncVars, deferredVars>>
    \/ Irq!Next /\ UNCHANGED <<miscVars, syncVars, deferredVars>>
    \/ Sync!Next /\ UNCHANGED <<miscVars, irqVars, deferredVars>>
    \/ Deferred!Next /\ UNCHANGED <<miscVars, irqVars, syncVars>>

Spec ==
    /\ Init
    /\ [][Next]_<<lab, miscVars, irqVars, syncVars, deferredVars>>
    /\ Misc!Fairness /\ Irq!Fairness /\ Sync!Fairness
-----------------------------------------------------------------------------
(* The properties, which the modules explain.                              *)

\* lab-misc.c and wait_event.c: positions and copies stay in the area, except a pread() or
\* pwrite() beyond its end, and the area is not freed in use.
AreaSafe == Misc!AreaSafe
\* wait_event.c: a reader that sleeps while data is ready wakes, or another takes the data.
ReaderWakes == Misc!ReaderWakes
\* interrupt-labs: the threaded handler loses no event, tasklet and work item never the last
\* one, and what is not the threaded handler counts no more events than interrupts.
EventsCounted == Irq!AllEventsCounted /\ Irq!LastInterruptSeen /\ Irq!NoPhantomEvent
\* interrupt-labs, sched-lab, timer-labs: what may run after my_exit().
OutlivesExit == Irq!OnlyWorkSurvives /\ Deferred!OnlyUncancelledSurvive
\* interrupt-labs, sync: my_exit() and my_mod_exit() return, unless a thread they count on
\* could not be created.
ExitsReturn == Irq!ExitReturns /\ Sync!ThreadsStop
\* sync: the counter is printed between updates.
StablePrint == Sync!StablePrint
\* sync: my_mod_exit() leaves no thread, and stops what is none only if one could not be
\* created, or in completion.c.
ThreadsStopped == Sync!NoThreadLeft /\ Sync!OopsCauses
\* mmap.c: the timer function reads a page that is mapped; a failed demo_map_init() and
\* demo_map_exit() release everything.
MmapSound == Deferred!PageMapped /\ Deferred!NothingHeld
=============================================================================
