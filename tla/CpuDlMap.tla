------------------------------ MODULE CpuDlMap ------------------------------
(***************************************************************************)
(* What kernel/sched/cpudeadline.c promises its callers: a map from CPUs   *)
(* to the earliest deadline queued there, in which one CPU at a time       *)
(* records or withdraws its own entry.  CpuDl implements it with a heap.   *)
(***************************************************************************)
EXTENDS Integers

CONSTANTS CPU, MaxDl, None

VARIABLE best       \* the earliest deadline of every CPU, or None

Init == best = [c \in CPU |-> None]

Set(c, dl) == best' = [best EXCEPT ![c] = dl]
Clear(c)   == best[c] # None /\ best' = [best EXCEPT ![c] = None]

Next == \E c \in CPU : Clear(c) \/ \E dl \in 1 .. MaxDl : Set(c, dl)

Spec == Init /\ [][Next]_best
=============================================================================
