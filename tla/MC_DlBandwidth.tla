--------------------------- MODULE MC_DlBandwidth ---------------------------
(* DlBandwidth for TLC.  Bandwidths are multiples of a quarter of a CPU.    *)
EXTENDS DlBandwidth, TLC

Prm(q, d, p) == [sched_runtime |-> q, sched_deadline |-> d, sched_period |-> p]

\* Half of a CPU, a quarter, and half of a CPU by its deadline: a period of 0 means the deadline.
MC_Params == {Prm(1, 2, 2), Prm(1, 4, 4), Prm(1, 2, 0)}

\* The default of 95% and 40%, coarsely.
MC_Default == [rt_period |-> 4, rt_runtime |-> 3, dl_runtime |-> 2]

\* The quota of all -rt tasks becomes 100%, that of -deadline tasks 25%.
MC_Writes == {[handler |-> "rt", knob |-> "rt_runtime", value |-> 4],
              [handler |-> "dl", knob |-> "dl_runtime", value |-> 1]}

\* Two root domains of two CPUs.
MC_rd == [c \in 0 .. 3 |-> IF c >= 2 THEN "B" ELSE "A"]

Symmetry == Permutations(Task)

\* Bound: while both handlers are at work no task is dead or between the locks of two domains.
Calm ==
    \/ \E h \in {"rt", "dl"} : hnd[h].pc = "idle"
    \/ \A p \in Task : tsk[p].policy # "DEAD" /\ mig[p] = {}
=============================================================================
