------------------------------ MODULE MC_DlRq ------------------------------
EXTENDS DlRq, TLC

Prm(q, d, p) == [sched_runtime |-> q, sched_deadline |-> d, sched_period |-> p]

\* An implicit-deadline and a constrained-deadline reservation.
MC_Params == {Prm(1, 2, 0), Prm(2, 3, 4)}
MC_Full == {Prm(1, 2, 0), Prm(2, 4, 0)}
MC_One == {Prm(1, 2, 0)}

Symmetry == Permutations(Task)
=============================================================================
