------------------------------ MODULE MC_DlSmp ------------------------------
(* DlSmp for TLC.  The tasks start alike, and any of them may start on any  *)
(* CPU.                                                                     *)
EXTENDS DlSmp, TLC

Symmetry == Permutations(Task)

\* Bound: a task is throttled, or two are pinned, or one is pinned and one is at MaxDl.
FewAside ==
    4 * Cardinality({p \in Task : tsk[p].throttled})
        + 2 * Cardinality({p \in Task : tsk[p].allowed # Cpu})
        + 3 * Cardinality({p \in Task : tsk[p].dl = MaxDl}) <= 5
=============================================================================
