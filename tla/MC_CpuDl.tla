------------------------------ MODULE MC_CpuDl ------------------------------
(* CpuDl for TLC: the searches are those of one CPU or of no CPU, for a     *)
(* task that may run on two CPUs only, and one update overlaps a search.    *)
EXTENDS CpuDl

OneOverlap == find.pc = "idle" \/ find.alone

MC_Next ==
    \/ cpudl_heapify \/ cpudl_change_key \/ MoveUp \/ MoveLast
    \/ OneOverlap /\ \E cpu \in CPU : Remove(cpu) \/ \E dl \in 1 .. MaxDl : Insert(cpu, dl)
    \/ \E cpu \in {-1, 0} : cpudl_find(cpu, 1, {0, 1})
    \/ cpudl_maximum \/ FindLater \/ FindBest \/ FindReturn
MC_Spec == Init /\ [][MC_Next]_vars
=============================================================================
