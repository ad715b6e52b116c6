-------------------------------- MODULE CpuDl --------------------------------
(***************************************************************************)
(* kernel/sched/cpudeadline.c: a max-heap of the earliest deadline of every *)
(* CPU that has -deadline tasks, with an index from CPUs to heap places and *)
(* a mask of the CPUs that have none.  push_dl_task() asks it where to send *)
(* a task.                                                                 *)
(*                                                                         *)
(* cpudl_set() runs under cp->lock; every iteration of its loops is a step *)
(* here, because cpudl_find() reads the root and the mask without the lock. *)
(* One caller of cpudl_find() is enough: it writes nothing.                *)
(*                                                                         *)
(* Deadlines stay below 2^63, so dl_time_before() is <, and every CPU is   *)
(* in cpu_active_mask.                                                     *)
(***************************************************************************)
EXTENDS RootDomain

CONSTANT MaxDl      \* bound on the deadlines

ASSUME SizeAssumption == NCPU \in Nat \ {0} /\ MaxDl \in Nat

IDX_INVALID == -1

VARIABLES
    size, elements, cpu_to_idx, free_cpus,      \* struct cpudl
    set,        \* the cpudl_set() that holds cp->lock, if any
    find        \* a cpudl_find() in progress

heap == <<size, elements, cpu_to_idx, free_cpus>>
vars == <<size, elements, cpu_to_idx, free_cpus, set, find>>

\* "key": about to call cpudl_change_key; "up", "down": in one of its loops;
\* "remove": in the loop that moves the last element, put in place of the removed
\* one, up.
Unlocked == [pc |-> "unlocked", cpu |-> 0, idx |-> 0, dl |-> 0, fresh |-> FALSE]
Setting ==
    [pc : {"unlocked", "key", "up", "down", "remove"}, cpu : CPU, idx : CPU,
     dl : 0 .. MaxDl, fresh : BOOLEAN]

NotFinding ==
    [pc |-> "idle", cpu |-> 0, dl |-> 0, allowed |-> {}, max |-> 0, ret |-> -1, alone |-> TRUE]
Finding ==
    [pc : {"idle", "max", "later", "best", "done"}, cpu : CPU \cup {-1}, dl : 0 .. MaxDl,
     allowed : SUBSET CPU, max : CPU, ret : CPU \cup {-1},
     alone : BOOLEAN]       \* no cpudl_set() overlaps this search

\* cpudl_init()
Init ==
    /\ size = 0
    /\ elements = [i \in CPU |-> [dl |-> 0, cpu |-> 0]]
    /\ cpu_to_idx = [c \in CPU |-> IDX_INVALID]
    /\ free_cpus = CPU
    /\ set = Unlocked
    /\ find = NotFinding
-----------------------------------------------------------------------------
parent(i)      == (i - 1) \div 2
left_child(i)  == 2 * i + 1
right_child(i) == 2 * i + 2

dl_time_before(a, b) == a < b

\* Mutant: the index is left alone.
cpudl_exchange_NoIndex(a, b) ==
    /\ elements' = [elements EXCEPT ![a] = elements[b], ![b] = elements[a]]
    /\ UNCHANGED cpu_to_idx

cpudl_exchange(a, b) ==
    LET cpu_a == elements[a].cpu
        cpu_b == elements[b].cpu
    IN  /\ elements' = [elements EXCEPT ![a] = elements[b], ![b] = elements[a]]
        /\ cpu_to_idx' = [cpu_to_idx EXCEPT ![cpu_a] = cpu_to_idx[cpu_b],
                                            ![cpu_b] = cpu_to_idx[cpu_a]]

\* Mutant: the right child is compared with the parent, not with the larger of both.
Largest_OfParent(idx) ==
    LET l == left_child(idx)
        r == right_child(idx)
    IN  IF r < size /\ dl_time_before(elements[idx].dl, elements[r].dl) THEN r
        ELSE IF l < size /\ dl_time_before(elements[idx].dl, elements[l].dl) THEN l ELSE idx

\* The larger of idx and its children: one iteration of cpudl_heapify().
Largest(idx) ==
    LET l == left_child(idx)
        r == right_child(idx)
        m == IF l < size /\ dl_time_before(elements[idx].dl, elements[l].dl) THEN l ELSE idx
    IN  IF r < size /\ dl_time_before(elements[m].dl, elements[r].dl) THEN r ELSE m

\* A search that a cpudl_set() overlaps is no longer alone.
Disturb == find' = [find EXCEPT !.alone = find.pc = "idle"]

\* The lock is released; a CPU that was added is no longer free.
Release ==
    /\ set' = Unlocked
    /\ free_cpus' = IF set.fresh THEN free_cpus \ {set.cpu} ELSE free_cpus

cpudl_heapify ==
    /\ set.pc = "down"
    /\ LET largest == Largest(set.idx)
       IN  IF largest = set.idx THEN Release /\ UNCHANGED <<elements, cpu_to_idx>>
           ELSE /\ cpudl_exchange(largest, set.idx)
                /\ set' = [set EXCEPT !.idx = largest]
                /\ UNCHANGED free_cpus
    /\ UNCHANGED size /\ Disturb

\* cpudl_change_key() stores the key ...
cpudl_change_key ==
    /\ set.pc = "key"
    /\ elements' = [elements EXCEPT ![set.idx].dl = set.dl]
    /\ set' = [set EXCEPT !.pc = IF dl_time_before(set.dl, elements[set.idx].dl)
                                 THEN "down" ELSE "up"]
    /\ UNCHANGED <<size, cpu_to_idx, free_cpus>> /\ Disturb

\* ... and moves an element that has become later up (the other case is cpudl_heapify).
MustRise(idx) == idx > 0 /\ dl_time_before(elements[parent(idx)].dl, elements[idx].dl)
Rise ==
    /\ cpudl_exchange(set.idx, parent(set.idx))
    /\ set' = [set EXCEPT !.idx = parent(set.idx)]
    /\ UNCHANGED <<size, free_cpus>>

MoveUp ==
    /\ set.pc = "up"
    /\ \/ MustRise(set.idx) /\ Rise
       \/ ~MustRise(set.idx) /\ Release /\ UNCHANGED <<size, elements, cpu_to_idx>>
    /\ Disturb

\* The loop of the removal; then the CPU is marked free and cpudl_heapify() called.
MoveLast ==
    /\ set.pc = "remove"
    /\ \/ MustRise(set.idx) /\ Rise
       \/ /\ ~MustRise(set.idx)
          /\ free_cpus' = free_cpus \cup {set.cpu}
          /\ set' = [set EXCEPT !.pc = "down"]
          /\ UNCHANGED <<size, elements, cpu_to_idx>>
    /\ Disturb

\* A search for the runqueue of cpu holds its lock: cpudl_set() waits.
Locked(cpu) == find.pc \notin {"idle", "done"} /\ find.cpu = cpu

\* Mutant: the last element moves without its deadline.
Remove_CpuOnly(cpu) ==
    LET old_idx == cpu_to_idx[cpu]
        new_cpu == elements[size - 1].cpu
    IN  /\ set.pc = "unlocked" /\ ~Locked(cpu)
        /\ old_idx # IDX_INVALID
        /\ elements' = [elements EXCEPT ![old_idx].cpu = new_cpu]
        /\ size' = size - 1
        /\ cpu_to_idx' = [cpu_to_idx EXCEPT ![new_cpu] = old_idx, ![cpu] = IDX_INVALID]
        /\ set' = [pc |-> "remove", cpu |-> cpu, idx |-> old_idx, dl |-> 0, fresh |-> FALSE]
        /\ UNCHANGED free_cpus /\ Disturb

\* cpudl_set(cp, cpu, 0, 0); a CPU that is not in the heap changes nothing.
Remove(cpu) ==
    LET old_idx == cpu_to_idx[cpu]
        new_cpu == elements[size - 1].cpu
    IN  /\ set.pc = "unlocked" /\ ~Locked(cpu)
        /\ old_idx # IDX_INVALID
        /\ elements' = [elements EXCEPT ![old_idx] = elements[size - 1]]
        /\ size' = size - 1
        /\ cpu_to_idx' = [cpu_to_idx EXCEPT ![new_cpu] = old_idx, ![cpu] = IDX_INVALID]
        /\ set' = [pc |-> "remove", cpu |-> cpu, idx |-> old_idx, dl |-> 0, fresh |-> FALSE]
        /\ UNCHANGED free_cpus /\ Disturb

\* cpudl_set(cp, cpu, dl, 1): a CPU that is new to the heap goes last.
Insert(cpu, dl) ==
    LET old_idx == cpu_to_idx[cpu]
        Call(idx, fresh) == [pc |-> "key", cpu |-> cpu, idx |-> idx, dl |-> dl, fresh |-> fresh]
    IN  /\ set.pc = "unlocked" /\ ~Locked(cpu)
        /\ \/ /\ old_idx = IDX_INVALID
              /\ size' = size + 1
              /\ elements' = [elements EXCEPT ![size] = [dl |-> 0, cpu |-> cpu]]
              /\ cpu_to_idx' = [cpu_to_idx EXCEPT ![cpu] = size]
              /\ set' = Call(size, TRUE)
           \/ /\ old_idx # IDX_INVALID
              /\ set' = Call(old_idx, FALSE)
              /\ UNCHANGED <<size, elements, cpu_to_idx>>
        /\ UNCHANGED free_cpus /\ Disturb
-----------------------------------------------------------------------------
(* cpudl_find(), with a mask to fill (find_later_rq) or without one        *)
(* (check_preempt_equal_dl, from a runqueue that is in the heap).          *)

Found(f, ret) == find' = [f EXCEPT !.pc = "done", !.ret = ret] /\ UNCHANGED <<heap, set>>

cpudl_find(cpu, dl, allowed) ==
    LET f == [pc |-> "idle", cpu |-> cpu, dl |-> dl, allowed |-> allowed, max |-> 0,
              ret |-> -1, alone |-> set.pc = "unlocked"]
        later_mask == IF cpu = -1 THEN free_cpus \cap allowed ELSE {}
    IN  /\ find.pc = "idle"
        /\ cpu # -1 => cpu_to_idx[cpu] # IDX_INVALID /\ (set.pc = "unlocked" \/ set.cpu # cpu)
        /\ \/ \E c \in later_mask : Found(f, c)
           \/ /\ later_mask = {}
              /\ find' = [f EXCEPT !.pc = "max"]
              /\ UNCHANGED <<heap, set>>

\* Mutant: the affinity of the task is not looked at.
cpudl_maximum_AnyCpu ==
    /\ find.pc = "max"
    /\ find' = [find EXCEPT !.pc = "later", !.max = elements[0].cpu]
    /\ UNCHANGED <<heap, set>>

cpudl_maximum ==
    /\ find.pc = "max"
    /\ LET max == elements[0].cpu
       IN  \/ max \notin find.allowed /\ Found(find, -1)
           \/ /\ max \in find.allowed
              /\ find' = [find EXCEPT !.pc = "later", !.max = max]
              /\ UNCHANGED <<heap, set>>

FindLater ==
    /\ find.pc = "later"
    /\ \/ ~dl_time_before(find.dl, elements[0].dl) /\ Found(find, -1)
       \/ /\ dl_time_before(find.dl, elements[0].dl)
          /\ find' = [find EXCEPT !.pc = "best"]
          /\ UNCHANGED <<heap, set>>

\* The second cpudl_maximum(); the compiler may also keep the value of the first.
FindBest == find.pc = "best" /\ \E c \in {find.max, elements[0].cpu} : Found(find, c)

FindReturn ==
    /\ find.pc = "done"
    /\ find' = NotFinding
    /\ UNCHANGED <<heap, set>>

Next ==
    \/ cpudl_heapify \/ cpudl_change_key \/ MoveUp \/ MoveLast
    \/ \E cpu \in CPU : Remove(cpu) \/ \E dl \in 1 .. MaxDl : Insert(cpu, dl)
    \/ \E cpu \in CPU \cup {-1}, dl \in 1 .. MaxDl, allowed \in (SUBSET CPU) \ {{}} :
          cpudl_find(cpu, dl, allowed)
    \/ cpudl_maximum \/ FindLater \/ FindBest \/ FindReturn

Spec == Init /\ [][Next]_vars
-----------------------------------------------------------------------------
(* Properties.                                                             *)

\* The heap never outgrows its arrays and no loop leaves them.
TypeOK ==
    /\ size \in 0 .. NCPU
    /\ elements \in [CPU -> [dl : 0 .. MaxDl, cpu : CPU]]
    /\ cpu_to_idx \in [CPU -> CPU \cup {IDX_INVALID}]
    /\ free_cpus \subseteq CPU
    /\ set \in Setting
    /\ find \in Finding

\* At every step, also inside the loops, the index is the inverse of the heap.
IndexInverse ==
    /\ \A c \in CPU : cpu_to_idx[c] # IDX_INVALID =>
          cpu_to_idx[c] < size /\ elements[cpu_to_idx[c]].cpu = c
    /\ \A i \in 0 .. size - 1 : cpu_to_idx[elements[i].cpu] = i

\* When cp->lock is free, the root is the latest deadline and the mask holds
\* exactly the CPUs that are not in the heap.
RootIsLatest ==
    set.pc = "unlocked" =>
        /\ \A i \in 0 .. size - 1 : elements[i].dl <= elements[0].dl
        /\ free_cpus = {c \in CPU : cpu_to_idx[c] = IDX_INVALID}

\* "Returns: best CPU (heap maximum if suitable)": what cpudl_find() returns may
\* run the task ...
FindSuitable == find.pc = "done" /\ find.ret # -1 => find.ret \in find.allowed

\* ... and, if no cpudl_set() overlapped, has no -deadline task or the latest
\* deadline of all CPUs, later than the task's.
Deadline(c) == elements[cpu_to_idx[c]].dl
FindBestAlone ==
    find.pc = "done" /\ find.alone /\ find.ret # -1 =>
        \/ find.ret \in free_cpus
        \/ /\ find.ret \in find.allowed
           /\ find.dl < Deadline(find.ret)
           /\ \A c \in CPU \ free_cpus : Deadline(c) <= Deadline(find.ret)

\* The heap implements the map: its entries change only when cpudl_set() changes
\* that CPU's, never by moving elements around.
None == 0
Entry(c) ==
    IF cpu_to_idx[c] = IDX_INVALID \/ (set.pc = "key" /\ set.fresh /\ set.cpu = c)
    THEN None ELSE Deadline(c)
Map == INSTANCE CpuDlMap WITH best <- [c \in CPU |-> Entry(c)]
MapSpec == Map!Spec
=============================================================================
