-------------------------- MODULE RootDomain_proofs --------------------------
(***************************************************************************)
(* Two members of struct root_domain, for any number of CPUs.              *)
(*                                                                         *)
(* The deadline heap: the index is its inverse, its root is the latest     *)
(* deadline, a search that nobody disturbs finds the best CPU, and the     *)
(* heap implements the map CpuDlMap.                                       *)
(*                                                                         *)
(* The bandwidth: the caps of all root domains agree whenever no handler   *)
(* is storing them, and migrations wait for each other only on four        *)
(* runqueues, for any root domains, tasks and any values written.          *)
(***************************************************************************)
EXTENDS CpuDl, DlBandwidth, TLAPS, FiniteSetTheorems, WellFoundedInduction

\* The numbers below n.
LEMMA Below == \A i, n \in Nat : i < n => i \in 0 .. n - 1
  OBVIOUS

\* A non-empty set of naturals has a least element.
LEMMA LeastNat ==
    ASSUME NEW S \in SUBSET Nat, S # {}
    PROVE  \E k \in S : \A j \in S : k <= j
<1>1. PICK x \in S : \A y \in S : ~(<<y, x>> \in OpToRel(<, Nat))
  BY NatLessThanWellFounded, WFMin, Zenon
<1>2. \A y \in S : ~(y < x)
  BY <1>1, Zenon DEF OpToRel
<1> QED
  BY <1>2
-----------------------------------------------------------------------------
(* The inductive invariant.                                                *)

\* Element i is not later than the one above it.
Ordered(i) == elements[i].dl <= elements[parent(i)].dl

\* While element idx is out of place, its children are in order with its parent.
Bridged(idx) ==
    \A i \in 1 .. size - 1 :
        parent(i) = idx /\ idx > 0 => elements[i].dl <= elements[parent(idx)].dl

\* What is in order at each place of cpudl_set().
HeapOrder ==
    /\ set.pc \in {"unlocked", "key"} => \A i \in 1 .. size - 1 : Ordered(i)
    /\ set.pc = "up" =>
          Bridged(set.idx) /\ \A i \in 1 .. size - 1 : i # set.idx => Ordered(i)
    /\ set.pc = "down" =>
          Bridged(set.idx) /\ \A i \in 1 .. size - 1 : parent(i) # set.idx => Ordered(i)
    /\ set.pc = "remove" =>
          /\ Bridged(set.idx)
          /\ \A i \in 1 .. size - 1 : i # set.idx /\ parent(i) # set.idx => Ordered(i)

\* The place cpudl_set() works at.  Only the removal of the last element leaves it
\* outside the heap, and then nothing moves.
Place ==
    /\ set.pc \in {"key", "up"} => set.idx < size
    /\ set.pc \in {"down", "remove"} => set.idx <= size
    /\ set.pc = "remove" /\ set.idx = size => ~MustRise(set.idx)
    /\ set.pc = "key" => cpu_to_idx[set.cpu] = set.idx /\ set.dl > 0
    /\ set.fresh => set.pc \in {"key", "up", "down"}
    /\ set.fresh => cpu_to_idx[set.cpu] # IDX_INVALID
    /\ set.pc = "remove" => cpu_to_idx[set.cpu] = IDX_INVALID
    /\ \A i \in 0 .. size - 1 :
          elements[i].dl > 0 \/ (set.pc = "key" /\ set.fresh /\ i = set.idx)

\* The mask lags behind the heap by the CPU that cpudl_set() is working on.
Mask ==
    \A c \in CPU :
        c \in free_cpus <=>
            IF cpu_to_idx[c] = IDX_INVALID THEN ~(set.pc = "remove" /\ c = set.cpu)
            ELSE set.fresh /\ c = set.cpu

\* An undisturbed search knows the root.
Search ==
    find.pc # "idle" /\ find.alone =>
        /\ set.pc = "unlocked"
        /\ find.pc \in {"max", "later", "best"} => size > 0
        /\ find.pc \in {"later", "best"} => find.max = elements[0].cpu /\ find.max \in find.allowed
        /\ find.pc = "best" => find.dl < elements[0].dl

IInv == TypeOK /\ IndexInverse /\ HeapOrder /\ Place /\ Mask /\ Search /\ FindBestAlone
-----------------------------------------------------------------------------
(* Places in the heap.                                                     *)

\* The parent of a place lies before it, and the children of k are 2k+1 and 2k+2.
LEMMA ParentLemma ==
    /\ \A i \in Nat : i > 0 => parent(i) \in Nat /\ parent(i) < i
    /\ \A i, k \in Nat : i > 0 => (parent(i) = k <=> i = left_child(k) \/ i = right_child(k))
  BY DEF parent, left_child, right_child

\* The heap fits its arrays.
LEMMA SizeLemma ==
    ASSUME TypeOK
    PROVE  /\ size \in Nat /\ size <= NCPU /\ NCPU \in Nat
           /\ \A i : i \in 0 .. size - 1 => i \in CPU
           /\ \A i : i \in CPU <=> i \in Nat /\ i < NCPU
<1>1. size \in Nat /\ size <= NCPU /\ NCPU \in Nat
  BY SizeAssumption DEF TypeOK
<1> QED
  BY <1>1 DEF CPU

\* In an ordered heap no element is later than the root.
LEMMA RootLemma ==
    ASSUME TypeOK, \A i \in 1 .. size - 1 : Ordered(i)
    PROVE  \A i \in 0 .. size - 1 : elements[i].dl <= elements[0].dl
<1> DEFINE S == {i \in 0 .. size - 1 : ~(elements[i].dl <= elements[0].dl)}
<1>1. /\ size \in Nat /\ size <= NCPU /\ NCPU \in Nat
      /\ \A i \in 0 .. size - 1 : elements[i].dl \in Nat
  BY SizeAssumption DEF TypeOK, CPU
<1> SUFFICES ASSUME S # {} PROVE FALSE
  OBVIOUS
<1>2. PICK k \in S : \A j \in S : k <= j
  <2>1. S \in SUBSET Nat
    BY <1>1
  <2> QED
    BY <2>1, LeastNat, Zenon
<1>3. k \in 1 .. size - 1
  BY <1>1, <1>2
<1>4. parent(k) \in 0 .. size - 1 /\ parent(k) < k
  BY <1>1, <1>3, ParentLemma
<1>5. parent(k) \notin S
  BY <1>1, <1>2, <1>3, <1>4
<1>6. elements[k].dl <= elements[parent(k)].dl
  BY <1>3 DEF Ordered
<1> QED
  BY <1>1, <1>2, <1>3, <1>4, <1>5, <1>6

\* cpudl_exchange() of two places keeps index and heap inverse of each other and
\* every CPU's entry.
LEMMA ExchangeLemma ==
    ASSUME TypeOK, IndexInverse, NEW a \in 0 .. size - 1, NEW b \in 0 .. size - 1, a # b,
           cpudl_exchange(a, b), size' = size
    PROVE  /\ elements' \in [CPU -> [dl : 0 .. MaxDl, cpu : CPU]]
           /\ cpu_to_idx' \in [CPU -> CPU \cup {IDX_INVALID}]
           /\ elements'[a] = elements[b] /\ elements'[b] = elements[a]
           /\ \A i \in CPU : i # a /\ i # b => elements'[i] = elements[i]
           /\ IndexInverse'
           /\ \A c \in CPU :
                 /\ cpu_to_idx'[c] = IDX_INVALID <=> cpu_to_idx[c] = IDX_INVALID
                 /\ cpu_to_idx[c] # IDX_INVALID =>
                       elements'[cpu_to_idx'[c]].dl = elements[cpu_to_idx[c]].dl
<1> DEFINE ca == elements[a].cpu
           cb == elements[b].cpu
<1>1. /\ size \in Nat /\ size <= NCPU /\ NCPU \in Nat /\ a \in CPU /\ b \in CPU
      /\ 0 .. size - 1 \subseteq CPU
  BY SizeLemma
<1>2. ca \in CPU /\ cb \in CPU /\ elements[a] \in [dl : 0 .. MaxDl, cpu : CPU]
      /\ elements[b] \in [dl : 0 .. MaxDl, cpu : CPU]
  BY <1>1 DEF TypeOK
<1>3. cpu_to_idx[ca] = a /\ cpu_to_idx[cb] = b /\ ca # cb
  BY DEF IndexInverse
<1>4. /\ elements' = [elements EXCEPT ![a] = elements[b], ![b] = elements[a]]
      /\ cpu_to_idx' = [cpu_to_idx EXCEPT ![ca] = b, ![cb] = a]
  BY <1>3 DEF cpudl_exchange
<1>5. /\ elements' \in [CPU -> [dl : 0 .. MaxDl, cpu : CPU]]
      /\ elements'[a] = elements[b] /\ elements'[b] = elements[a]
      /\ \A i \in CPU : i # a /\ i # b => elements'[i] = elements[i]
  BY <1>1, <1>2, <1>4 DEF TypeOK
<1>6. /\ cpu_to_idx' \in [CPU -> CPU \cup {IDX_INVALID}]
      /\ cpu_to_idx'[ca] = b /\ cpu_to_idx'[cb] = a
      /\ \A c \in CPU : c # ca /\ c # cb => cpu_to_idx'[c] = cpu_to_idx[c]
  BY <1>1, <1>2, <1>3, <1>4 DEF TypeOK
<1>7. a # IDX_INVALID /\ b # IDX_INVALID
  BY <1>1 DEF IDX_INVALID, CPU
<1>8. ASSUME NEW c \in CPU, c # ca, c # cb, cpu_to_idx[c] # IDX_INVALID
      PROVE  /\ cpu_to_idx[c] \in CPU /\ cpu_to_idx[c] # a /\ cpu_to_idx[c] # b
             /\ cpu_to_idx[c] < size /\ elements[cpu_to_idx[c]].cpu = c
  BY <1>8 DEF IndexInverse, TypeOK
<1>9. IndexInverse'
  <2>1. ASSUME NEW c \in CPU, cpu_to_idx'[c] # IDX_INVALID
        PROVE  cpu_to_idx'[c] < size' /\ elements'[cpu_to_idx'[c]].cpu = c
    <3>1. CASE c = ca \/ c = cb
      BY <1>1, <1>5, <1>6, <3>1, SMT, Zenon, SMTT(40)
    <3>2. CASE c # ca /\ c # cb
      BY <1>5, <1>6, <1>8, <2>1, <3>2
    <3> QED
      BY <3>1, <3>2
  <2>2. ASSUME NEW i \in 0 .. size - 1 PROVE cpu_to_idx'[(elements'[i]).cpu] = i
    <3>1. CASE i = a \/ i = b
      BY <1>5, <1>6, <3>1
    <3>2. CASE i # a /\ i # b
      <4>1. elements'[i] = elements[i] /\ cpu_to_idx[elements[i].cpu] = i
        BY <1>1, <1>5, <3>2 DEF IndexInverse
      <4>2. elements[i].cpu \in CPU /\ elements[i].cpu # ca /\ elements[i].cpu # cb
        BY <1>1, <1>3, <3>2, <4>1, Zenon DEF TypeOK
      <4> QED
        BY <1>6, <4>1, <4>2
    <3> QED
      BY <3>1, <3>2
  <2> QED
    BY <2>1, <2>2 DEF IndexInverse
<1>10. ASSUME NEW c \in CPU
       PROVE  /\ cpu_to_idx'[c] = IDX_INVALID <=> cpu_to_idx[c] = IDX_INVALID
              /\ cpu_to_idx[c] # IDX_INVALID =>
                    elements'[cpu_to_idx'[c]].dl = elements[cpu_to_idx[c]].dl
  BY <1>3, <1>5, <1>6, <1>7, <1>8, SMT, Zenon, SMTT(40)
<1> QED
  BY <1>5, <1>6, <1>9, <1>10
-----------------------------------------------------------------------------
(* The loops keep the heap in order.                                       *)

\* One iteration of a loop that moves an element up.
LEMMA RiseOrder ==
    ASSUME TypeOK, IndexInverse, HeapOrder, set.pc \in {"up", "remove"}, set.idx < size,
           MustRise(set.idx), Rise
    PROVE  HeapOrder'
<1> DEFINE k == set.idx
           p == parent(k)
           d(i) == elements[i].dl
           e(i) == (elements'[i]).dl
<1>1. /\ size \in Nat /\ k \in Nat /\ k > 0 /\ k < size /\ p \in Nat /\ p < k
      /\ \A i : i \in 0 .. size - 1 => i \in CPU
  <2>1. k \in Nat /\ k > 0 /\ k < size
    BY DEF TypeOK, Setting, MustRise, CPU
  <2> QED
    BY <2>1, SizeLemma, ParentLemma
<1>2. size' = size /\ set'.pc = set.pc /\ set'.idx = p
  BY DEF Rise, TypeOK, Setting
<1>3. \A i \in 0 .. size - 1 : d(i) \in Nat
  BY <1>1 DEF TypeOK
<1>4. e(k) = d(p) /\ e(p) = d(k) /\ \A i \in 0 .. size - 1 : i # k /\ i # p => e(i) = d(i)
  <2>1. k \in 0 .. size - 1 /\ p \in 0 .. size - 1 /\ k # p /\ cpudl_exchange(k, p)
    BY <1>1 DEF Rise
  <2> QED
    BY <1>1, <1>2, <2>1, ExchangeLemma
<1>5. d(p) < d(k)
  BY DEF MustRise, dl_time_before
<1>6. \A i \in 1 .. size - 1 : i # k /\ parent(i) # k => d(i) <= d(parent(i))
  BY DEF HeapOrder, Ordered
<1>7. \A i \in 1 .. size - 1 : parent(i) = k => d(i) <= d(p)
  BY <1>1 DEF HeapOrder, Bridged
<1> DEFINE q(i) == parent(i)
<1>8. \A i \in 1 .. size - 1 : q(i) \in 0 .. size - 1 /\ q(i) < i
  BY <1>1, ParentLemma
<1> HIDE DEF k, d, e
<1>9. \A i \in 1 .. size - 1 : i # k /\ q(i) # k => d(i) <= d(q(i))
  BY <1>6
<1>10. \A i \in 1 .. size - 1 : q(i) = k => d(i) <= d(p)
  BY <1>7
<1>11. q(k) = p
  OBVIOUS
<1> HIDE DEF p, q
<1>12. \A i \in 1 .. size - 1 : i # p => e(i) <= e(q(i))
  <2> SUFFICES ASSUME NEW i \in 1 .. size - 1, i # p PROVE e(i) <= e(q(i))
    OBVIOUS
  <2>1. CASE i = k
    BY <1>1, <1>3, <1>4, <1>5, <1>11, <2>1, SMT, Zenon, SMTT(40)
  <2>2. CASE i # k /\ q(i) = k
    BY <1>1, <1>4, <1>10, <2>2, SMT, Zenon, SMTT(40)
  <2>3. CASE i # k /\ q(i) = p
    <3>1. d(i) <= d(p) /\ d(p) < d(k)
      BY <1>1, <1>5, <1>9, <2>3
    <3>2. d(i) \in Nat /\ d(p) \in Nat /\ d(k) \in Nat
      BY <1>1, <1>3
    <3> QED
      BY <1>1, <1>4, <2>3, <3>1, <3>2, SMT, Zenon, SMTT(40)
  <2>4. CASE i # k /\ q(i) # k /\ q(i) # p
    BY <1>4, <1>8, <1>9, <2>4
  <2> QED
    BY <2>1, <2>2, <2>3, <2>4
<1>13. \A i \in 1 .. size - 1 : q(i) = p /\ p > 0 => e(i) <= e(q(p))
  <2> SUFFICES ASSUME NEW i \in 1 .. size - 1, q(i) = p, p > 0 PROVE e(i) <= e(q(p))
    OBVIOUS
  <2>1. p \in 1 .. size - 1 /\ q(p) \in 0 .. size - 1 /\ q(p) < p
    BY <1>1, <1>8
  <2>2. d(p) <= d(q(p)) /\ e(q(p)) = d(q(p))
    BY <1>1, <1>4, <1>9, <2>1
  <2>3. CASE i = k
    BY <1>4, <2>2, <2>3
  <2>4. CASE i # k
    <3>1. d(i) <= d(p) /\ e(i) = d(i)
      BY <1>1, <1>4, <1>8, <1>9, <2>4, SMT, Zenon, SMTT(40)
    <3>2. d(i) \in Nat /\ d(p) \in Nat /\ d(q(p)) \in Nat
      BY <1>1, <1>3, <2>1
    <3> QED
      BY <2>2, <3>1, <3>2
  <2> QED
    BY <2>3, <2>4
<1> QED
  BY <1>2, <1>12, <1>13 DEF HeapOrder, Bridged, Ordered, e, q

\* What one iteration of cpudl_heapify() compares.
LEMMA LargestLemma ==
    ASSUME TypeOK, NEW k \in Nat, k <= size
    PROVE  /\ \/ Largest(k) = k
              \/ /\ Largest(k) \in 1 .. size - 1 /\ parent(Largest(k)) = k
                 /\ elements[k].dl < elements[Largest(k)].dl
           /\ \A i \in 1 .. size - 1 : parent(i) = k => elements[i].dl <= elements[Largest(k)].dl
<1> DEFINE l == left_child(k)
           r == right_child(k)
           d(i) == elements[i].dl
           m == IF l < size /\ d(k) < d(l) THEN l ELSE k
           g == IF r < size /\ d(m) < d(r) THEN r ELSE m
<1>1. /\ size \in Nat /\ l \in Nat /\ r \in Nat /\ l > k /\ r > l
      /\ \A i : i \in 0 .. size - 1 => i \in CPU
  BY SizeLemma DEF left_child, right_child
<1>2. \A i \in 0 .. size - 1 : d(i) \in Nat
  BY <1>1 DEF TypeOK
<1>3. Largest(k) = g
  BY DEF Largest, dl_time_before
<1>4. \A i \in 1 .. size - 1 : parent(i) = k <=> i = l \/ i = r
  BY <1>1, ParentLemma
<1> HIDE DEF l, r, d
<1>5. l < size => k \in 0 .. size - 1 /\ l \in 1 .. size - 1
  BY <1>1
<1>6. r < size => k \in 0 .. size - 1 /\ l \in 1 .. size - 1 /\ r \in 1 .. size - 1
  BY <1>1
<1>7. g = k \/ (g \in 1 .. size - 1 /\ (g = l \/ g = r) /\ d(k) < d(g))
  BY <1>1, <1>2, <1>5, <1>6
<1>8. (l < size => d(l) <= d(g)) /\ (r < size => d(r) <= d(g))
  BY <1>1, <1>2, <1>5, <1>6
<1> HIDE DEF g
<1>9. \A i \in 1 .. size - 1 : parent(i) = k => d(i) <= d(g)
  BY <1>1, <1>4, <1>8
<1> QED
  BY <1>3, <1>4, <1>7, <1>9, Zenon DEF d

\* One iteration of cpudl_heapify() that moves an element down.
LEMMA SinkOrder ==
    ASSUME TypeOK, IndexInverse, HeapOrder, set.pc = "down", set.idx <= size,
           Largest(set.idx) # set.idx, cpudl_exchange(Largest(set.idx), set.idx),
           set' = [set EXCEPT !.idx = Largest(set.idx)], size' = size
    PROVE  HeapOrder'
<1> DEFINE k == set.idx
           g == Largest(k)
           d(i) == elements[i].dl
           e(i) == (elements'[i]).dl
           q(i) == parent(i)
<1>1. k \in Nat /\ size \in Nat /\ \A i : i \in 0 .. size - 1 => i \in CPU
  BY SizeLemma DEF TypeOK, Setting, CPU
<1>2. /\ g \in 1 .. size - 1 /\ q(g) = k /\ d(k) < d(g)
      /\ \A i \in 1 .. size - 1 : q(i) = k => d(i) <= d(g)
  BY <1>1, LargestLemma
<1>3. \A i \in 1 .. size - 1 : q(i) \in 0 .. size - 1 /\ q(i) < i
  BY <1>1, ParentLemma
<1>4. set'.pc = "down" /\ set'.idx = g
  BY DEF TypeOK, Setting
<1>5. \A i \in 0 .. size - 1 : d(i) \in Nat
  BY <1>1 DEF TypeOK
<1>6. k \in 0 .. size - 1 /\ k < g
  BY <1>2, <1>3
<1>7. e(g) = d(k) /\ e(k) = d(g) /\ \A i \in 0 .. size - 1 : i # k /\ i # g => e(i) = d(i)
  <2>1. g \in 0 .. size - 1 /\ g # k /\ cpudl_exchange(g, k)
    BY <1>1, <1>2, <1>6
  <2> QED
    BY <1>1, <1>6, <2>1, ExchangeLemma
<1>8. \A i \in 1 .. size - 1 : q(i) # k => d(i) <= d(q(i))
  BY DEF HeapOrder, Ordered
<1>9. \A i \in 1 .. size - 1 : q(i) = k /\ k > 0 => d(i) <= d(q(k))
  BY DEF HeapOrder, Bridged
<1> HIDE DEF k, g, d, e, q
<1>10. \A i \in 1 .. size - 1 : q(i) # g => e(i) <= e(q(i))
  <2> SUFFICES ASSUME NEW i \in 1 .. size - 1, q(i) # g PROVE e(i) <= e(q(i))
    OBVIOUS
  <2>1. CASE i = g
    BY <1>2, <1>5, <1>6, <1>7, <2>1
  <2>2. CASE i = k
    <3>1. d(g) <= d(q(k)) /\ q(k) \in 0 .. size - 1 /\ q(k) < k
      BY <1>1, <1>2, <1>3, <1>9, <2>2, SMT, Zenon, SMTT(40)
    <3> QED
      BY <1>6, <1>7, <2>2, <3>1, SMT, Zenon, SMTT(40)
  <2>3. CASE i # g /\ i # k /\ q(i) = k
    BY <1>2, <1>7, <2>3
  <2>4. CASE i # g /\ i # k /\ q(i) # k
    BY <1>3, <1>7, <1>8, <2>4, SMT, Zenon, SMTT(40)
  <2> QED
    BY <2>1, <2>2, <2>3, <2>4, Zenon
<1>11. \A i \in 1 .. size - 1 : q(i) = g => e(i) <= e(q(g))
  <2> SUFFICES ASSUME NEW i \in 1 .. size - 1, q(i) = g PROVE e(i) <= e(q(g))
    OBVIOUS
  <2>1. i # g /\ i # k /\ g # k
    BY <1>2, <1>3, <1>6
  <2> QED
    BY <1>2, <1>7, <1>8, <2>1, SMT, Zenon, SMTT(40)
<1> QED
  BY <1>4, <1>10, <1>11, Zenon DEF HeapOrder, Bridged, Ordered, e, q
-----------------------------------------------------------------------------
(* The steps.                                                              *)

\* A step of cpudl_set() takes every claim from a search that it overlaps.
LEMMA DisturbLemma ==
    ASSUME TypeOK, Disturb
    PROVE  find' \in Finding /\ Search' /\ FindBestAlone'
<1> DEFINE a == find.pc = "idle"
<1>1. find' = [find EXCEPT !.alone = a] /\ a \in BOOLEAN
  BY DEF Disturb
<1>2. find'.pc = find.pc /\ find'.alone = a
  BY <1>1 DEF TypeOK, Finding
<1>3. find' \in Finding
  <2> HIDE DEF a
  <2> QED
    BY <1>1 DEF TypeOK, Finding
<1> QED
  BY <1>2, <1>3, Zenon DEF Search, FindBestAlone

\* cpudl_set() is done: the heap is in order and the mask exact.
LEMMA ReleaseLemma ==
    ASSUME IInv, Release, UNCHANGED <<size, elements, cpu_to_idx>>, Disturb,
           set.pc \in {"up", "down"}, \A i \in 1 .. size - 1 : Ordered(i)
    PROVE  IInv'
<1> USE DEF IInv
<1>1. find' \in Finding /\ Search' /\ FindBestAlone'
  BY DisturbLemma
<1>2. set' = Unlocked /\ set'.pc = "unlocked" /\ ~set'.fresh
  BY DEF Release, Unlocked
<1>3. TypeOK'
  <2>1. 0 \in CPU /\ 0 \in 0 .. MaxDl
    BY SizeAssumption DEF CPU
  <2>2. set' \in Setting
    BY <1>2, <2>1 DEF Setting, Unlocked
  <2>3. free_cpus' \subseteq CPU
    BY Zenon DEF Release, TypeOK
  <2> QED
    BY <1>1, <2>2, <2>3 DEF TypeOK
<1>4. IndexInverse' /\ HeapOrder'
  BY <1>2, Zenon DEF IndexInverse, HeapOrder, Ordered
<1>5. Place'
  BY <1>2 DEF Place
<1>6. Mask'
  <2> SUFFICES ASSUME NEW c \in CPU
               PROVE  c \in free_cpus' <=> cpu_to_idx[c] = IDX_INVALID
    BY <1>2 DEF Mask
  <2>1. c \in free_cpus <=> cpu_to_idx[c] = IDX_INVALID \/ (set.fresh /\ c = set.cpu)
    BY DEF Mask
  <2>2. set.fresh => cpu_to_idx[set.cpu] # IDX_INVALID
    BY DEF Place
  <2> QED
    BY <2>1, <2>2 DEF Release
<1> QED
  BY <1>1, <1>3, <1>4, <1>5, <1>6

\* An exchange inside the loops of cpudl_set() keeps everything but the order, which
\* the caller vouches for.
LEMMA MoveLemma ==
    ASSUME IInv, NEW a \in 0 .. size - 1, NEW b \in 0 .. size - 1, a # b,
           cpudl_exchange(a, b), UNCHANGED <<size, free_cpus>>, Disturb,
           set.pc \in {"up", "down", "remove"}, set' = [set EXCEPT !.idx = b], HeapOrder'
    PROVE  IInv'
<1> USE DEF IInv
<1>1. find' \in Finding /\ Search' /\ FindBestAlone'
  BY DisturbLemma
<1>2. /\ elements' \in [CPU -> [dl : 0 .. MaxDl, cpu : CPU]]
      /\ cpu_to_idx' \in [CPU -> CPU \cup {IDX_INVALID}]
      /\ elements'[a] = elements[b] /\ elements'[b] = elements[a]
      /\ \A i \in CPU : i # a /\ i # b => elements'[i] = elements[i]
      /\ IndexInverse'
      /\ \A c \in CPU : cpu_to_idx'[c] = IDX_INVALID <=> cpu_to_idx[c] = IDX_INVALID
  BY ExchangeLemma
<1>3. /\ size \in Nat /\ b \in CPU /\ b < size
      /\ \A i : i \in 0 .. size - 1 => i \in CPU
  BY SizeLemma
<1>4. /\ set' \in Setting /\ set'.pc = set.pc /\ set'.idx = b
      /\ set'.cpu = set.cpu /\ set'.fresh = set.fresh /\ set.cpu \in CPU
  BY <1>3 DEF TypeOK, Setting
<1>5. TypeOK'
  BY <1>1, <1>2, <1>4, Zenon DEF TypeOK
<1>6. Place'
  <2>1. \A i \in 0 .. size - 1 : (elements'[i]).dl > 0
    <3>1. \A i \in 0 .. size - 1 : elements[i].dl > 0
      BY DEF Place
    <3> QED
      BY <1>2, <1>3, <3>1, Zenon
  <2> QED
    BY <1>2, <1>3, <1>4, <2>1 DEF Place
<1>7. Mask'
  BY <1>2, <1>4 DEF Mask
<1> QED
  BY <1>1, <1>2, <1>5, <1>6, <1>7, Zenon

\* cpudl_heapify() preserves the invariant.
LEMMA HeapifyInv ==
    ASSUME IInv, cpudl_heapify
    PROVE  IInv'
<1> DEFINE k == set.idx
           g == Largest(k)
<1>1. TypeOK /\ IndexInverse /\ HeapOrder /\ set.pc = "down" /\ k \in Nat /\ k <= size
  BY DEF IInv, cpudl_heapify, Place, TypeOK, Setting, CPU
<1>2. /\ g = k \/ (g \in 1 .. size - 1 /\ parent(g) = k)
      /\ \A i \in 1 .. size - 1 : parent(i) = k => elements[i].dl <= elements[g].dl
  BY <1>1, LargestLemma
<1>3. CASE g = k
  <2>1. Release /\ UNCHANGED <<size, elements, cpu_to_idx>> /\ Disturb
    BY <1>3, Zenon DEF cpudl_heapify
  <2>2. \A i \in 1 .. size - 1 : Ordered(i)
    BY <1>1, <1>2, <1>3 DEF HeapOrder, Ordered
  <2> QED
    BY <1>1, <2>1, <2>2, ReleaseLemma, Zenon
<1>4. CASE g # k
  <2>1. /\ cpudl_exchange(g, k) /\ set' = [set EXCEPT !.idx = g]
        /\ UNCHANGED <<size, free_cpus>> /\ Disturb
    BY <1>4 DEF cpudl_heapify
  <2>2. g \in 0 .. size - 1 /\ k \in 0 .. size - 1
    BY <1>1, <1>2, <1>4, SizeLemma, ParentLemma
  <2>3. HeapOrder'
    BY <1>1, <1>4, <2>1, SinkOrder, Zenon
  <2>4. cpudl_exchange(k, g)
    <3>1. cpu_to_idx[elements[k].cpu] = k /\ cpu_to_idx[elements[g].cpu] = g
      BY <1>1, <2>2 DEF IndexInverse
    <3>2. elements[k].cpu # elements[g].cpu
      BY <1>4, <3>1
    <3>3. elements' = [elements EXCEPT ![k] = elements[g], ![g] = elements[k]]
      BY <1>4, <2>1, Zenon DEF cpudl_exchange
    <3> QED
      BY <2>1, <3>2, <3>3, Zenon DEF cpudl_exchange
  <2> HIDE DEF g, k
  <2> QED
    BY <1>1, <1>4, <2>1, <2>2, <2>3, <2>4, MoveLemma, Zenon
<1> QED
  BY <1>3, <1>4

\* The loops that move an element up preserve it.
LEMMA RiseInv ==
    ASSUME IInv, set.pc \in {"up", "remove"}, MustRise(set.idx), Rise, Disturb
    PROVE  IInv'
<1> DEFINE k == set.idx
           p == parent(k)
<1>1. TypeOK /\ IndexInverse /\ HeapOrder /\ k \in Nat /\ k < size /\ k > 0
  BY SizeLemma DEF IInv, Place, TypeOK, Setting, CPU, MustRise
<1>2. HeapOrder'
  BY <1>1, RiseOrder
<1>3. p \in 0 .. size - 1 /\ k \in 0 .. size - 1 /\ p # k
  BY <1>1, SizeLemma, ParentLemma
<1>4. /\ cpudl_exchange(k, p) /\ set' = [set EXCEPT !.idx = p]
      /\ UNCHANGED <<size, free_cpus>>
  BY DEF Rise
<1> HIDE DEF k, p
<1> QED
  BY <1>2, <1>3, <1>4, MoveLemma

\* The loop of cpudl_change_key() preserves it.
LEMMA MoveUpInv ==
    ASSUME IInv, MoveUp
    PROVE  IInv'
<1>1. CASE MustRise(set.idx) /\ Rise
  BY <1>1, RiseInv DEF MoveUp
<1>2. CASE ~MustRise(set.idx) /\ Release /\ UNCHANGED <<size, elements, cpu_to_idx>>
  <2>1. \A i \in 0 .. size - 1 : elements[i].dl \in Int
    BY SizeLemma DEF IInv, TypeOK
  <2>2. \A i \in 1 .. size - 1 : parent(i) \in 0 .. size - 1
    BY SizeLemma, ParentLemma DEF IInv
  <2>3. \A i \in 1 .. size - 1 : Ordered(i)
    BY <1>2, <2>1, <2>2 DEF IInv, HeapOrder, Ordered, MoveUp, MustRise, dl_time_before
  <2> QED
    BY <1>2, <2>3, ReleaseLemma, Zenon DEF MoveUp
<1> QED
  BY <1>1, <1>2 DEF MoveUp

\* The loop of the removal, and its end, preserve it.
LEMMA MoveLastInv ==
    ASSUME IInv, MoveLast
    PROVE  IInv'
<1>1. CASE MustRise(set.idx) /\ Rise
  BY <1>1, RiseInv DEF MoveLast
<1>2. CASE ~MustRise(set.idx) /\ ~(MustRise(set.idx) /\ Rise)
  <2>1. /\ free_cpus' = free_cpus \cup {set.cpu} /\ set' = [set EXCEPT !.pc = "down"]
        /\ UNCHANGED <<size, elements, cpu_to_idx>> /\ Disturb /\ set.pc = "remove"
    BY <1>2 DEF MoveLast
  <2>2. find' \in Finding /\ Search' /\ FindBestAlone'
    BY <2>1, DisturbLemma DEF IInv
  <2>3. /\ set' \in Setting /\ set'.pc = "down" /\ set'.idx = set.idx
        /\ set'.cpu = set.cpu /\ set'.fresh = set.fresh /\ set.cpu \in CPU
    BY <2>1 DEF IInv, TypeOK, Setting
  <2>4. TypeOK'
    BY <2>1, <2>2, <2>3, Zenon DEF IInv, TypeOK
  <2>5. IndexInverse'
    BY <2>1 DEF IInv, IndexInverse
  <2>6. HeapOrder'
    <3>1. \A i \in 0 .. size - 1 : elements[i].dl \in Int
      BY SizeLemma DEF IInv, TypeOK
    <3>2. \A i \in 1 .. size - 1 : parent(i) \in 0 .. size - 1
      BY SizeLemma, ParentLemma DEF IInv
    <3>3. \A i \in 1 .. size - 1 : parent(i) # set.idx => Ordered(i)
      BY <1>2, <2>1, <3>1, <3>2 DEF IInv, HeapOrder, Ordered, MustRise, dl_time_before
    <3>4. Bridged(set.idx)
      BY <2>1 DEF IInv, HeapOrder
    <3> QED
      BY <2>1, <2>3, <3>3, <3>4, Zenon DEF HeapOrder, Ordered, Bridged
  <2>7. Place'
    BY <2>1, <2>3 DEF IInv, Place
  <2>8. Mask'
    BY <2>1, <2>3, Zenon DEF IInv, Mask, Place
  <2> QED
    BY <2>2, <2>4, <2>5, <2>6, <2>7, <2>8, Zenon DEF IInv
<1> QED
  BY <1>1, <1>2 DEF MoveLast

\* Storing a new key preserves it: the loop that follows is the right one.
LEMMA ChangeKeyInv ==
    ASSUME IInv, cpudl_change_key
    PROVE  IInv'
<1> DEFINE k == set.idx
           n == set.dl
           d(i) == elements[i].dl
           e(i) == (elements'[i]).dl
           way == IF dl_time_before(n, d(k)) THEN "down" ELSE "up"
<1>1. /\ set.pc = "key" /\ elements' = [elements EXCEPT ![k].dl = n]
      /\ set' = [set EXCEPT !.pc = way]
      /\ UNCHANGED <<size, cpu_to_idx, free_cpus>> /\ Disturb
  BY DEF cpudl_change_key
<1>2. find' \in Finding /\ Search' /\ FindBestAlone'
  BY <1>1, DisturbLemma DEF IInv
<1>3. /\ k \in 0 .. size - 1 /\ n \in 0 .. MaxDl /\ n > 0 /\ k \in CPU /\ size \in Nat
      /\ \A i : i \in 0 .. size - 1 => i \in CPU
  BY <1>1, SizeLemma DEF IInv, Place, TypeOK, Setting
<1>4. /\ set' \in Setting /\ set'.pc = way /\ set'.idx = k
      /\ set'.cpu = set.cpu /\ set'.fresh = set.fresh
  <2>1. way \in {"down", "up"}
    OBVIOUS
  <2> HIDE DEF way
  <2> QED
    BY <1>1, <2>1 DEF IInv, TypeOK, Setting
<1>5. \A i \in CPU : (elements'[i]).cpu = elements[i].cpu /\ e(i) = IF i = k THEN n ELSE d(i)
  BY <1>1, <1>3 DEF IInv, TypeOK
<1>6. elements' \in [CPU -> [dl : 0 .. MaxDl, cpu : CPU]]
  BY <1>1, <1>3, ZenonT(60) DEF IInv, TypeOK
<1>7. TypeOK'
  BY <1>1, <1>2, <1>4, <1>6, Zenon DEF IInv, TypeOK
<1>8. IndexInverse'
  BY <1>1, <1>3, <1>5 DEF IInv, IndexInverse, TypeOK
<1>9. HeapOrder'
  <2>1. \A i \in 0 .. size - 1 : d(i) \in Nat
    BY <1>3 DEF IInv, TypeOK
  <2> DEFINE q(i) == parent(i)
  <2>2. \A i \in 1 .. size - 1 : q(i) \in 0 .. size - 1 /\ q(i) < i
    BY <1>3, ParentLemma
  <2>3. \A i \in 1 .. size - 1 : d(i) <= d(q(i))
    BY <1>1 DEF IInv, HeapOrder, Ordered
  <2>4. \A i \in 0 .. size - 1 : e(i) = IF i = k THEN n ELSE d(i)
    BY <1>3, <1>5
  <2>5. n < d(k) <=> way = "down"
    BY DEF dl_time_before
  <2>6. way \in {"down", "up"}
    OBVIOUS
  <2>7. n \in Nat
    BY <1>3
  <2> HIDE DEF d, e, q, k, n, way
  <2>8. \A i \in 1 .. size - 1 : q(i) = k /\ k > 0 => e(i) <= e(q(k))
    <3> SUFFICES ASSUME NEW i \in 1 .. size - 1, q(i) = k, k > 0 PROVE e(i) <= e(q(k))
      OBVIOUS
    <3>1. k \in 1 .. size - 1 /\ i # k /\ q(k) # k /\ q(k) \in 0 .. size - 1
      BY <1>3, <2>2
    <3>2. d(i) <= d(k) /\ d(k) <= d(q(k)) /\ e(i) = d(i) /\ e(q(k)) = d(q(k))
      BY <2>3, <2>4, <3>1
    <3> QED
      BY <2>1, <3>1, <3>2
  <2>9. way = "up" => \A i \in 1 .. size - 1 : i # k => e(i) <= e(q(i))
    <3> SUFFICES ASSUME NEW i \in 1 .. size - 1, i # k, way = "up" PROVE e(i) <= e(q(i))
      OBVIOUS
    <3>1. d(i) <= d(q(i)) /\ q(i) \in 0 .. size - 1 /\ ~(n < d(k))
      BY <2>2, <2>3, <2>5, Zenon
    <3> QED
      BY <1>3, <2>1, <2>4, <2>7, <3>1
  <2>10. way = "down" => \A i \in 1 .. size - 1 : q(i) # k => e(i) <= e(q(i))
    <3> SUFFICES ASSUME NEW i \in 1 .. size - 1, q(i) # k, way = "down" PROVE e(i) <= e(q(i))
      OBVIOUS
    <3>1. d(i) <= d(q(i)) /\ q(i) \in 0 .. size - 1 /\ n < d(k)
      BY <2>2, <2>3, <2>5, Zenon
    <3> QED
      BY <1>3, <2>1, <2>4, <2>7, <3>1
  <2> QED
    BY <1>1, <1>4, <2>6, <2>8, <2>9, <2>10, Zenon DEF HeapOrder, Bridged, Ordered, e, q, k
<1>10. Place'
  <2>1. way \in {"down", "up"}
    OBVIOUS
  <2>2. \A i \in 0 .. size - 1 : e(i) > 0
    BY <1>1, <1>3, <1>5, ZenonT(60) DEF IInv, Place
  <2> HIDE DEF way, k
  <2> QED
    BY <1>1, <1>3, <1>4, <2>1, <2>2 DEF IInv, Place
<1>11. Mask'
  <2>1. way \in {"down", "up"}
    OBVIOUS
  <2> HIDE DEF way
  <2> QED
    BY <1>1, <1>4, <2>1, Zenon DEF IInv, Mask
<1> QED
  BY <1>2, <1>7, <1>8, <1>9, <1>10, <1>11 DEF IInv

\* Removing a CPU preserves it; the last element now stands in the removed one's place.
LEMMA RemoveInv ==
    ASSUME IInv, NEW cpu \in CPU, Remove(cpu)
    PROVE  IInv'
<1> DEFINE o == cpu_to_idx[cpu]
           z == size - 1
           nc == elements[z].cpu
           d(i) == elements[i].dl
           e(i) == (elements'[i]).dl
<1>1. /\ set.pc = "unlocked" /\ o # IDX_INVALID /\ size' = z /\ free_cpus' = free_cpus /\ Disturb
      /\ elements' = [elements EXCEPT ![o] = elements[z]]
      /\ cpu_to_idx' = [cpu_to_idx EXCEPT ![nc] = o, ![cpu] = IDX_INVALID]
      /\ set' = [pc |-> "remove", cpu |-> cpu, idx |-> o, dl |-> 0, fresh |-> FALSE]
  BY DEF Remove
<1>2. find' \in Finding /\ Search' /\ FindBestAlone'
  BY <1>1, DisturbLemma, Zenon DEF IInv
<1>3. /\ size \in Nat /\ o \in CPU /\ o < size /\ elements[o].cpu = cpu
      /\ \A i : i \in 0 .. size - 1 => i \in CPU
      /\ \A i : i \in CPU => i \in Nat
  BY <1>1, SizeLemma, Zenon DEF IInv, IndexInverse, TypeOK
<1>4. /\ o \in 0 .. z /\ z \in 0 .. size - 1 /\ z \in CPU /\ z \in Nat /\ size = z + 1
      /\ 0 .. z - 1 \subseteq 0 .. size - 1
  BY <1>3
<1>5. nc \in CPU /\ cpu_to_idx[nc] = z /\ elements[z] \in [dl : 0 .. MaxDl, cpu : CPU]
  BY <1>4, Zenon DEF IInv, IndexInverse, TypeOK
<1>6. /\ elements' \in [CPU -> [dl : 0 .. MaxDl, cpu : CPU]]
      /\ elements'[o] = elements[z] /\ \A i \in CPU : i # o => elements'[i] = elements[i]
  BY <1>1, <1>3, <1>5, Zenon DEF IInv, TypeOK
<1>7. /\ cpu_to_idx' \in [CPU -> CPU \cup {IDX_INVALID}]
      /\ cpu_to_idx'[cpu] = IDX_INVALID /\ (nc # cpu => cpu_to_idx'[nc] = o)
      /\ \A c \in CPU : c # cpu /\ c # nc => cpu_to_idx'[c] = cpu_to_idx[c]
  BY <1>1, <1>3, <1>5, Zenon DEF IInv, TypeOK
<1>8. /\ set' \in Setting /\ set'.pc = "remove" /\ set'.idx = o /\ set'.cpu = cpu /\ ~set'.fresh
  BY <1>1, <1>3, SizeAssumption DEF Setting
<1>9. TypeOK'
  <2>1. size' \in 0 .. NCPU
    <3>1. size <= NCPU /\ NCPU \in Nat
      BY SizeLemma, Zenon DEF IInv
    <3> QED
      BY <1>1, <1>4, <3>1
  <2> QED
    BY <1>1, <1>2, <1>6, <1>7, <1>8, <2>1, Zenon DEF IInv, TypeOK
<1>10. IndexInverse'
  <2>1. ASSUME NEW c \in CPU, cpu_to_idx'[c] # IDX_INVALID
        PROVE  cpu_to_idx'[c] < z /\ elements'[cpu_to_idx'[c]].cpu = c
    <3>1. c # cpu
      BY <1>7, <2>1, SMT, Zenon, SMTT(40)
    <3>2. CASE c = nc
      BY <1>3, <1>4, <1>5, <1>6, <1>7, <3>1, <3>2
    <3>3. CASE c # nc
      <4>1. /\ cpu_to_idx'[c] = cpu_to_idx[c] /\ cpu_to_idx[c] \in CPU /\ cpu_to_idx[c] < size
            /\ elements[cpu_to_idx[c]].cpu = c
        BY <1>7, <2>1, <3>1, <3>3, Zenon DEF IInv, IndexInverse, TypeOK
      <4>2. cpu_to_idx[c] # o /\ cpu_to_idx[c] # z
        BY <1>3, <3>1, <3>3, <4>1, Zenon
      <4>3. cpu_to_idx[c] < z
        BY <1>3, <1>4, <4>1, <4>2
      <4> QED
        BY <1>6, <4>1, <4>2, <4>3, Zenon
    <3> QED
      BY <3>2, <3>3
  <2>2. ASSUME NEW i \in 0 .. z - 1 PROVE cpu_to_idx'[(elements'[i]).cpu] = i
    <3>1. CASE i = o
      BY <1>3, <1>4, <1>5, <1>6, <1>7, <3>1, SMT, Zenon, SMTT(40)
    <3>2. CASE i # o
      <4>1. i \in CPU /\ i # z /\ elements'[i] = elements[i] /\ cpu_to_idx[elements[i].cpu] = i
        BY <1>3, <1>4, <1>6, <3>2 DEF IInv, IndexInverse
      <4>2. elements[i].cpu \in CPU /\ elements[i].cpu # cpu /\ elements[i].cpu # nc
        BY <1>5, <3>2, <4>1, Zenon DEF IInv, TypeOK
      <4> QED
        BY <1>7, <4>1, <4>2, ZenonT(60)
    <3> QED
      BY <3>1, <3>2, ZenonT(60)
  <2> QED
    BY <1>1, <2>1, <2>2, Zenon DEF IndexInverse
<1> DEFINE q(i) == parent(i)
<1>11. \A i \in 1 .. size - 1 : q(i) \in 0 .. size - 1 /\ q(i) < i /\ d(i) <= d(q(i))
  BY <1>1, <1>3, ParentLemma DEF IInv, HeapOrder, Ordered
<1>12. e(o) = d(z) /\ \A i \in 0 .. size - 1 : i # o => e(i) = d(i)
  BY <1>3, <1>6, Zenon
<1>13. \A i \in 0 .. size - 1 : d(i) \in Nat
  BY <1>3 DEF IInv, TypeOK
<1>14. HeapOrder'
  <2> HIDE DEF d, e, q, o, z
  <2>1. \A i \in 1 .. z - 1 : i # o /\ q(i) # o => e(i) <= e(q(i))
    BY <1>4, <1>11, <1>12
  <2>2. \A i \in 1 .. z - 1 : q(i) = o /\ o > 0 => e(i) <= e(q(o))
    <3> SUFFICES ASSUME NEW i \in 1 .. z - 1, q(i) = o, o > 0 PROVE e(i) <= e(q(o))
      OBVIOUS
    <3>1. i \in 1 .. size - 1 /\ o \in 1 .. size - 1
      BY <1>4
    <3>2. i # o /\ q(o) # o /\ q(o) \in 0 .. size - 1 /\ d(i) <= d(o) /\ d(o) <= d(q(o))
      BY <1>11, <3>1
    <3>3. e(i) = d(i) /\ e(q(o)) = d(q(o))
      BY <1>12, <3>1, <3>2
    <3> QED
      BY <1>13, <3>1, <3>2, <3>3
  <2> QED
    BY <1>1, <1>8, <2>1, <2>2, Zenon DEF HeapOrder, Bridged, Ordered, e, q, o
<1>15. Place'
  <2>1. o = z => ~(o > 0 /\ e(q(o)) < e(o))
    <3> SUFFICES ASSUME o = z, z > 0 PROVE ~(e(q(z)) < e(z))
      BY <1>4
    <3> HIDE DEF d, e, q, o, z
    <3>1. z \in 1 .. size - 1
      BY <1>4
    <3>2. q(z) # o /\ q(z) \in 0 .. size - 1 /\ d(z) <= d(q(z))
      BY <1>11, <3>1
    <3> QED
      BY <1>4, <1>12, <1>13, <3>1, <3>2
  <2>2. \A i \in 0 .. z - 1 : e(i) > 0
    <3>1. \A i \in 0 .. size - 1 : d(i) > 0
      BY <1>1 DEF IInv, Place
    <3> HIDE DEF d, e, o, z
    <3> QED
      BY <1>4, <1>12, <3>1, Zenon
  <2>3. o <= z
    BY <1>4
  <2>4. set'.idx = size' => ~MustRise(set.idx)'
    BY <1>1, <1>8, <2>1, Zenon DEF MustRise, dl_time_before
  <2> HIDE DEF o, z
  <2> QED
    BY <1>1, <1>7, <1>8, <2>2, <2>3, <2>4, Zenon DEF Place
<1>16. Mask'
  <2> SUFFICES ASSUME NEW c \in CPU
               PROVE  c \in free_cpus <=> cpu_to_idx'[c] = IDX_INVALID /\ c # cpu
    BY <1>1, <1>8, Zenon DEF Mask
  <2>1. c \in free_cpus <=> cpu_to_idx[c] = IDX_INVALID
    BY <1>1 DEF IInv, Mask, Place
  <2>2. z # IDX_INVALID /\ o # IDX_INVALID
    BY <1>1, <1>4 DEF IDX_INVALID
  <2> QED
    BY <1>5, <1>7, <2>1, <2>2, Zenon
<1> QED
  BY <1>2, <1>9, <1>10, <1>14, <1>15, <1>16, Zenon DEF IInv

\* A CPU that is not in the heap has room there: the others are too few to fill it.
LEMMA RoomLemma ==
    ASSUME TypeOK, IndexInverse, NEW cpu \in CPU, cpu_to_idx[cpu] = IDX_INVALID
    PROVE  size < NCPU
<1>1. size \in Nat /\ size <= NCPU /\ NCPU \in Nat /\ NCPU # 0
  BY SizeLemma, SizeAssumption
<1> SUFFICES ASSUME size = NCPU PROVE FALSE
  BY <1>1
<1> DEFINE T == CPU \ {cpu}
           f == [i \in CPU |-> elements[i].cpu]
<1>2. IsFiniteSet(CPU) /\ Cardinality(CPU) = NCPU
  <2>1. 0 \in Int /\ NCPU - 1 \in Int
    BY <1>1
  <2>2. /\ IsFiniteSet(0 .. NCPU - 1)
        /\ Cardinality(0 .. NCPU - 1) = IF 0 > NCPU - 1 THEN 0 ELSE NCPU - 1 - 0 + 1
    BY <2>1, FS_Interval, Zenon
  <2> QED
    BY <1>1, <2>2 DEF CPU
<1>3. IsFiniteSet(T) /\ Cardinality(T) = NCPU - 1
  BY <1>2, FS_RemoveElement, Zenon
<1>4. \A i \in CPU : cpu_to_idx[elements[i].cpu] = i
  BY <1>1 DEF IndexInverse, CPU
<1>5. f \in [CPU -> T]
  <2>1. \A i \in CPU : i # IDX_INVALID
    BY <1>1 DEF CPU, IDX_INVALID
  <2> QED
    BY <1>4, <2>1 DEF TypeOK
<1>6. PICK i, j \in CPU : i # j /\ f[i] = f[j]
  <2>1. Cardinality(T) < Cardinality(CPU)
    BY <1>1, <1>2, <1>3
  <2> HIDE DEF T, f
  <2> QED
    BY <1>2, <1>3, <1>5, <2>1, FS_PigeonHole, Zenon
<1> QED
  BY <1>4, <1>6

\* Adding a CPU, or calling cpudl_change_key() for one in the heap, preserves it.
LEMMA InsertInv ==
    ASSUME IInv, NEW cpu \in CPU, NEW n \in 1 .. MaxDl, Insert(cpu, n)
    PROVE  IInv'
<1>0. find' \in Finding /\ Search' /\ FindBestAlone' /\ free_cpus' = free_cpus
      /\ set.pc = "unlocked" /\ ~set.fresh
  BY DisturbLemma DEF IInv, Insert, Place
<1>1. CASE cpu_to_idx[cpu] # IDX_INVALID
  <2> DEFINE o == cpu_to_idx[cpu]
  <2>1. /\ set' = [pc |-> "key", cpu |-> cpu, idx |-> o, dl |-> n, fresh |-> FALSE]
        /\ UNCHANGED <<size, elements, cpu_to_idx>>
    BY <1>1, Zenon DEF Insert
  <2>2. o \in CPU /\ o < size
    BY <1>1, Zenon DEF IInv, IndexInverse, TypeOK
  <2>3. set' \in Setting /\ set'.pc = "key" /\ set'.cpu = cpu /\ set'.idx = o /\ ~set'.fresh
        /\ set'.dl = n /\ n > 0
    BY <2>1, <2>2, SizeAssumption DEF Setting
  <2>4. TypeOK'
    BY <1>0, <2>1, <2>3, Zenon DEF IInv, TypeOK
  <2>5. IndexInverse' /\ HeapOrder'
    BY <1>0, <2>1, <2>3, Zenon DEF IInv, IndexInverse, HeapOrder, Ordered
  <2>6. Place'
    BY <1>0, <2>1, <2>2, <2>3, Zenon DEF IInv, Place
  <2>7. Mask'
    BY <1>0, <2>1, <2>3, Zenon DEF IInv, Mask
  <2> QED
    BY <1>0, <2>4, <2>5, <2>6, <2>7, Zenon DEF IInv
<1>2. CASE cpu_to_idx[cpu] = IDX_INVALID
  <2> DEFINE x == [dl |-> 0, cpu |-> cpu]
  <2>1. /\ set' = [pc |-> "key", cpu |-> cpu, idx |-> size, dl |-> n, fresh |-> TRUE]
        /\ size' = size + 1
        /\ elements' = [elements EXCEPT ![size] = x]
        /\ cpu_to_idx' = [cpu_to_idx EXCEPT ![cpu] = size]
    BY <1>2 DEF Insert
  <2>2. size \in Nat /\ size < NCPU /\ NCPU \in Nat
    BY <1>2, RoomLemma, SizeLemma, Zenon DEF IInv
  <2>3. size \in CPU /\ size # IDX_INVALID /\ \A i \in 0 .. size - 1 : i \in CPU
    BY <2>2 DEF CPU, IDX_INVALID
  <2>4. set' \in Setting /\ set'.pc = "key" /\ set'.cpu = cpu /\ set'.idx = size /\ set'.fresh
        /\ set'.dl = n /\ n > 0
    BY <2>1, <2>3, SizeAssumption DEF Setting
  <2>5. x \in [dl : 0 .. MaxDl, cpu : CPU] /\ x.dl = 0 /\ x.cpu = cpu
    BY SizeAssumption
  <2> HIDE DEF x
  <2>6. /\ elements' \in [CPU -> [dl : 0 .. MaxDl, cpu : CPU]]
        /\ elements'[size] = x /\ \A i \in CPU : i # size => elements'[i] = elements[i]
    BY <2>1, <2>3, <2>5, Zenon DEF IInv, TypeOK
  <2>7. /\ cpu_to_idx' \in [CPU -> CPU \cup {IDX_INVALID}]
        /\ cpu_to_idx'[cpu] = size /\ \A c \in CPU : c # cpu => cpu_to_idx'[c] = cpu_to_idx[c]
    BY <2>1, <2>3, Zenon DEF IInv, TypeOK
  <2>8. TypeOK'
    BY <1>0, <2>1, <2>2, <2>4, <2>6, <2>7 DEF IInv, TypeOK
  <2>9. IndexInverse'
    <3>1. ASSUME NEW c \in CPU, cpu_to_idx'[c] # IDX_INVALID
          PROVE  cpu_to_idx'[c] < size' /\ elements'[cpu_to_idx'[c]].cpu = c
      <4>1. CASE c = cpu
        BY <2>1, <2>2, <2>5, <2>6, <2>7, <4>1, SMT, Zenon, SMTT(40)
      <4>2. CASE c # cpu
        <5>1. /\ cpu_to_idx'[c] = cpu_to_idx[c] /\ cpu_to_idx[c] \in CPU /\ cpu_to_idx[c] < size
              /\ elements[cpu_to_idx[c]].cpu = c /\ cpu_to_idx[c] \in Nat
          BY <2>7, <3>1, <4>2, SizeLemma, Zenon DEF IInv, IndexInverse, TypeOK
        <5> QED
          BY <2>1, <2>2, <2>6, <5>1
      <4> QED
        BY <4>1, <4>2, Zenon
    <3>2. ASSUME NEW i \in 0 .. size' - 1 PROVE cpu_to_idx'[(elements'[i]).cpu] = i
      <4>1. CASE i = size
        BY <2>5, <2>6, <2>7, <4>1, Zenon
      <4>2. CASE i # size
        <5>1. i \in 0 .. size - 1 /\ i \in CPU
          BY <2>1, <2>2, <2>3, <4>2
        <5>2. /\ elements'[i] = elements[i] /\ cpu_to_idx[elements[i].cpu] = i
              /\ elements[i].cpu \in CPU /\ i # IDX_INVALID
          BY <2>6, <4>2, <5>1 DEF IInv, IndexInverse, TypeOK, IDX_INVALID
        <5> QED
          BY <1>2, <2>7, <5>2, Zenon
      <4> QED
        BY <4>1, <4>2, Zenon
    <3> QED
      BY <3>1, <3>2, Zenon DEF IndexInverse
  <2>10. HeapOrder'
    <3> SUFFICES ASSUME NEW i \in 1 .. size' - 1
                 PROVE  (elements'[i]).dl <= (elements'[parent(i)]).dl
      BY <2>4, Zenon DEF HeapOrder, Ordered
    <3>1. parent(i) \in 0 .. size - 1 /\ parent(i) \in CPU /\ i \in Nat /\ i > 0
      BY <2>1, <2>2, <2>3, ParentLemma
    <3>2. elements'[parent(i)] = elements[parent(i)] /\ elements[parent(i)].dl \in Nat
      BY <2>2, <2>6, <3>1 DEF IInv, TypeOK
    <3>3. CASE i = size
      BY <2>5, <2>6, <3>2, <3>3
    <3>4. CASE i # size
      <4>1. i \in 1 .. size - 1 /\ i \in CPU
        BY <2>1, <2>2, <2>3, <3>4
      <4>2. elements[i].dl <= elements[parent(i)].dl /\ elements'[i] = elements[i]
        BY <1>0, <2>6, <3>4, <4>1, Zenon DEF IInv, HeapOrder, Ordered
      <4> QED
        BY <3>2, <4>2, Zenon
    <3> QED
      BY <3>3, <3>4, Zenon
  <2>11. Place'
    <3>1. \A i \in 0 .. size' - 1 : (elements'[i]).dl > 0 \/ i = size
      <4>1. \A i \in 0 .. size - 1 : elements[i].dl > 0
        BY <1>0, Zenon DEF IInv, Place
      <4> QED
        BY <2>1, <2>2, <2>3, <2>6, <4>1, SMT, Zenon, SMTT(40)
    <3>2. set'.idx < size'
      BY <2>1, <2>2, <2>4
    <3> QED
      BY <2>3, <2>4, <2>7, <3>1, <3>2, ZenonT(60) DEF Place
  <2>12. Mask'
    <3> SUFFICES ASSUME NEW c \in CPU
                 PROVE  c \in free_cpus <=> IF cpu_to_idx'[c] = IDX_INVALID THEN TRUE ELSE c = cpu
      BY <1>0, <2>4, Zenon DEF Mask
    <3>1. c \in free_cpus <=> cpu_to_idx[c] = IDX_INVALID
      BY <1>0 DEF IInv, Mask
    <3> QED
      BY <1>2, <2>3, <2>7, <3>1, Zenon
  <2> QED
    BY <1>0, <2>8, <2>9, <2>10, <2>11, <2>12, Zenon DEF IInv
<1> QED
  BY <1>1, <1>2, Zenon

\* Whoever is in the heap has a place there, so the heap is not empty.
LEMMA InHeap ==
    ASSUME IInv, NEW c \in CPU, cpu_to_idx[c] # IDX_INVALID
    PROVE  size > 0
<1>1. cpu_to_idx[c] \in Nat /\ cpu_to_idx[c] < size /\ size \in Nat
  BY SizeLemma, Zenon DEF IInv, IndexInverse, TypeOK
<1> QED
  BY <1>1

\* While the lock is free, the entry of the root's CPU is the latest of all.
LEMMA LatestLemma ==
    ASSUME IInv, set.pc = "unlocked", size > 0
    PROVE  /\ elements[0].cpu \in CPU /\ Deadline(elements[0].cpu) = elements[0].dl
           /\ \A c \in CPU \ free_cpus : Deadline(c) <= elements[0].dl
<1>1. \A i \in 0 .. size - 1 : elements[i].dl <= elements[0].dl
  BY RootLemma DEF IInv, HeapOrder
<1>2. 0 \in 0 .. size - 1 /\ 0 \in CPU /\ size \in Nat
  BY SizeLemma DEF IInv
<1>3. elements[0].cpu \in CPU /\ cpu_to_idx[elements[0].cpu] = 0
  BY <1>2 DEF IInv, IndexInverse, TypeOK
<1>4. ASSUME NEW c \in CPU \ free_cpus PROVE Deadline(c) <= elements[0].dl
  <2>1. cpu_to_idx[c] # IDX_INVALID
    BY <1>4, Zenon DEF IInv, Mask
  <2>2. cpu_to_idx[c] \in CPU /\ cpu_to_idx[c] < size
    BY <1>4, <2>1, Zenon DEF IInv, IndexInverse, TypeOK
  <2>3. cpu_to_idx[c] \in 0 .. size - 1
    BY <1>2, <2>2, SizeLemma, Below, ZenonT(60) DEF IInv
  <2> QED
    BY <1>1, <2>3, Zenon DEF Deadline
<1> QED
  BY <1>3, <1>4, Zenon DEF Deadline

\* A step of a search changes nothing else.
LEMMA SearchOnly ==
    ASSUME IInv, UNCHANGED <<heap, set>>, find' \in Finding, Search', FindBestAlone'
    PROVE  IInv'
<1>1. UNCHANGED <<size, elements, cpu_to_idx, free_cpus, set>>
  BY DEF heap
<1> QED
  BY <1>1 DEF IInv, TypeOK, IndexInverse, HeapOrder, Bridged, Ordered, Place, MustRise, Mask

\* cpudl_find() starts, or finds a CPU in the mask.
LEMMA FindInv ==
    ASSUME IInv, NEW cpu \in CPU \cup {-1}, NEW n \in 1 .. MaxDl,
           NEW allowed \in (SUBSET CPU) \ {{}}, cpudl_find(cpu, n, allowed)
    PROVE  IInv'
<1> DEFINE f == [pc |-> "idle", cpu |-> cpu, dl |-> n, allowed |-> allowed, max |-> 0,
                 ret |-> -1, alone |-> set.pc = "unlocked"]
           mask == IF cpu = -1 THEN free_cpus \cap allowed ELSE {}
<1>1. /\ cpu # -1 => cpu_to_idx[cpu] # IDX_INVALID
      /\ \/ \E c \in mask : Found(f, c)
         \/ mask = {} /\ find' = [f EXCEPT !.pc = "max"] /\ UNCHANGED <<heap, set>>
  BY DEF cpudl_find
<1>2. 0 \in CPU /\ n \in 0 .. MaxDl /\ allowed \subseteq CPU /\ allowed # {} /\ free_cpus \subseteq CPU
  <2>1. 0 \in CPU /\ n \in 0 .. MaxDl
    BY SizeAssumption DEF CPU
  <2>2. allowed \subseteq CPU /\ allowed # {}
    OBVIOUS
  <2> QED
    BY <2>1, <2>2, Zenon DEF IInv, TypeOK
<1>3. CASE \E c \in mask : Found(f, c)
  <2>1. PICK c \in mask : Found(f, c)
    BY <1>3, Zenon
  <2>2. c \in CPU /\ c \in free_cpus
    BY <1>2
  <2>3. /\ find' = [pc |-> "done", cpu |-> cpu, dl |-> n, allowed |-> allowed, max |-> 0,
                    ret |-> c, alone |-> set.pc = "unlocked"]
        /\ UNCHANGED <<heap, set>>
    BY <2>1, ZenonT(60) DEF Found
  <2>4. find' \in Finding
    BY <1>2, <2>2, <2>3 DEF Finding
  <2>5. Search'
    BY <2>3, Zenon DEF Search
  <2>6. FindBestAlone'
    BY <2>2, <2>3 DEF FindBestAlone, heap
  <2> QED
    BY <2>3, <2>4, <2>5, <2>6, SearchOnly, Zenon
<1>4. CASE mask = {} /\ find' = [f EXCEPT !.pc = "max"] /\ UNCHANGED <<heap, set>>
  <2>1. find' = [pc |-> "max", cpu |-> cpu, dl |-> n, allowed |-> allowed, max |-> 0,
                 ret |-> -1, alone |-> set.pc = "unlocked"]
    BY <1>4
  <2>2. find' \in Finding
    BY <1>2, <2>1, Zenon DEF Finding
  <2>3. set.pc = "unlocked" => size > 0
    <3> SUFFICES ASSUME set.pc = "unlocked" PROVE size > 0
      OBVIOUS
    <3>1. CASE cpu = -1
      <4>1. PICK c \in allowed : c \notin free_cpus
        BY <1>2, <1>4, <3>1, Zenon
      <4>2. c \in CPU /\ cpu_to_idx[c] # IDX_INVALID
        BY <1>2, <4>1 DEF IInv, Mask
      <4> QED
        BY <4>2, InHeap
    <3>2. CASE cpu # -1
      BY <1>1, <3>2, InHeap, Zenon
    <3> QED
      BY <3>1, <3>2, Zenon
  <2>4. Search'
    BY <1>4, <2>1, <2>3, Zenon DEF Search, heap
  <2>5. FindBestAlone'
    BY <2>1 DEF FindBestAlone
  <2> QED
    BY <1>4, <2>2, <2>4, <2>5, SearchOnly
<1> QED
  BY <1>1, <1>3, <1>4

\* A search that finds nothing claims nothing.
LEMMA FoundNone ==
    ASSUME IInv, Found(find, -1), find.pc # "idle"
    PROVE  IInv'
<1>1. /\ find' = [find EXCEPT !.pc = "done", !.ret = -1] /\ UNCHANGED <<heap, set>>
  BY DEF Found
<1>2. /\ find' \in Finding /\ find'.pc = "done" /\ find'.ret = -1 /\ find'.alone = find.alone
  BY <1>1, Zenon DEF IInv, TypeOK, Finding
<1>3. Search'
  BY <1>1, <1>2 DEF IInv, Search
<1>4. FindBestAlone'
  BY <1>2 DEF FindBestAlone
<1> QED
  BY <1>1, <1>2, <1>3, <1>4, SearchOnly

\* The reads of the root.
LEMMA ReadInv ==
    ASSUME IInv, cpudl_maximum \/ FindLater \/ FindBest
    PROVE  IInv'
<1>a. 0 \in CPU
  BY SizeAssumption DEF CPU
<1>0. 0 \in CPU /\ elements[0].cpu \in CPU
  BY <1>a, Zenon DEF IInv, TypeOK
<1>1. CASE cpudl_maximum
  <2> DEFINE m == elements[0].cpu
  <2>1. CASE Found(find, -1)
    BY <1>1, <2>1, FoundNone DEF cpudl_maximum
  <2>2. CASE m \in find.allowed /\ find' = [find EXCEPT !.pc = "later", !.max = m]
             /\ UNCHANGED <<heap, set>>
    <3>1. /\ find' \in Finding /\ find'.pc = "later" /\ find'.max = m
          /\ find'.alone = find.alone /\ find'.allowed = find.allowed
      BY <1>0, <2>2, Zenon DEF IInv, TypeOK, Finding
    <3>2. Search' /\ FindBestAlone'
      BY <1>1, <2>2, <3>1 DEF IInv, Search, FindBestAlone, cpudl_maximum, heap
    <3> QED
      BY <2>2, <3>1, <3>2, SearchOnly
  <2> QED
    BY <1>1, <2>1, <2>2 DEF cpudl_maximum
<1>2. CASE FindLater
  <2>1. CASE Found(find, -1)
    BY <1>2, <2>1, FoundNone DEF FindLater
  <2>2. CASE dl_time_before(find.dl, elements[0].dl) /\ find' = [find EXCEPT !.pc = "best"]
             /\ UNCHANGED <<heap, set>>
    <3>1. /\ find' \in Finding /\ find'.pc = "best" /\ find'.max = find.max
          /\ find'.alone = find.alone /\ find'.allowed = find.allowed /\ find'.dl = find.dl
      BY <2>2 DEF IInv, TypeOK, Finding
    <3>2. Search' /\ FindBestAlone'
      BY <1>2, <2>2, <3>1 DEF IInv, Search, FindBestAlone, FindLater, heap, dl_time_before
    <3> QED
      BY <2>2, <3>1, <3>2, SearchOnly
  <2> QED
    BY <1>2, <2>1, <2>2 DEF FindLater
<1>3. CASE FindBest
  <2>1. PICK c \in {find.max, elements[0].cpu} : Found(find, c)
    BY <1>3 DEF FindBest
  <2>2. /\ find' = [find EXCEPT !.pc = "done", !.ret = c] /\ UNCHANGED <<heap, set>>
        /\ c \in CPU /\ find.pc = "best"
    BY <1>0, <1>3, <2>1, Zenon DEF Found, FindBest, IInv, TypeOK, Finding
  <2>3. /\ find' \in Finding /\ find'.pc = "done" /\ find'.ret = c
        /\ find'.alone = find.alone /\ find'.allowed = find.allowed /\ find'.dl = find.dl
    BY <2>2, Zenon DEF IInv, TypeOK, Finding
  <2>4. Search'
    BY <2>2, <2>3, SMT, Zenon, SMTT(40) DEF IInv, Search
  <2>5. FindBestAlone'
    <3> SUFFICES ASSUME find.alone
                 PROVE  /\ c \in find.allowed /\ find.dl < Deadline(c)
                        /\ \A b \in CPU \ free_cpus : Deadline(b) <= Deadline(c)
      BY <2>2, <2>3 DEF FindBestAlone, Deadline, heap
    <3>1. /\ set.pc = "unlocked" /\ size > 0 /\ c = elements[0].cpu /\ c \in find.allowed
          /\ find.dl < elements[0].dl
      BY <2>2, SMT, Zenon, SMTT(40) DEF IInv, Search
    <3> QED
      BY <3>1, LatestLemma
  <2> QED
    BY <2>2, <2>3, <2>4, <2>5, SearchOnly, Zenon
<1> QED
  BY <1>1, <1>2, <1>3

\* cpudl_find() returns.
LEMMA ReturnInv ==
    ASSUME IInv, FindReturn
    PROVE  IInv'
<1>1. find' = NotFinding /\ UNCHANGED <<heap, set>>
  BY Zenon DEF FindReturn
<1>2. find' \in Finding /\ find'.pc = "idle"
  BY <1>1, SizeAssumption DEF Finding, NotFinding, CPU
<1> QED
  BY <1>1, <1>2, SearchOnly DEF Search, FindBestAlone

\* cpudl_init() establishes the invariant.
LEMMA InitInv == Init => IInv
<1> SUFFICES ASSUME Init PROVE IInv
  OBVIOUS
<1>1. 0 \in CPU /\ 0 \in 0 .. MaxDl /\ size = 0 /\ NCPU \in Nat
  BY SizeAssumption DEF CPU, Init
<1>2. set = Unlocked /\ set.pc = "unlocked" /\ ~set.fresh /\ find = NotFinding /\ find.pc = "idle"
  BY Zenon DEF Init, Unlocked, NotFinding
<1>3. TypeOK
  <2>1. set \in Setting
    BY <1>1, <1>2, Zenon DEF Setting, Unlocked
  <2>2. find \in Finding
    BY <1>1, <1>2, Zenon DEF Finding, NotFinding
  <2> QED
    BY <1>1, <2>1, <2>2 DEF Init, TypeOK
<1>4. IndexInverse /\ HeapOrder /\ Place /\ Mask
  BY <1>1, <1>2 DEF Init, IndexInverse, HeapOrder, Place, Mask
<1> QED
  BY <1>2, <1>3, <1>4, Zenon DEF IInv, Search, FindBestAlone

\* Every step preserves the invariant.
LEMMA StepInv == IInv /\ [Next]_vars => IInv'
<1> SUFFICES ASSUME IInv, [Next]_vars PROVE IInv'
  OBVIOUS
<1>1. CASE cpudl_heapify \/ cpudl_change_key \/ MoveUp \/ MoveLast
  BY <1>1, HeapifyInv, ChangeKeyInv, MoveUpInv, MoveLastInv, Zenon
<1>2. CASE \E cpu \in CPU : Remove(cpu) \/ \E n \in 1 .. MaxDl : Insert(cpu, n)
  BY <1>2, RemoveInv, InsertInv, Zenon
<1>3. CASE \E cpu \in CPU \cup {-1}, n \in 1 .. MaxDl, allowed \in (SUBSET CPU) \ {{}} :
              cpudl_find(cpu, n, allowed)
  BY <1>3, FindInv
<1>4. CASE cpudl_maximum \/ FindLater \/ FindBest \/ FindReturn
  BY <1>4, ReadInv, ReturnInv, Zenon
<1>5. CASE UNCHANGED vars
  <2>1. UNCHANGED <<heap, set>> /\ find' = find /\ UNCHANGED heap
    BY <1>5, Zenon DEF vars, heap
  <2>2. find' \in Finding /\ Search' /\ FindBestAlone'
    BY <1>5, Zenon DEF vars, IInv, TypeOK, Search, FindBestAlone, Deadline
  <2> QED
    BY <2>1, <2>2, SearchOnly, Zenon
<1> QED
  BY <1>1, <1>2, <1>3, <1>4, <1>5, Zenon DEF Next

\* The invariant contains what the runs check.
LEMMA InvImplies == IInv => TypeOK /\ IndexInverse /\ RootIsLatest /\ FindBestAlone
<1> SUFFICES ASSUME IInv PROVE RootIsLatest
  BY DEF IInv
<1> SUFFICES ASSUME set.pc = "unlocked"
             PROVE  /\ \A i \in 0 .. size - 1 : elements[i].dl <= elements[0].dl
                    /\ free_cpus = {c \in CPU : cpu_to_idx[c] = IDX_INVALID}
  BY Zenon DEF RootIsLatest
<1>1. \A i \in 0 .. size - 1 : elements[i].dl <= elements[0].dl
  BY RootLemma, Zenon DEF IInv, HeapOrder
<1>2. free_cpus \subseteq CPU /\ \A c \in CPU : c \in free_cpus <=> cpu_to_idx[c] = IDX_INVALID
  BY DEF IInv, TypeOK, Mask, Place
<1> QED
  BY <1>1, <1>2

\* Index, heap order at every place of cpudl_set(), mask and searches: the inductive
\* invariant holds of every reachable state of the heap.
THEOREM Invariance == Spec => []IInv
  BY InitInv, StepInv, PTL DEF Spec

\* No loop of cpudl_set() leaves the arrays, and the heap never outgrows them.
THEOREM TypeCorrect == Spec => []TypeOK
  BY Invariance, InvImplies, PTL

\* The index from CPUs to heap places is the inverse of the heap, at every step.
THEOREM IndexCorrect == Spec => []IndexInverse
  BY Invariance, InvImplies, PTL

\* Whenever cp->lock is free, the root is the latest deadline and the mask is exact.
THEOREM HeapCorrect == Spec => []RootIsLatest
  BY Invariance, InvImplies, PTL

\* A search that no cpudl_set() overlaps returns a CPU without -deadline tasks, or the
\* one with the latest deadline, if the task may run there and is earlier.
THEOREM FindCorrect == Spec => []FindBestAlone
  BY Invariance, InvImplies, PTL
-----------------------------------------------------------------------------
(* The heap implements the map.                                            *)

Entries == [c \in CPU |-> Entry(c)]

\* The loops move elements, not entries.
LEMMA ExchangeEntries ==
    ASSUME IInv, NEW a \in 0 .. size - 1, NEW b \in 0 .. size - 1, a # b,
           cpudl_exchange(a, b), size' = size, set.pc # "key", set'.pc # "key"
    PROVE  Entries' = Entries
<1>1. \A c \in CPU :
         /\ cpu_to_idx'[c] = IDX_INVALID <=> cpu_to_idx[c] = IDX_INVALID
         /\ cpu_to_idx[c] # IDX_INVALID =>
               elements'[cpu_to_idx'[c]].dl = elements[cpu_to_idx[c]].dl
  BY ExchangeLemma, Zenon DEF IInv
<1>2. \A c \in CPU : Entry(c)' = Entry(c)
  BY <1>1, Zenon DEF Entry, Deadline
<1> QED
  BY <1>2, Zenon DEF Entries

\* Where neither elements nor index change, entries do not.
LEMMA SameEntries ==
    ASSUME UNCHANGED <<elements, cpu_to_idx>>,
           \A c \in CPU : set'.pc = "key" /\ set'.fresh /\ set'.cpu = c <=>
                          set.pc = "key" /\ set.fresh /\ set.cpu = c
    PROVE  Entries' = Entries
  BY Zenon DEF Entries, Entry, Deadline

\* cpudl_set(), after its first writes, changes one entry at most: that of its CPU.
LEMMA KeyEntries ==
    ASSUME IInv, cpudl_change_key
    PROVE  Entries' = [Entries EXCEPT ![set.cpu] = set.dl] /\ set.cpu \in CPU /\ set.dl \in 1 .. MaxDl
<1>1. /\ set.pc = "key" /\ elements' = [elements EXCEPT ![set.idx].dl = set.dl]
      /\ UNCHANGED <<size, cpu_to_idx, free_cpus>>
  BY DEF cpudl_change_key
<1>2. set'.pc # "key"
  <2> DEFINE way == IF dl_time_before(set.dl, elements[set.idx].dl) THEN "down" ELSE "up"
  <2>1. set' = [set EXCEPT !.pc = way] /\ way \in {"down", "up"}
    BY DEF cpudl_change_key
  <2> HIDE DEF way
  <2> QED
    BY <2>1 DEF IInv, TypeOK, Setting
<1>3. /\ set.cpu \in CPU /\ set.dl \in 1 .. MaxDl /\ set.idx \in CPU
      /\ cpu_to_idx[set.cpu] = set.idx /\ set.idx # IDX_INVALID
  BY <1>1, SizeLemma, SizeAssumption DEF IInv, Place, TypeOK, Setting, IDX_INVALID
<1>4. ASSUME NEW c \in CPU
      PROVE  Entry(c)' = IF c = set.cpu THEN set.dl ELSE Entry(c)
  <2>1. Entry(c)' = IF cpu_to_idx[c] = IDX_INVALID THEN None ELSE (elements'[cpu_to_idx[c]]).dl
    BY <1>1, <1>2 DEF Entry, Deadline, None
  <2>2. CASE c = set.cpu
    BY <1>1, <1>3, <2>1, <2>2 DEF IInv, TypeOK
  <2>3. CASE c # set.cpu
    <3>1. cpu_to_idx[c] # IDX_INVALID =>
             /\ cpu_to_idx[c] \in CPU /\ elements[cpu_to_idx[c]].cpu = c
      BY Zenon DEF IInv, IndexInverse, TypeOK
    <3>2. cpu_to_idx[c] # IDX_INVALID => cpu_to_idx[c] # set.idx
      BY <1>3, <2>3, <3>1, Zenon DEF IInv, IndexInverse
    <3>3. cpu_to_idx[c] # IDX_INVALID => elements'[cpu_to_idx[c]] = elements[cpu_to_idx[c]]
      BY <1>1, <1>3, <3>1, <3>2, Zenon DEF IInv, TypeOK
    <3> QED
      BY <2>1, <2>3, <3>3, Zenon DEF Entry, Deadline
  <2> QED
    BY <2>2, <2>3
<1> QED
  BY <1>3, <1>4, Zenon DEF Entries

\* Removing a CPU withdraws its entry and leaves every other.
LEMMA RemoveEntries ==
    ASSUME IInv, NEW cpu \in CPU, Remove(cpu)
    PROVE  Entries[cpu] # None /\ Entries' = [Entries EXCEPT ![cpu] = None]
<1> DEFINE o == cpu_to_idx[cpu]
           z == size - 1
           nc == elements[z].cpu
<1>1. /\ set.pc = "unlocked" /\ o # IDX_INVALID
      /\ elements' = [elements EXCEPT ![o] = elements[z]]
      /\ cpu_to_idx' = [cpu_to_idx EXCEPT ![nc] = o, ![cpu] = IDX_INVALID]
      /\ set'.pc = "remove"
  BY Zenon, SMT, SMTT(40) DEF Remove
<1>2. /\ size \in Nat /\ o \in 0 .. z /\ o \in CPU /\ elements[o].cpu = cpu /\ z \in CPU
      /\ elements[o].dl > 0
  BY <1>1, SizeLemma DEF IInv, IndexInverse, TypeOK, Place
<1>3. nc \in CPU /\ cpu_to_idx[nc] = z
  BY <1>2 DEF IInv, IndexInverse, TypeOK
<1>4. Entries[cpu] # None
  BY <1>1, <1>2 DEF Entries, Entry, Deadline, None
<1>5. ASSUME NEW c \in CPU
      PROVE  Entry(c)' = IF c = cpu THEN None ELSE Entry(c)
  <2>0. /\ elements'[o] = elements[z] /\ \A i \in CPU : i # o => elements'[i] = elements[i]
        /\ cpu_to_idx'[cpu] = IDX_INVALID /\ (nc # cpu => cpu_to_idx'[nc] = o)
        /\ (c # cpu /\ c # nc => cpu_to_idx'[c] = cpu_to_idx[c])
    BY <1>1, <1>2, <1>3, Zenon DEF IInv, TypeOK
  <2>1. /\ Entry(c)' = IF cpu_to_idx'[c] = IDX_INVALID THEN None ELSE elements'[cpu_to_idx'[c]].dl
        /\ Entry(c) = IF cpu_to_idx[c] = IDX_INVALID THEN None ELSE elements[cpu_to_idx[c]].dl
    BY <1>1 DEF Entry, Deadline, None
  <2>2. CASE c = cpu
    BY <2>0, <2>1, <2>2, ZenonT(60)
  <2>3. CASE c # cpu /\ c = nc
    <3>1. z # IDX_INVALID
      BY <1>2 DEF IDX_INVALID
    <3>2. cpu_to_idx'[c] = o
      BY <2>0, <2>3, Zenon
    <3>3. Entry(c)' = elements[z].dl
      BY <1>1, <2>0, <2>1, <3>2, Zenon
    <3>4. Entry(c) = elements[z].dl
      BY <1>3, <2>1, <2>3, <3>1, Zenon
    <3> QED
      BY <2>3, <3>3, <3>4, Zenon
  <2>4. CASE c # cpu /\ c # nc
    <3>1. cpu_to_idx[c] # IDX_INVALID =>
             cpu_to_idx[c] \in CPU /\ elements[cpu_to_idx[c]].cpu = c
      BY DEF IInv, IndexInverse, TypeOK
    <3> QED
      BY <1>2, <2>0, <2>1, <2>4, <3>1, Zenon
  <2> QED
    BY <2>2, <2>3, <2>4, Zenon
<1> QED
  BY <1>4, <1>5, Zenon DEF Entries

\* A new CPU has no entry before its key is stored.
LEMMA InsertEntries ==
    ASSUME IInv, NEW cpu \in CPU, NEW n \in 1 .. MaxDl, Insert(cpu, n)
    PROVE  Entries' = Entries
<1>0. set.pc = "unlocked" /\ set'.pc = "key" /\ set'.cpu = cpu
  BY DEF Insert
<1>1. CASE cpu_to_idx[cpu] # IDX_INVALID
  BY <1>0, <1>1, SameEntries DEF Insert
<1>2. CASE cpu_to_idx[cpu] = IDX_INVALID
  <2>1. /\ set'.fresh
        /\ elements' = [elements EXCEPT ![size] = [dl |-> 0, cpu |-> cpu]]
        /\ cpu_to_idx' = [cpu_to_idx EXCEPT ![cpu] = size]
    BY <1>2 DEF Insert
  <2>2. ASSUME NEW c \in CPU PROVE Entry(c)' = Entry(c)
    <3>1. CASE c = cpu
      BY <1>0, <1>2, <2>1, <3>1, Zenon DEF Entry
    <3>2. CASE c # cpu
      <4>1. cpu_to_idx'[c] = cpu_to_idx[c]
        BY <2>1, <3>2, Zenon DEF IInv, TypeOK
      <4>2. cpu_to_idx[c] # IDX_INVALID => cpu_to_idx[c] \in CPU /\ cpu_to_idx[c] # size
        BY SizeLemma DEF IInv, IndexInverse, TypeOK
      <4>3. cpu_to_idx[c] # IDX_INVALID => elements'[cpu_to_idx[c]] = elements[cpu_to_idx[c]]
        BY <2>1, <4>2, Zenon DEF IInv, TypeOK
      <4> QED
        BY <1>0, <3>2, <4>1, <4>3, Zenon DEF Entry, Deadline
    <3> QED
      BY <3>1, <3>2, Zenon
  <2> QED
    BY <2>2, Zenon DEF Entries
<1> QED
  BY <1>1, <1>2, Zenon

\* Every step of the heap is a step of the map, or changes no entry.
LEMMA StepMap == IInv /\ [Next]_vars => [Map!Next]_Entries
<1> SUFFICES ASSUME IInv, [Next]_vars
             PROVE  \/ Entries' = Entries
                    \/ \E c \in CPU : Entries[c] # None /\ Entries' = [Entries EXCEPT ![c] = None]
                    \/ \E c \in CPU, n \in 1 .. MaxDl : Entries' = [Entries EXCEPT ![c] = n]
  BY Zenon DEF Map!Next, Map!Clear, Map!Set, Entries
<1>1. CASE cpudl_heapify
  <2> DEFINE k == set.idx
             g == Largest(k)
  <2>1. TypeOK /\ set.pc = "down" /\ k \in Nat /\ k <= size
    BY <1>1 DEF IInv, cpudl_heapify, Place, TypeOK, Setting, CPU
  <2>2. CASE g = k
    <3>1. UNCHANGED <<elements, cpu_to_idx>> /\ set' = Unlocked
      BY <1>1, <2>2 DEF cpudl_heapify, Release
    <3> QED
      BY <2>1, <3>1, SameEntries DEF Unlocked
  <2>3. CASE g # k
    <3>1. g \in 1 .. size - 1 /\ parent(g) = k
      BY <2>1, <2>3, LargestLemma, Zenon
    <3>2. g \in 0 .. size - 1 /\ k \in 0 .. size - 1
      BY <2>1, <3>1, SizeLemma, ParentLemma
    <3>3. cpudl_exchange(g, k) /\ size' = size /\ set'.pc # "key"
      BY <1>1, <2>1, <2>3, Zenon DEF cpudl_heapify, IInv, TypeOK, Setting
    <3> QED
      BY <2>1, <2>3, <3>2, <3>3, ExchangeEntries
  <2> QED
    BY <2>2, <2>3
<1>2. CASE cpudl_change_key
  BY <1>2, KeyEntries, Zenon
<1>3. CASE (MoveUp \/ MoveLast) /\ MustRise(set.idx)
  <2> DEFINE k == set.idx
             p == parent(k)
  <2>1. TypeOK /\ k \in Nat /\ k < size /\ k > 0 /\ set.pc # "key"
    BY <1>3, SizeLemma DEF IInv, Place, TypeOK, Setting, CPU, MustRise, MoveUp, MoveLast
  <2>2. p \in 0 .. size - 1 /\ k \in 0 .. size - 1 /\ p # k
    BY <2>1, SizeLemma, ParentLemma
  <2>3. cpudl_exchange(k, p) /\ size' = size /\ set'.pc # "key"
    BY <1>3, <2>1, Zenon DEF MoveUp, MoveLast, Rise, TypeOK, Setting
  <2> HIDE DEF k, p
  <2> QED
    BY <2>1, <2>2, <2>3, ExchangeEntries, Zenon
<1>4. CASE (MoveUp \/ MoveLast) /\ ~MustRise(set.idx)
  <2>1. UNCHANGED <<elements, cpu_to_idx>> /\ set.pc # "key" /\ set'.pc # "key"
    BY <1>4 DEF MoveUp, MoveLast, Release, Unlocked, IInv, TypeOK, Setting
  <2> QED
    BY <2>1, SameEntries
<1>5. CASE \E cpu \in CPU : Remove(cpu) \/ \E n \in 1 .. MaxDl : Insert(cpu, n)
  BY <1>5, RemoveEntries, InsertEntries, Zenon
<1>6. CASE \/ \E cpu \in CPU \cup {-1}, n \in 1 .. MaxDl, allowed \in (SUBSET CPU) \ {{}} :
                 cpudl_find(cpu, n, allowed)
           \/ cpudl_maximum \/ FindLater \/ FindBest \/ FindReturn \/ UNCHANGED vars
  <2>1. UNCHANGED <<elements, cpu_to_idx, set>>
    BY <1>6, ZenonT(60) DEF cpudl_find, cpudl_maximum, FindLater, FindBest, FindReturn, Found, heap, vars
  <2> QED
    BY <2>1, SameEntries, Zenon
<1> QED
  BY <1>1, <1>2, <1>3, <1>4, <1>5, <1>6, Zenon DEF Next

\* The heap implements the map of CPUs to earliest deadlines: sifting moves elements
\* but loses, duplicates or changes no CPU's entry.
THEOREM Refinement == Spec => MapSpec
<1>1. Init => Map!Init
  BY DEF Init, Map!Init, Entry, None
<1>2. IInv /\ [Next]_vars => [Map!Next]_Entries
  BY StepMap, Zenon
<1> QED
  BY <1>1, <1>2, Invariance, PTL DEF Spec, MapSpec, Map!Spec, Entries
-----------------------------------------------------------------------------
(* The bandwidth of the root domains.                                      *)

Handlers == {"rt", "dl"}

\* The structures have their members; nothing is said of the values stored in them.
Bws(V)    == [Domain -> [bw : V, total_bw : V]]
Record(V) == [pc : V, old : V, bw : V, i : 0 .. NCPU]
Shape == (\E V : dl_bw \in Bws(V)) /\ (\E V : hnd \in [Handlers -> Record(V)])

\* At most one handler holds dl_runtime_lock.
OneHolder == ~(Holds("rt") /\ Holds("dl"))

\* update_dl_bw() has stored its value in the domains of the CPUs it has passed.
Stored ==
    \A h \in Handlers : hnd[h].pc = "update" =>
        \A c \in 0 .. hnd[h].i - 1 : dl_bw[rd[c]].bw = hnd[h].bw

\* The caps agree unless a handler is in the middle of update_dl_bw().
Agree ==
    (\A h \in Handlers : hnd[h].pc # "update") => \A c, d \in Domain : dl_bw[c].bw = dl_bw[d].bw

BwInv == Shape /\ OneHolder /\ Stored /\ Agree

\* The state init_rootdomain() and sched_init() leave.
LEMMA InitBw == BwInit => BwInv
  <1> SUFFICES ASSUME BwInit PROVE BwInv
    OBVIOUS
  <1> DEFINE V == {"idle", Default, 0, to_ratio(Default.rt_period, Default.dl_runtime)}
  <1>1. dl_bw \in Bws(V) /\ hnd \in [Handlers -> Record(V)]
    BY BandwidthAssumption DEF BwInit, Bws, Record, Handlers, Idle
  <1>2. OneHolder /\ Stored /\ Agree
    BY BandwidthAssumption, Zenon DEF BwInit, OneHolder, Stored, Agree, Holds, Handlers, Idle
  <1> QED BY <1>1, <1>2, ZenonT(60) DEF BwInv, Shape

\* Steps that leave the caps and the handlers alone: admission, exit, migration.
LEMMA CapsKept ==
  ASSUME BwInv, UNCHANGED hnd, NEW V, dl_bw' \in Bws(V),
         \A d \in Domain : dl_bw'[d].bw = dl_bw[d].bw
  PROVE  BwInv'
  <1>1. Shape'
    BY Zenon DEF BwInv, Shape
  <1>2. \A h \in Handlers : \A c \in 0 .. hnd[h].i - 1 : rd[c] \in Domain
    BY BandwidthAssumption DEF BwInv, Shape, Record, Domain, CPU
  <1>3. Stored'
    BY <1>2, Zenon DEF BwInv, Stored
  <1>4. Agree' /\ OneHolder'
    BY DEF BwInv, Agree, OneHolder, Holds
  <1> QED BY <1>1, <1>3, <1>4, Zenon DEF BwInv

\* __dl_add() and __dl_clear() change total_bw only.
LEMMA GrantKeeps ==
  ASSUME BwInv, UNCHANGED hnd, NEW d, NEW x, dl_bw' = [dl_bw EXCEPT ![d].total_bw = x]
  PROVE  BwInv'
  <1> PICK V : dl_bw \in Bws(V)
    BY DEF BwInv, Shape
  <1>1. dl_bw' \in Bws(V \cup {x}) /\ \A e \in Domain : dl_bw'[e].bw = dl_bw[e].bw
    BY Zenon DEF Bws
  <1> QED BY <1>1, CapsKept, Zenon

\* A step that leaves both alone.
LEMMA Untouched == ASSUME BwInv, UNCHANGED hnd, UNCHANGED dl_bw PROVE BwInv'
  <1> PICK V : dl_bw \in Bws(V)
    BY DEF BwInv, Shape
  <1> QED BY CapsKept

\* A handler that moves on without touching the caps, and without entering
\* update_dl_bw(); it takes dl_runtime_lock only if the other does not hold it.
LEMMA HandlerMoves ==
  ASSUME BwInv, UNCHANGED dl_bw, NEW h \in Handlers, NEW V, NEW r \in Record(V),
         hnd' = [hnd EXCEPT ![h] = r],
         r.pc # "update", hnd[h].pc # "update",
         h = "dl" /\ r.pc \in {"check", "commit", "restore"} => LockFree(h)
  PROVE  BwInv'
  <1> PICK W : hnd \in [Handlers -> Record(W)]
    BY Zenon DEF BwInv, Shape
  <1>1. \A k \in Handlers : hnd'[k] = IF k = h THEN r ELSE hnd[k]
    OBVIOUS
  <1>2. hnd' \in [Handlers -> Record(V \cup W)]
    BY DEF Record
  <1>3. Shape'
    BY <1>2, Zenon DEF BwInv, Shape
  <1>4. OneHolder'
    BY <1>1 DEF BwInv, OneHolder, Holds, LockFree, Handlers
  <1>5. Stored'
    BY <1>1 DEF BwInv, Stored
  <1>6. Agree'
    BY <1>1 DEF BwInv, Agree
  <1> QED BY <1>3, <1>4, <1>5, <1>6, Zenon DEF BwInv

\* Every operation of a task.
LEMMA TaskSteps ==
  ASSUME BwInv, NEW p \in Task,
         \/ \E prm \in Params : setscheduler_dl(p, prm)
         \/ setscheduler_normal(p) \/ task_dead(p)
         \/ \E current \in Task : sched_fork(current, p)
         \/ \E cpu \in CPU : __migrate_task(p, cpu)
         \/ set_task_cpu_dl(p)
  PROVE  BwInv'
  <1>1. ASSUME NEW prm \in Params, setscheduler_dl(p, prm) PROVE BwInv'
    BY <1>1, Untouched, GrantKeeps, Zenon DEF setscheduler_dl, dl_overflow, Grant
  <1>2. ASSUME setscheduler_normal(p) \/ task_dead(p) PROVE BwInv'
    BY <1>2, Untouched, GrantKeeps, Zenon DEF setscheduler_normal, task_dead, Grant
  <1>3. ASSUME NEW q \in Task, sched_fork(q, p) PROVE BwInv'
    BY <1>3, Untouched, Zenon DEF sched_fork
  <1>4. ASSUME NEW cpu \in CPU, __migrate_task(p, cpu) PROVE BwInv'
    BY <1>4, Untouched, Zenon DEF __migrate_task
  <1>5. ASSUME set_task_cpu_dl(p) PROVE BwInv'
    <2> PICK cpu :
          /\ \/ UNCHANGED dl_bw
             \/ dl_bw' = [d \in Domain |-> [bw |-> dl_bw[d].bw, total_bw |->
                             CASE d = rd[tsk[p].cpu] -> (dl_bw[d].total_bw - tsk[p].dl_bw) % U64
                               [] d = rd[cpu] -> (dl_bw[d].total_bw + tsk[p].dl_bw) % U64
                               [] OTHER -> dl_bw[d].total_bw]]
          /\ UNCHANGED hnd
      BY <1>5, Zenon DEF set_task_cpu_dl
    <2> PICK x, y : /\ x = (dl_bw[rd[tsk[p].cpu]].total_bw - tsk[p].dl_bw) % U64
                    /\ y = (dl_bw[rd[cpu]].total_bw + tsk[p].dl_bw) % U64
      BY Zenon
    <2> PICK V : dl_bw \in Bws(V)
      BY ZenonT(60) DEF BwInv, Shape
    <2>1. dl_bw' \in Bws(V \cup {x, y}) /\ \A e \in Domain : dl_bw'[e].bw = dl_bw[e].bw
      BY DEF Bws
    <2> QED BY <2>1, CapsKept, Zenon
  <1> QED BY <1>1, <1>2, <1>3, <1>4, <1>5

\* proc_dointvec() and every step of a handler.
LEMMA HandlerSteps ==
  ASSUME BwInv, NEW h \in Handlers, Handler(h) \/ \E w \in Writes : w.handler = h /\ Write(h, w.knob, w.value)
  PROVE  BwInv'
  <1> USE DEF Handlers
  <1> PICK V : hnd \in [Handlers -> Record(V)]
    BY DEF BwInv, Shape
  <1>0. hnd[h] \in Record(V)
    OBVIOUS
  <1>a. Holds("dl") => LockFree("dl")
    BY Zenon DEF BwInv, OneHolder, LockFree
  <1>1. ASSUME NEW w \in Writes, Write(h, w.knob, w.value) PROVE BwInv'
    <2> DEFINE r == [pc |-> "start", old |-> sysctl, bw |-> 0, i |-> 0]
    <2>1. hnd' = [hnd EXCEPT ![h] = r] /\ UNCHANGED dl_bw /\ hnd[h].pc = "idle"
      BY <1>1, SMT, Zenon, SMTT(40) DEF Write
    <2>2. r \in Record({"start", sysctl, 0}) /\ r.pc = "start"
      BY BandwidthAssumption DEF Record
    <2> HIDE DEF r
    <2> QED BY <2>1, <2>2, HandlerMoves, Zenon
  <1>2. ASSUME NEW pc \in {"check", "restore", "commit"}, NEW bw, NEW i \in 0 .. NCPU,
               Goto(h, pc, bw, i), UNCHANGED dl_bw, hnd[h].pc # "update", h = "dl" => LockFree(h)
        PROVE  BwInv'
    <2> DEFINE r == [pc |-> pc, old |-> hnd[h].old, bw |-> bw, i |-> i]
    <2>1. r \in Record(V \cup {pc, bw}) /\ r.pc = pc
      BY <1>0 DEF Record
    <2>2. hnd' = [hnd EXCEPT ![h] = r]
      BY <1>2 DEF Goto
    <2> HIDE DEF r
    <2> QED BY <1>2, <2>1, <2>2, HandlerMoves, ZenonT(60)
  <1>3. ASSUME global_constraints(h) \/ check_dl_bw(h) PROVE BwInv'
    <2>1. CASE global_constraints(h)
      <3>1. 0 \in 0 .. NCPU
        BY BandwidthAssumption
      <3> QED BY <2>1, <3>1, <1>2, Zenon DEF global_constraints
    <2>2. CASE check_dl_bw(h)
      <3>1. 0 \in 0 .. NCPU /\ (hnd[h].i < NCPU => hnd[h].i + 1 \in 0 .. NCPU)
        BY <1>0, BandwidthAssumption DEF Record
      <3>2. UNCHANGED dl_bw /\ hnd[h].pc = "check" /\ (h = "dl" => LockFree(h))
        BY <2>2, <1>a, Zenon DEF check_dl_bw, Holds
      <3> QED BY <2>2, <3>1, <3>2, <1>2, Zenon DEF check_dl_bw
    <2> QED BY <1>3, <2>1, <2>2
  <1>4. ASSUME Restore(h) PROVE BwInv'
    <2>1. hnd' = [hnd EXCEPT ![h] = Idle] /\ UNCHANGED dl_bw /\ hnd[h].pc = "restore"
      BY <1>4 DEF Restore
    <2>2. Idle \in Record({"idle", Default, 0}) /\ Idle.pc = "idle"
      BY BandwidthAssumption DEF Record, Idle
    <2> QED BY <2>1, <2>2, HandlerMoves, Zenon
  <1>5. ASSUME Commit(h) PROVE BwInv'
    <2> PICK bw : Goto(h, "update", bw, 0)
      BY <1>5, Zenon DEF Commit
    <2> DEFINE r == [pc |-> "update", old |-> hnd[h].old, bw |-> bw, i |-> 0]
    <2>0. r \in Record(V \cup {"update", bw})
      BY <1>0, BandwidthAssumption DEF Record
    <2>1. hnd' = [hnd EXCEPT ![h] = r]
      BY Zenon DEF Goto
    <2>2. UNCHANGED dl_bw /\ LockFree(h)
      BY <1>5, Zenon DEF Commit
    <2>3. r.pc = "update" /\ r.i = 0 /\ \A k \in Handlers : hnd'[k] = IF k = h THEN r ELSE hnd[k]
      BY <2>1, Zenon
    <2> HIDE DEF r
    <2>4. hnd' \in [Handlers -> Record(V \cup {"update", bw})]
      BY <2>0, <2>1, Zenon DEF Record
    <2>5. Shape'
      BY <2>2, <2>4, Zenon DEF BwInv, Shape
    <2>6. OneHolder' /\ Agree'
      BY <2>2, <2>3, ZenonT(60) DEF OneHolder, Holds, LockFree, Agree
    <2>7. Stored'
      BY <2>2, <2>3 DEF BwInv, Stored
    <2> QED BY <2>5, <2>6, <2>7 DEF BwInv
  <1>6. ASSUME update_dl_bw(h) PROVE BwInv'
    <2>0. hnd[h].pc = "update"
      BY <1>6, Zenon DEF update_dl_bw
    <2>1. CASE hnd[h].i = NCPU /\ hnd' = [hnd EXCEPT ![h] = Idle] /\ UNCHANGED dl_bw
      <3>0. Idle \in Record({"idle", Default, 0}) /\ Idle.pc = "idle"
        BY BandwidthAssumption DEF Record, Idle
      <3>1. \A k \in Handlers : hnd'[k] = IF k = h THEN Idle ELSE hnd[k]
        BY <2>1, Zenon
      <3>2. \A d \in Domain : dl_bw[d].bw = hnd[h].bw
        BY <2>0, <2>1, BandwidthAssumption, Zenon DEF BwInv, Stored, Domain, CPU
      <3>3. hnd' \in [Handlers -> Record(V \cup {"idle", Default, 0})]
        BY <2>1, <3>0, Zenon DEF Record
      <3>4. Shape'
        BY <2>1, <3>3, Zenon DEF BwInv, Shape
      <3>5. OneHolder' /\ Stored'
        BY <2>0, <2>1, <3>0, <3>1, Zenon DEF BwInv, OneHolder, Holds, Stored
      <3>6. Agree'
        BY <2>1, <3>2, Zenon DEF Agree
      <3> QED BY <3>4, <3>5, <3>6, Zenon DEF BwInv
    <2>2. CASE /\ hnd[h].i < NCPU
               /\ dl_bw' = [dl_bw EXCEPT ![ThisDomain(h)].bw = hnd[h].bw]
               /\ Goto(h, "update", hnd[h].bw, hnd[h].i + 1)
      <3> DEFINE d == ThisDomain(h)
                 r == [pc |-> "update", old |-> hnd[h].old, bw |-> hnd[h].bw, i |-> hnd[h].i + 1]
      <3> PICK W : dl_bw \in Bws(W)
        BY DEF BwInv, Shape
      <3>0. r \in Record(V \cup {"update"}) /\ hnd' = [hnd EXCEPT ![h] = r]
        BY <1>0, <2>2, BandwidthAssumption DEF Record, Goto
      <3>1. /\ r.pc = "update" /\ r.bw = hnd[h].bw /\ r.i = hnd[h].i + 1
            /\ \A k \in Handlers : hnd'[k] = IF k = h THEN r ELSE hnd[k]
        BY <2>0, <3>0, Zenon
      <3> HIDE DEF r
      <3>2. \A e \in Domain : dl_bw'[e].bw = IF e = d THEN hnd[h].bw ELSE dl_bw[e].bw
        BY <2>2, Zenon DEF Bws
      <3>3. Shape'
        <4>1. dl_bw' \in Bws(W \cup {hnd[h].bw})
          BY <2>2, Zenon DEF Bws
        <4>2. hnd' \in [Handlers -> Record(V \cup {"update"})]
          BY <3>0 DEF Record
        <4> QED BY <4>1, <4>2, Zenon DEF Shape
      <3>4. OneHolder'
        BY <3>1, <2>0, SMT, Zenon, SMTT(40) DEF BwInv, OneHolder, Holds
      <3>5. Stored'
        <4> SUFFICES ASSUME NEW k \in Handlers, hnd'[k].pc = "update",
                            NEW c \in 0 .. hnd'[k].i - 1
                     PROVE  dl_bw'[rd[c]].bw = hnd'[k].bw
          BY Zenon DEF Stored
        <4>1. k = h
          BY <3>1, <2>0, Zenon DEF BwInv, OneHolder, Holds
        <4>2. c \in 0 .. hnd[h].i /\ c \in CPU
          BY <4>1, <3>1, <1>0, <2>2, BandwidthAssumption, SMT, Zenon, SMTT(40) DEF CPU, Record
        <4>3. rd[c] \in Domain
          BY <4>2, Zenon DEF Domain
        <4>4. CASE c = hnd[h].i
          BY <4>1, <4>3, <4>4, <3>1, <3>2, Zenon DEF ThisDomain
        <4>5. CASE c # hnd[h].i
          <5>1. dl_bw[rd[c]].bw = hnd[h].bw
            <6>1. c \in 0 .. hnd[h].i - 1
              BY <4>2, <4>5, <1>0, SMT, Zenon, SMTT(40) DEF Record
            <6> QED BY <6>1, <2>0, Zenon DEF BwInv, Stored
          <5> QED BY <5>1, <4>1, <4>3, <3>1, <3>2, ZenonT(60)
        <4> QED BY <4>4, <4>5
      <3>6. Agree'
        BY <3>1 DEF Agree
      <3> QED BY <3>3, <3>4, <3>5, <3>6, ZenonT(60) DEF BwInv
    <2> QED BY <1>6, <2>1, <2>2, Zenon DEF update_dl_bw
  <1> QED BY <1>1, <1>2, <1>3, <1>4, <1>5, <1>6, SMT, Zenon, SMTT(40) DEF Handler

\* Every state of the system.
LEMMA BwInvariance == BwSpec => []BwInv
  <1>1. BwInv /\ [BwNext]_BwVars => BwInv'
    <2> SUFFICES ASSUME BwInv, [BwNext]_BwVars PROVE BwInv'
      OBVIOUS
    <2>1. CASE \E p \in Task :
                 \/ \E prm \in Params : setscheduler_dl(p, prm)
                 \/ setscheduler_normal(p) \/ task_dead(p)
                 \/ \E current \in Task : sched_fork(current, p)
                 \/ \E cpu \in CPU : __migrate_task(p, cpu)
                 \/ set_task_cpu_dl(p)
      BY <2>1, TaskSteps, Zenon
    <2>2. CASE \E w \in Writes : Write(w.handler, w.knob, w.value)
      BY <2>2, HandlerSteps, KnobAssumption, Zenon DEF Handlers
    <2>3. CASE \E h \in {"rt", "dl"} : Handler(h)
      BY <2>3, HandlerSteps, Zenon DEF Handlers
    <2>4. CASE UNCHANGED BwVars
      BY <2>4, Untouched, Zenon DEF BwVars
    <2> QED BY <2>1, <2>2, <2>3, <2>4, Zenon DEF BwNext
  <1> QED BY <1>1, InitBw, PTL DEF BwSpec

\* Whatever the interleaving of sched_rt_handler() and sched_dl_handler(), whenever
\* dl_runtime_lock is free all root domains have the same cap.
THEOREM CapCorrect == BwSpec => []UniformCap
  <1>1. BwInv => UniformCap
    BY DEF BwInv, Agree, UniformCap, Holds, Handlers
  <1> QED BY <1>1, BwInvariance, PTL
-----------------------------------------------------------------------------
(* Migrations between root domains.                                        *)

\* The runqueues whose locks a migration of p holds.
Locks(p) == {tsk[p].cpu} \cup mig[p]

\* A migration that has locked one domain is of a -deadline task, goes to another domain, and
\* shares neither of its runqueues with another.
Tasks(V) == [Task -> [policy : V, dl_bw : V, cpu : CPU]]
Apart ==
    /\ \E V : tsk \in Tasks(V)
    /\ mig \in [Task -> SUBSET CPU]
    /\ \A p \in Task : mig[p] # {} => tsk[p].policy = "DEADLINE"
    /\ \A p \in Task : \A c \in mig[p] : rd[c] # rd[tsk[p].cpu]
    /\ \A p, q \in Task : p # q /\ mig[p] # {} /\ mig[q] # {} => Locks(p) \cap Locks(q) = {}

\* A task whose runqueue lock is free is not being migrated.
LEMMA NotMigrating ==
  ASSUME NEW p \in Task, NEW C, Quiet(C), tsk[p].cpu \in C PROVE mig[p] = {}
  BY Zenon DEF Quiet

\* The record of a task that is not being migrated changes.
LEMMA TaskChanges ==
  ASSUME Apart, NEW p \in Task, mig[p] = {}, NEW V, NEW x \in [policy : V, dl_bw : V, cpu : CPU],
         tsk' = [tsk EXCEPT ![p] = x], UNCHANGED mig
  PROVE  Apart'
  <1> PICK W : tsk \in Tasks(W)
    BY Zenon DEF Apart
  <1>1. tsk' \in Tasks(V \cup W)
    BY Zenon DEF Tasks
  <1>2. \A q \in Task : mig[q] # {} => tsk'[q] = tsk[q]
    BY Zenon DEF Tasks
  <1>3. \A q \in Task : mig[q] # {} => Locks(q)' = Locks(q)
    BY <1>2, Zenon DEF Locks
  <1>4. \A q \in Task : mig[q] # {} => tsk'[q].policy = "DEADLINE"
    BY <1>2, Zenon DEF Apart
  <1>5. \A q \in Task : \A c \in mig[q] : rd[c] # rd[tsk'[q].cpu]
    BY <1>2 DEF Apart
  <1> QED BY <1>1, <1>3, <1>4, <1>5, Zenon DEF Apart

\* A migration begins, with the locks of both runqueues.
LEMMA MigrationBegins ==
  ASSUME Apart, NEW p \in Task, NEW cpu \in CPU, __migrate_task(p, cpu) PROVE Apart'
  <1> PICK W : tsk \in Tasks(W)
    BY Zenon DEF Apart
  <1>0. tsk[p] \in [policy : W, dl_bw : W, cpu : CPU]
    BY DEF Tasks
  <1>1. mig[p] = {}
    BY NotMigrating DEF __migrate_task
  <1>2. CASE tsk' = [tsk EXCEPT ![p].cpu = cpu] /\ UNCHANGED mig
    <2> DEFINE x == [tsk[p] EXCEPT !.cpu = cpu]
    <2>1. x \in [policy : W, dl_bw : W, cpu : CPU] /\ tsk' = [tsk EXCEPT ![p] = x]
      BY <1>0, <1>2
    <2> HIDE DEF x
    <2> QED BY <1>1, <1>2, <2>1, TaskChanges, Zenon
  <1>3. CASE /\ tsk[p].policy = "DEADLINE" /\ rd[cpu] # rd[tsk[p].cpu]
             /\ mig' = [mig EXCEPT ![p] = {cpu}] /\ UNCHANGED tsk
    <2>1. mig' \in [Task -> SUBSET CPU] /\ \A q \in Task : mig'[q] = IF q = p THEN {cpu} ELSE mig[q]
      BY <1>3, Zenon DEF Apart
    <2>2. \A q \in Task : mig'[q] # {} => tsk[q].policy = "DEADLINE"
      BY <1>3, <2>1, Zenon DEF Apart
    <2>3. \A q \in Task : \A c \in mig'[q] : rd[c] # rd[tsk[q].cpu]
      BY <1>3, <2>1, Zenon DEF Apart
    <2>4. \A q \in Task : q # p /\ mig[q] # {} => Locks(q) \cap {tsk[p].cpu, cpu} = {}
      BY Zenon DEF __migrate_task, Quiet, Locks
    <2>5. \A q \in Task : Locks(q)' = IF q = p THEN {tsk[p].cpu, cpu} ELSE Locks(q)
      BY <1>3, <2>1, Zenon DEF Locks
    <2>6. \A q, o \in Task : q # o /\ mig'[q] # {} /\ mig'[o] # {} => Locks(q)' \cap Locks(o)' = {}
      BY <2>1, <2>4, <2>5, ZenonT(60) DEF Apart
    <2> QED BY <1>3, <2>1, <2>2, <2>3, <2>6, ZenonT(60) DEF Apart
  <1> QED BY <1>2, <1>3, Zenon DEF __migrate_task

\* A migration ends.
LEMMA MigrationEnds == ASSUME Apart, NEW p \in Task, set_task_cpu_dl(p) PROVE Apart'
  <1> PICK W : tsk \in Tasks(W)
    BY Zenon DEF Apart
  <1> PICK cpu \in mig[p] : /\ UNCHANGED tsk \/ tsk' = [tsk EXCEPT ![p].cpu = cpu]
                            /\ mig' = [mig EXCEPT ![p] = {}]
    BY DEF set_task_cpu_dl
  <1>1. cpu \in CPU
    BY DEF Apart
  <1>2. tsk' \in Tasks(W) /\ \A q \in Task : q # p => tsk'[q] = tsk[q]
    BY <1>1 DEF Tasks
  <1>3. mig' \in [Task -> SUBSET CPU] /\ \A q \in Task : mig'[q] = IF q = p THEN {} ELSE mig[q]
    BY DEF Apart
  <1>4. \A q \in Task : mig'[q] # {} => Locks(q)' = Locks(q) /\ q # p /\ mig'[q] = mig[q] /\ tsk'[q] = tsk[q]
    BY <1>2, <1>3, Zenon DEF Locks
  <1> HIDE DEF Locks
  <1>5. \A q, o \in Task : q # o /\ mig'[q] # {} /\ mig'[o] # {} => Locks(q)' \cap Locks(o)' = {}
    BY <1>4, ZenonT(60) DEF Apart
  <1>6. \A q \in Task : mig'[q] # {} => tsk'[q].policy = "DEADLINE"
    BY <1>4 DEF Apart
  <1>7. \A q \in Task : \A c \in mig'[q] : rd[c] # rd[tsk'[q].cpu]
    BY <1>4 DEF Apart
  <1> QED BY <1>2, <1>3, <1>5, <1>6, <1>7, Zenon DEF Apart

\* The other operations of a task find it, by its runqueue's lock, not being migrated.
LEMMA OthersApart ==
  ASSUME Apart, NEW p \in Task,
         \/ \E prm \in Params : setscheduler_dl(p, prm)
         \/ setscheduler_normal(p) \/ task_dead(p)
         \/ \E current \in Task : sched_fork(current, p)
  PROVE  Apart'
  <1> PICK W : tsk \in Tasks(W)
    BY Zenon DEF Apart
  <1>0. \A q \in Task : tsk[q] \in [policy : W, dl_bw : W, cpu : CPU]
    BY Zenon DEF Tasks
  <1>1. ASSUME NEW V, NEW z \in [policy : V, dl_bw : V, cpu : CPU], Touchable(p), UNCHANGED mig,
               tsk' = [tsk EXCEPT ![p] = z]
        PROVE  Apart'
    BY <1>1, NotMigrating, TaskChanges, Zenon DEF Touchable
  <1>2. ASSUME NEW prm \in Params, setscheduler_dl(p, prm) PROVE Apart'
    <2> PICK y : tsk' = [tsk EXCEPT ![p].policy = "DEADLINE", ![p].dl_bw = y]
      BY <1>2, Zenon DEF setscheduler_dl
    <2> DEFINE V == W \cup {"DEADLINE", y}
               z == [tsk[p] EXCEPT !.policy = "DEADLINE", !.dl_bw = y]
    <2>1. z \in [policy : V, dl_bw : V, cpu : CPU] /\ tsk' = [tsk EXCEPT ![p] = z]
      BY <1>0, Zenon
    <2> HIDE DEF V, z
    <2> QED BY <1>1, <1>2, <2>1, Zenon DEF setscheduler_dl
  <1>3. ASSUME setscheduler_normal(p) \/ task_dead(p) PROVE Apart'
    <2> PICK x : tsk' = [tsk EXCEPT ![p].policy = x]
      BY <1>3 DEF setscheduler_normal, task_dead
    <2> DEFINE V == W \cup {x}
               z == [tsk[p] EXCEPT !.policy = x]
    <2>1. z \in [policy : V, dl_bw : V, cpu : CPU] /\ tsk' = [tsk EXCEPT ![p] = z]
      BY <1>0
    <2> HIDE DEF V, z
    <2> QED BY <1>1, <1>3, <2>1, Zenon DEF setscheduler_normal, task_dead
  <1>4. ASSUME NEW q \in Task, sched_fork(q, p) PROVE Apart'
    <2> DEFINE z == [tsk[q] EXCEPT !.policy = "NORMAL"]
    <2>1. z \in [policy : W \cup {"NORMAL"}, dl_bw : W \cup {"NORMAL"}, cpu : CPU]
      BY <1>0
    <2>2. tsk' = [tsk EXCEPT ![p] = z] /\ UNCHANGED mig /\ mig[p] = {}
      BY <1>4, SMT, Zenon, SMTT(40) DEF sched_fork, Apart
    <2> HIDE DEF z
    <2> QED BY <2>1, <2>2, TaskChanges, Zenon
  <1> QED BY <1>2, <1>3, <1>4, Zenon

\* The handlers touch no task.
LEMMA HandlersApart == ASSUME Apart, UNCHANGED <<tsk, mig>> PROVE Apart'
  BY DEF Apart, Locks

\* Four different runqueues.
Different(a, b, c, d) == a # b /\ a # c /\ a # d /\ b # c /\ b # d /\ c # d
Four(a, b, c, d) == Cardinality({a, b, c, d}) = 4

\* There are four of them.
LEMMA FourDistinct ==
  ASSUME NEW a, NEW b, NEW c, NEW d, Different(a, b, c, d)
  PROVE  Four(a, b, c, d)
  <1>1. IsFiniteSet({}) /\ Cardinality({}) = 0
    BY FS_EmptySet, Zenon
  <1>2. IsFiniteSet({a}) /\ Cardinality({a}) = 1
    BY FS_Singleton, Zenon
  <1>3. {a} \cup {b} = {a, b} /\ {a, b} \cup {c} = {a, b, c} /\ {a, b, c} \cup {d} = {a, b, c, d}
    OBVIOUS
  <1>4. b \notin {a} /\ c \notin {a, b} /\ d \notin {a, b, c}
    BY Zenon DEF Different
  <1>5. IsFiniteSet({a, b}) /\ Cardinality({a, b}) = 1 + 1
    BY <1>2, <1>3, <1>4, FS_AddElement, SMT, Zenon, SMTT(40)
  <1>6. IsFiniteSet({a, b, c}) /\ Cardinality({a, b, c}) = (1 + 1) + 1
    BY <1>3, <1>4, <1>5, FS_AddElement, SMT, Zenon, SMTT(40)
  <1>7. Cardinality({a, b, c, d}) = ((1 + 1) + 1) + 1
    BY <1>3, <1>4, <1>6, FS_AddElement
  <1> QED BY <1>7 DEF Four

\* Two migrations that wait for each other's root domain hold four runqueue locks: with
\* fewer than two CPUs in each domain no two of them do.
THEOREM CycleCorrect == BwSpec => []CycleNeedsFourRunqueues
  <1>1. BwInit => Apart
    <2> SUFFICES ASSUME BwInit PROVE Apart
      OBVIOUS
    <2>1. tsk \in Tasks({"NORMAL", 0}) /\ mig = [p \in Task |-> {}]
      BY Zenon DEF BwInit, Tasks
    <2> QED BY <2>1, Zenon DEF Apart
  <1>2. Apart /\ [BwNext]_BwVars => Apart'
    <2> SUFFICES ASSUME Apart, [BwNext]_BwVars PROVE Apart'
      OBVIOUS
    <2>1. ASSUME NEW p \in Task,
                 \/ \E prm \in Params : setscheduler_dl(p, prm)
                 \/ setscheduler_normal(p) \/ task_dead(p)
                 \/ \E current \in Task : sched_fork(current, p)
                 \/ \E cpu \in CPU : __migrate_task(p, cpu)
                 \/ set_task_cpu_dl(p)
          PROVE  Apart'
      BY <2>1, OthersApart, MigrationBegins, MigrationEnds, Zenon
    <2>2. CASE \E w \in Writes : Write(w.handler, w.knob, w.value)
      BY <2>2, HandlersApart, Zenon DEF Write
    <2>3. CASE \E h \in {"rt", "dl"} : Handler(h)
      BY <2>3, HandlersApart, Zenon DEF Handler, global_constraints, check_dl_bw, Restore, Commit, update_dl_bw
    <2>4. CASE UNCHANGED BwVars
      BY <2>4, HandlersApart, Zenon DEF BwVars
    <2> QED BY <2>1, <2>2, <2>3, <2>4, Zenon DEF BwNext
  <1>3. Apart => CycleNeedsFourRunqueues
    <2> SUFFICES ASSUME Apart, NEW p \in Task, NEW q \in Task, NEW cpu \in mig[p], NEW to \in mig[q],
                        rd[cpu] = rd[tsk[q].cpu], rd[to] = rd[tsk[p].cpu]
                 PROVE  Cardinality({tsk[p].cpu, cpu, tsk[q].cpu, to}) = 4
      BY Zenon DEF CycleNeedsFourRunqueues
    <2>1. rd[cpu] # rd[tsk[p].cpu] /\ rd[to] # rd[tsk[q].cpu]
      BY Zenon DEF Apart
    <2>2. p # q /\ tsk[p].cpu # cpu /\ tsk[q].cpu # to
      BY <2>1, Zenon
    <2>3. ({tsk[p].cpu} \cup mig[p]) \cap ({tsk[q].cpu} \cup mig[q]) = {}
      BY <2>2, Zenon DEF Apart, Locks
    <2>4. Different(tsk[p].cpu, cpu, tsk[q].cpu, to)
      BY <2>2, <2>3, Zenon DEF Different
    <2>5. Four(tsk[p].cpu, cpu, tsk[q].cpu, to)
      BY <2>4, FourDistinct, Zenon
    <2> QED BY <2>5, Zenon DEF Four
  <1> QED BY <1>1, <1>2, <1>3, PTL DEF BwSpec
=============================================================================
