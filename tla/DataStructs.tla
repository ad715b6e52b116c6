---------------------------- MODULE DataStructs -----------------------------
(***************************************************************************)
(* The data structure labs: the circular list of list.c, the hash table of   *)
(* hlist.c and the search tree of rbtree.c (data-struct-labs), one step for   *)
(* each turn of their loops.  Their allocations are in ModuleLoad.         *)
(*                                                                         *)
(* A tree is <<>> or <<left, name, right>>.  From lib/rbtree.c: a node that is  *)
(* linked is then coloured by rb_insert_color(), and rb_erase() takes one out; *)
(* both may rotate: any search tree of the same names can be the result.    *)
(***************************************************************************)
EXTENDS Integers, Sequences, FiniteSets

CONSTANTS
    MaxName,        \* the products are 1 .. MaxName, in the order of strcmp()
    dev_num,        \* the devices are eth0, eth1, ...
    HashBits        \* the values NETDEV_HASHBITS is given

VARIABLES
    lab,
    op,             \* the operation in progress
    tree,           \* product_tree
    ring,           \* my_list: next and prev of the head (0) and the entries, the freed
    table           \* net_space: the number of hash bits, the chains and the i of the loop

dataVars == <<op, tree, ring, table>>

DataModules == {"list_ops", "hlist_ops", "rbtree_ops"}

Nothing == -1
NoOp == [do |-> "none", arg |-> 0, at |-> <<>>, pos |-> 0, next |-> 0, ret |-> 0]

\* The operation returns; what it did and its argument are remembered.
Return(did, ret) == op' = [NoOp EXCEPT !.do = did, !.arg = op.arg, !.ret = ret]
-----------------------------------------------------------------------------
(* rbtree.c                                                                *)

Name == 1 .. MaxName

\* Every search tree of a set of names.
SearchTrees[S \in SUBSET Name] ==
    IF S = {} THEN {<<>>}
    ELSE UNION {{<<l, n, r>> : l \in SearchTrees[{m \in S : m < n}],
                               r \in SearchTrees[{m \in S : m > n}]} : n \in S}

RECURSIVE InOrder(_), PostOrder(_), Subtree(_, _), Link(_, _, _)
InOrder(t)   == IF t = <<>> THEN <<>> ELSE InOrder(t[1]) \o <<t[2]>> \o InOrder(t[3])
PostOrder(t) == IF t = <<>> THEN <<>> ELSE PostOrder(t[1]) \o PostOrder(t[3]) \o <<t[2]>>
Subtree(t, path) == IF path = <<>> THEN t ELSE Subtree(t[Head(path)], Tail(path))
Link(t, path, n) ==
    IF path = <<>> THEN << <<>>, n, <<>> >> ELSE [t EXCEPT ![Head(path)] = Link(@, Tail(path), n)]

Products == {InOrder(tree)[i] : i \in 1 .. Len(InOrder(tree))}

\* each_tnode: the place the descent has reached.
each == Subtree(tree, op.at)

Call(what, n) ==
    /\ op.do \notin {"search", "del", "add", "color", "clear", "cleared"}
    /\ op' = [NoOp EXCEPT !.do = what, !.arg = n]
    /\ UNCHANGED <<lab, tree, ring, table>>

\* Where strcmp() leads: rb_left or rb_right.
Descend(n, t) == IF n < t[2] THEN 1 ELSE 3

\* Mutant: the loop also ends at a greater name.
Reached_NotLess == each # <<>> => each[2] >= op.arg

\* The loops end at a leaf or at the product.
Reached == each # <<>> => each[2] = op.arg

Walk ==
    /\ op.do \in {"search", "del", "add"} /\ ~Reached
    /\ op' = [op EXCEPT !.at = Append(@, Descend(op.arg, each))]
    /\ UNCHANGED <<lab, tree, ring, table>>

rbtree_search_product_by_name ==
    /\ op.do = "search" /\ Reached
    /\ Return("searched", IF each = <<>> THEN Nothing ELSE each[2])
    /\ UNCHANGED <<lab, tree, ring, table>>

\* Mutant: the product is freed and not erased.
rbtree_del_NoErase ==
    /\ op.do = "del" /\ Reached
    /\ Return("deleted", 0)
    /\ UNCHANGED <<lab, tree, ring, table>>

rbtree_del ==
    /\ op.do = "del" /\ Reached
    /\ IF each = <<>> THEN UNCHANGED tree /\ Return("deleted", -1)
       ELSE tree' \in SearchTrees[Products \ {each[2]}] /\ Return("deleted", 0)
    /\ UNCHANGED <<lab, ring, table>>

\* rb_tree_add(): the place is found; a product of the same name is no such place,
\* and the loop goes on where it is for ever.
rb_tree_add ==
    /\ op.do = "add" /\ each = <<>>
    /\ tree' = Link(tree, op.at, op.arg)
    /\ op' = [op EXCEPT !.do = "color"]
    /\ UNCHANGED <<lab, ring, table>>

rb_insert_color ==
    /\ op.do = "color"
    /\ tree' \in SearchTrees[Products]
    /\ Return("added", 0)
    /\ UNCHANGED <<lab, ring, table>>

rb_next_postorder(n) ==
    LET s == PostOrder(tree)
        i == CHOOSE i \in 1 .. Len(s) : s[i] = n
    IN  IF i < Len(s) THEN s[i + 1] ELSE Nothing

\* One turn of rbtree_clear(): the successor is read, then the node erased and freed.
rbtree_clear ==
    \/ /\ op.do = "clear" /\ op.pos = 0
       /\ op' = [op EXCEPT !.arg = Cardinality(Products),
                           !.pos = IF tree = <<>> THEN Nothing ELSE PostOrder(tree)[1]]
       /\ UNCHANGED <<lab, tree, ring, table>>
    \/ /\ op.do = "clear" /\ op.pos \in Name
       /\ op' = [op EXCEPT !.pos = rb_next_postorder(op.pos)]
       /\ tree' \in SearchTrees[Products \ {op.pos}]
       /\ UNCHANGED <<lab, ring, table>>
    \/ /\ op.do = "clear" /\ op.pos = Nothing
       /\ Return("cleared", 0)
       /\ UNCHANGED <<lab, tree, ring, table>>

TreeNext ==
    /\ lab = "rbtree_ops"
    /\ \/ \E what \in {"search", "del", "add"}, n \in Name : Call(what, n)
       \/ Call("clear", 0)
       \/ Walk \/ rbtree_search_product_by_name \/ rbtree_del
       \/ rb_tree_add \/ rb_insert_color \/ rbtree_clear
-----------------------------------------------------------------------------
(* hlist.c                                                                 *)

\* "eth%d"
NameOf(i) == <<101, 116, 104, 48 + i>>

\* Arithmetic modulo a power of 2 that leaves the bits the mask of dev_name_hash()
\* keeps as they are in an unsigned long.
HashWord == 65536

partial_name_hash(c, prevhash) == ((prevhash + c * 16 + c \div 16) * 11) % HashWord

full_name_hash(name) ==
    LET h[k \in 0 .. Len(name)] == IF k = 0 THEN 0 ELSE partial_name_hash(name[k], h[k - 1])
    IN  h[Len(name)]

dev_name_hash(name) == full_name_hash(name) % 2 ^ table.bits

hlist_add_head(b, i) == [table EXCEPT !.chain[b] = <<i>> \o @]

\* The loop of hlist_module_init() adds the devices in turn.
hlist_module_init ==
    LET i == table.i
    IN  /\ lab = "hlist_ops" /\ i < dev_num
        /\ table' = [hlist_add_head(dev_name_hash(NameOf(i)), i) EXCEPT !.i = i + 1]
        /\ UNCHANGED <<lab, op, tree, ring>>

\* dev_get_by_name(), after the loop and with any name, that of no device included: the
\* chain of the name, then one entry after the other.
dev_get_by_name ==
    \/ /\ lab = "hlist_ops" /\ op.do # "lookup" /\ table.i = dev_num
       /\ \E i \in 0 .. dev_num :
             op' = [NoOp EXCEPT !.do = "lookup", !.arg = i,
                                !.at = table.chain[dev_name_hash(NameOf(i))]]
       /\ UNCHANGED <<lab, tree, ring, table>>
    \/ /\ op.do = "lookup"
       /\ IF op.at = <<>> THEN Return("found", Nothing)
          ELSE IF NameOf(Head(op.at)) = NameOf(op.arg) THEN Return("found", Head(op.at))
          ELSE op' = [op EXCEPT !.at = Tail(@)]
       /\ UNCHANGED <<lab, tree, ring, table>>
-----------------------------------------------------------------------------
(* list.c                                                                  *)

Entry  == 1 .. 2        \* m1, m2
Poison == -2

\* list_add(): behind the head.
list_add(r, e) ==
    LET n == r.next[0]
    IN  [r EXCEPT !.next = [@ EXCEPT ![0] = e, ![e] = n],
                  !.prev = IF n = 0 THEN [@ EXCEPT ![0] = e, ![e] = 0]
                           ELSE [@ EXCEPT ![n] = e, ![e] = 0]]

list_del(r, e) ==
    [r EXCEPT !.next = [@ EXCEPT ![r.prev[e]] = r.next[e], ![e] = Poison],
              !.prev = [@ EXCEPT ![r.next[e]] = r.prev[e], ![e] = Poison]]

my_init ==
    /\ lab = "list_ops" /\ op.do = "none" /\ op.arg < 2
    /\ ring' = list_add(ring, op.arg + 1)
    /\ op' = [op EXCEPT !.arg = @ + 1]
    /\ UNCHANGED <<lab, tree, table>>

\* Mutant: list_for_each(), which reads the entry after it is freed.
Following_Unsafe(r) == r.next[op.pos]

\* list_for_each_safe(): the next entry was read before this one was freed.
Following(r) == op.next

\* my_exit(): pos and tmp are set, then a turn for each entry.
my_exit ==
    \/ /\ lab = "list_ops" /\ op.do = "none" /\ op.arg = 2
       /\ op' = [op EXCEPT !.do = "exit", !.pos = ring.next[0], !.next = ring.next[ring.next[0]]]
       /\ UNCHANGED <<lab, tree, ring, table>>
    \/ LET r == [list_del(ring, op.pos) EXCEPT !.freed = @ \cup {op.pos}]
           n == Following(r)
       IN  /\ op.do = "exit" /\ op.pos \in Entry
           /\ ring' = r
           /\ op' = [op EXCEPT !.pos = n, !.next = IF n \in DOMAIN r.next THEN r.next[n] ELSE Poison]
           /\ UNCHANGED <<lab, tree, table>>
-----------------------------------------------------------------------------
Init ==
    /\ op = NoOp
    /\ tree = <<>>
    /\ ring = [next |-> [e \in {0} \cup Entry |-> IF e = 0 THEN 0 ELSE Poison],
               prev |-> [e \in {0} \cup Entry |-> IF e = 0 THEN 0 ELSE Poison], freed |-> {}]
    /\ \E b \in IF lab = "hlist_ops" THEN HashBits ELSE {0} :
          table = [bits |-> b, chain |-> [h \in 0 .. 2 ^ b - 1 |-> <<>>], i |-> 0]

Next == TreeNext \/ hlist_module_init \/ dev_get_by_name \/ my_init \/ my_exit

\* What fairness is assumed of: an addition that has begun goes on.
AddProgress == op.do \in {"add", "color"} /\ (Walk \/ rb_tree_add \/ rb_insert_color)
-----------------------------------------------------------------------------
(* Properties.                                                             *)

\* The tree stays a search tree without duplicates: rb_tree_add() links the product
\* where the order asks for, whatever the shape of the tree.
TreeOrdered ==
    \A i, j \in 1 .. Len(InOrder(tree)) : i < j => InOrder(tree)[i] < InOrder(tree)[j]

\* A search finds a product exactly if the tree has it; after rbtree_del() it has not.
SearchRight ==
    /\ op.do = "searched" => op.ret = IF op.arg \in Products THEN op.arg ELSE Nothing
    /\ op.do = "deleted"  => op.arg \notin Products
    /\ op.do = "added"    => op.arg \in Products

\* No operation but rbtree_clear() changes the other products.
OthersStay ==
    [][lab = "rbtree_ops" /\ op.do # "clear" =>
         \A n \in Name \ {op.arg} :
             (n \in Products) <=> (\E i \in 1 .. Len(InOrder(tree')) : InOrder(tree')[i] = n)
      ]_<<lab, dataVars>>

\* rbtree_clear() of at most two products, as many as the module makes, frees them all,
\* although it erases nodes from the tree it walks, whatever rb_erase() makes of the
\* shape.  (With more it depends on the rotations, which are left open here.)
ClearComplete == op.do = "cleared" /\ op.arg <= 2 => tree = <<>>

\* rb_tree_add() of a new name returns.
AddReturns ==
    lab = "rbtree_ops" /\ op.do = "add" /\ op.arg \notin Products ~> op.do = "added"

\* dev_get_by_name() finds every device that was added, and no other, also among those
\* of the same hash.
FindsDevice == op.do = "found" => op.ret = IF op.arg < table.i THEN op.arg ELSE Nothing

\* next and prev of my_list are inverse to each other; my_exit() frees every entry, none
\* twice, and follows no pointer of a freed one.
ListSound ==
    lab = "list_ops" =>
        /\ \A e \in {0} \cup Entry :
              ring.next[e] # Poison => ring.prev[ring.next[e]] = e /\ ring.next[ring.prev[e]] = e
        /\ op.do = "exit" => op.pos \in ({0} \cup Entry) \ ring.freed
        /\ op.do = "exit" /\ op.pos = 0 => ring.freed = Entry /\ ring.next[0] = 0
=============================================================================
