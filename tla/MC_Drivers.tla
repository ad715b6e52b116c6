----------------------------- MODULE MC_Drivers -----------------------------
(* The drivers, the data structure labs and test-dl.c for TLC: one of them is *)
(* chosen, and the variables of the others do not move.                    *)
EXTENDS Drivers

CONSTANTS MaxName, dev_num, HashBits,
    Task, Idle, NULL, Params, Services, Prompt, MaxClock, Main, Thread

VARIABLES
    op, tree, ring, table,
    clock, rq, dl, tsk, done, prog

Data == INSTANCE DataStructs
Test == INSTANCE TestDl

dataVars == <<op, tree, ring, table>>
testVars == <<clock, rq, dl, tsk, done, prog>>

Init ==
    /\ lab \in LoadModules \cup Data!DataModules \cup {"test_dl"}
    /\ DriversInit /\ Data!Init /\ Test!Init_test

Next ==
    \/ DriversNext /\ UNCHANGED <<dataVars, testVars>>
    \/ Data!Next /\ UNCHANGED <<loadVars, ioVars, kobjVars, pollVars, testVars>>
    \/ Test!TestNext /\ UNCHANGED <<loadVars, ioVars, kobjVars, pollVars, dataVars>>

allVars == <<driverVars, dataVars, testVars>>

\* A request that is served, a thread that is woken, and an addition go on.
Progress(c) ==
    \/ IoProgress(c) /\ UNCHANGED <<kobjVars, pollVars, dataVars, testVars>>
    \/ PollProgress(c) /\ UNCHANGED <<ioVars, kobjVars, dataVars, testVars>>
    \/ Data!AddProgress /\ UNCHANGED <<loadVars, ioVars, kobjVars, pollVars, testVars>>

Spec ==
    /\ Init
    /\ [][Next]_allVars
    /\ \A c \in Ctx : WF_allVars(Progress(c))
-----------------------------------------------------------------------------
(* The properties, which the modules explain; those of the drivers are in   *)
(* Drivers.                                                                *)

\* ramhd_req.c implements the atomic disk, with the mapping that BlockIO defines.
Atomic == INSTANCE AtomicDisk WITH store <- StoreBar, rqs <- RqsBar
AtomicRequests == Atomic!Spec
\* rbtree.c: the tree stays ordered, a search finds what is there, and rbtree_clear() frees
\* both products;
TreeSound == Data!TreeOrdered /\ Data!SearchRight /\ Data!ClearComplete
\* no operation touches the other products, and rb_tree_add() of a new name returns.
TreeOperations == Data!OthersStay /\ Data!AddReturns
\* hlist.c: a lookup finds the device, whatever shares its hash; list.c: the ring is well
\* formed while it is taken apart.
ListsSound == Data!FindsDevice /\ Data!ListSound
\* test-dl.c: main() joins the thread that spins on its CPU in bounded time.
JoinInTime == Test!JoinInTime
=============================================================================
