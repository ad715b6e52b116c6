----------------------------- MODULE Labs_proofs ----------------------------
(***************************************************************************)
(* The invariants of the labs, for any number of processes, interrupts and *)
(* counter values.  Each component has an inductive invariant of its own;  *)
(* the steps of the others leave its variables alone.                      *)
(***************************************************************************)
EXTENDS MC_Labs, Sequences, TLAPS

-----------------------------------------------------------------------------
(* interrupt-labs                                                          *)

Data == [th : 0 .. Word - 1, bh : 0 .. Word - 1, nevents : 0 .. Word - 1, cond : BOOLEAN,
         jiffies : Nat]

Waits == {"test", "prepare", "recheck", "sleep", "check"}

\* The places of the bottom half of each module.
SoftPc ==
    CASE lab = "thread"     -> {"idle", "count", "dec"}
      [] lab = "add_thread" -> Waits \cup {"created", "failed", "reset", "count", "print", "loop", "exited"}
      [] OTHER              -> {"idle", "count", "print"}

One(b) == IF b THEN 1 ELSE 0

\* interrupt_thread.c: an event is counted by both halves or is still in nevents, modulo Word.
Balance ==
    data.bh + data.nevents + One(hard = "count") - One(soft.pc = "dec") - data.th

\* The other modules: events that have been announced to the bottom half and not yet counted.
Announced ==
    IF lab = "add_thread"
    THEN One(hard \in {"store", "set"}) + One(soft.pc = "count")
         + One(soft.pc \in Waits /\ data.cond)
    ELSE One(hard \in {"store", "request"}) + One(soft.pc = "count") + One(soft.pending)

IrqInv ==
    /\ irqs \in Nat /\ data \in Data
    /\ mod \in {"loaded", "stop", "free", "kill", "gone", "oops"}
    /\ hard \in {"idle", "count", "store", "request", "set", "wake"}
    /\ soft \in [pc : SoftPc, pending : BOOLEAN, interruptible : BOOLEAN, seen : Nat]
    /\ lab = "thread" => /\ hard \in {"idle", "count", "request"}
                         /\ Balance \in {-Word, 0, Word}
    /\ lab \in {"tasklet", "work"} => hard \in {"idle", "store", "request"}
    /\ lab = "add_thread" => hard \in {"idle", "store", "set", "wake"} /\ ~soft.pending
    /\ soft.pc = "idle" /\ ~soft.pending /\ hard # "request" =>
           /\ lab = "thread" => data.nevents = 0
           /\ lab \in {"tasklet", "work"} => soft.seen = data.jiffies
    /\ lab # "thread" /\ irqs < Word => data.th = irqs /\ data.bh + Announced <= irqs
    /\ mod # "loaded" => lab \in Irq!IrqModules
    /\ mod = "kill" => lab = "tasklet"
    /\ mod \in {"kill", "gone"} => hard = "idle"
    /\ mod = "gone" /\ lab \in {"thread", "tasklet"} => Irq!Done
    /\ mod \in {"free", "gone"} /\ lab = "add_thread" => soft.pc = "exited"

-----------------------------------------------------------------------------
(* sync, sched-lab                                                         *)

Pcs == {"none", "created", "failed", "loop", "lock", "inside", "store", "unlock", "complete", "exited"}

\* Who may be in the critical section with whom.
Excluded ==
    /\ lab \in {"mutex", "spinlock"} =>
           \A t, u \in Sync!Thread : Sync!Inside(t) /\ Sync!Inside(u) => t = u
    /\ lab = "rw_lock" /\ Sync!Inside(Sync!W) => \A t \in Sync!Reader : ~Sync!Inside(t)
    /\ lab = "atomic" => thread[Sync!W] # "store"

\* completion.c: the reader gets in after the writer has counted to the end and is gone.
Completed ==
    lab = "completion" =>
        /\ \A t \in Sync!Reader : Sync!Inside(t) => comp
        /\ comp => thread[Sync!W] = "exited"
        /\ comp \/ thread[Sync!W] = "complete" => counter = Target

SyncInv ==
    /\ up \in 0 .. Len(Sync!Order) /\ down \in -2 .. Len(Sync!Order)
    /\ thread \in [Sync!Thread -> Pcs] /\ stopping \subseteq Sync!Thread
    /\ counter \in Nat /\ tmp \in Nat /\ comp \in BOOLEAN
    /\ \A t \in Sync!Thread :
          /\ t # Sync!W => thread[t] \notin {"store", "complete"}
          /\ thread[t] # "none" => \E i \in 1 .. up : Sync!Order[i] = t
          /\ lab # "completion" => thread[t] # "complete"
          /\ lab # "completion" /\ thread[t] = "exited" => t \in stopping
    /\ Excluded /\ Completed
    /\ lab \notin Sync!SyncModules => up = 0
    /\ down # -1 => up = Len(Sync!Order)
    /\ \A i \in 1 .. Len(Sync!Order) : i <= down => thread[Sync!Order[i]] = "exited"
    /\ Sync!OopsCauses

-----------------------------------------------------------------------------
(* sched-lab, timer-labs, mmap-labs                                        *)

\* What demo_map_init() and demo_map_exit() hold at each point.
Holds(at) ==
    CASE at = "cdev_alloc" -> {"page"}
      [] at = "alloc_chrdev_region" -> {"page", "cdev"}
      [] at = "cdev_add" -> {"page", "cdev", "region"}
      [] at \in {"add_timer", "loaded", "cancel", "cdev_del"} -> {"page", "cdev", "region", "added"}
      [] at = "unregister" -> {"page", "region"}
      [] at = "free_pages" -> {"page"}
      [] OTHER -> {}

MmapPc == {"init", "cdev_alloc", "alloc_chrdev_region", "cdev_add", "add_timer", "loaded", "cancel",
           "cdev_del", "unregister", "free_pages", "gone", "failed"}

DeferredInv ==
    /\ pc \in IF lab = "mmap" THEN MmapPc ELSE {"init", "loaded", "cancel", "gone"}
    /\ queued \in BOOLEAN /\ fun \in {"idle", "running"} /\ status \in BOOLEAN
    /\ held = IF lab = "mmap" THEN Holds(pc) ELSE {}
    /\ queued \/ fun # "idle" =>
           \/ pc \in {"loaded", "cancel"}
           \/ lab \in {"sched_tasklet", "work_queue", "timer"}

-----------------------------------------------------------------------------
(* char-device-labs, wait-event-labs                                       *)

Device == {"open", "prepare", "recheck", "sleep", "awake", "read", "clear", "write", "announce",
           "wake"}

Process == [pc : Device \cup {"closed"}, ppos : 0 .. ramdisk_size, at : Nat, moves : BOOLEAN,
            interruptible : BOOLEAN, signal : BOOLEAN]

\* A call that moves the file's position works at it.
Fits(r) == r.moves => r.at <= ramdisk_size

\* The device is in use only while it is registered, and then its memory is there.
MiscInv ==
    /\ dev \in {"out", "loading", "registered", "going", "unlisted"}
    /\ ramdisk \in BOOLEAN /\ data_ready \in BOOLEAN /\ proc \in [Proc -> Process]
    /\ dev # "out" => ramdisk
    /\ \A p \in Proc : Fits(proc[p]) /\ (proc[p].pc # "closed" => dev = "registered")

LabsInv == IrqInv /\ SyncInv /\ DeferredInv /\ MiscInv

-----------------------------------------------------------------------------
(* interrupt-labs                                                          *)

\* atomic_inc() and atomic_dec() wrap around.
LEMMA IncDec ==
    ASSUME NEW n \in 0 .. Word - 1
    PROVE  /\ Irq!Inc(n) = IF n = Word - 1 THEN 0 ELSE n + 1
           /\ Irq!Dec(n) = IF n = 0 THEN Word - 1 ELSE n - 1
<1>1. Word \in Nat /\ Word > 0
  BY LabsAssumption
<1>2. Irq!Inc(n) = IF n = Word - 1 THEN 0 ELSE n + 1
  BY <1>1, Z3 DEF Irq!Inc
<1>3. Irq!Dec(n) = IF n = 0 THEN Word - 1 ELSE n - 1
  BY <1>1, Z3 DEF Irq!Dec
<1> QED
  BY <1>2, <1>3

\* my_interrupt() is entered: counter_th goes up.
LEMMA IrqEnter ==
    ASSUME IrqInv, Irq!Enter, lab \in Irq!IrqModules
    PROVE  IrqInv'
<1> USE DEF Irq!Enter, Irq!Registered, Irq!IrqModules
<1>1. data.th \in 0 .. Word - 1 /\ data' = [data EXCEPT !.th = Irq!Inc(data.th)]
  BY DEF IrqInv, Data
<1>2. data' \in Data /\ data'.bh = data.bh /\ data'.nevents = data.nevents
      /\ data'.cond = data.cond /\ data'.jiffies = data.jiffies
      /\ data'.th = IF data.th = Word - 1 THEN 0 ELSE data.th + 1
  BY <1>1, IncDec, LabsAssumption DEF Data, IrqInv
<1>3. SoftPc' = SoftPc
  BY DEF SoftPc
<1>4. (lab = "thread" => Balance \in {-Word, 0, Word})'
  BY <1>2, LabsAssumption DEF IrqInv, Data, Balance, One
<1>5. (lab # "thread" /\ irqs < Word => data.th = irqs /\ data.bh + Announced <= irqs)'
  BY <1>2, LabsAssumption DEF IrqInv, Data, Announced, One
<1> QED
  BY <1>2, <1>3, <1>4, <1>5 DEF IrqInv, Irq!Done

\* The rest of my_interrupt().
LEMMA IrqHandler ==
    ASSUME IrqInv, Irq!HandlerStep, lab \in Irq!IrqModules
    PROVE  IrqInv'
<1> USE DEF Irq!IrqModules
<1>1. SoftPc' = SoftPc
  BY DEF SoftPc, Irq!HandlerStep, Irq!CountEvent, Irq!StoreJiffies, Irq!Request, Irq!SetCond,
         Irq!wake_up
<1>2. CASE Irq!CountEvent
  <2>1. data.nevents \in 0 .. Word - 1 /\ data' = [data EXCEPT !.nevents = Irq!Inc(data.nevents)]
    BY <1>2 DEF IrqInv, Data, Irq!CountEvent
  <2>2. /\ data' \in Data /\ data'.bh = data.bh /\ data'.th = data.th
        /\ data'.cond = data.cond /\ data'.jiffies = data.jiffies
        /\ data'.nevents = IF data.nevents = Word - 1 THEN 0 ELSE data.nevents + 1
    BY <2>1, IncDec, LabsAssumption DEF Data, IrqInv
  <2>3. (lab = "thread" => Balance \in {-Word, 0, Word})'
    BY <1>2, <2>2, LabsAssumption DEF IrqInv, Data, Balance, One, Irq!CountEvent
  <2> QED
    BY <1>1, <1>2, <2>2, <2>3 DEF IrqInv, Irq!Done, Irq!CountEvent, Announced, One
<1>3. CASE Irq!StoreJiffies
  BY <1>1, <1>3 DEF IrqInv, Data, Irq!Done, Irq!StoreJiffies, Announced, One
<1>4. CASE Irq!Request
  <2>1. /\ soft' \in [pc : SoftPc, pending : BOOLEAN, interruptible : BOOLEAN, seen : Nat]
        /\ soft'.pc = soft.pc /\ soft'.pending /\ soft'.seen = soft.seen
    BY <1>4, Zenon DEF IrqInv, Irq!Request
  <2> QED
    BY <1>1, <1>4, <2>1 DEF IrqInv, Data, Irq!Done, Irq!Request, Announced, Balance, One
<1>5. CASE Irq!SetCond
  <2>1. /\ data' \in Data /\ data'.cond /\ data'.bh = data.bh /\ data'.th = data.th
        /\ data'.nevents = data.nevents /\ data'.jiffies = data.jiffies
    BY <1>5, Zenon DEF IrqInv, Data, Irq!SetCond
  <2> QED
    BY <1>1, <1>5, <2>1 DEF IrqInv, Data, Irq!Done, Irq!SetCond, Announced, One
<1>6. CASE Irq!wake_up
  BY <1>1, <1>6, Zenon DEF IrqInv, Data, Irq!Done, Irq!wake_up, Announced, One
<1> QED
  BY <1>2, <1>3, <1>4, <1>5, <1>6 DEF Irq!HandlerStep

\* my_exit() and what it waits for.
LEMMA IrqExit ==
    ASSUME IrqInv, Irq!my_exit \/ Irq!Exit, lab \in Irq!IrqModules
    PROVE  IrqInv'
<1> USE DEF Irq!IrqModules
<1>1. CASE Irq!my_exit
  <2>1. SoftPc' = SoftPc
    BY <1>1 DEF SoftPc, Irq!my_exit
  <2> QED
    BY <1>1, <2>1, ZenonT(60) DEF IrqInv, Data, Irq!Done, Irq!my_exit, Announced, Balance, One
<1>2. CASE Irq!Exit
  <2>1. SoftPc' = SoftPc /\ Balance' = Balance /\ Announced' = Announced
    BY <1>2 DEF SoftPc, Balance, Announced, Irq!Exit, Irq!Stopped, Irq!free_irq,
                Irq!tasklet_kill, Irq!Leave
  <2>2. CASE Irq!Stopped
    BY <2>1, <2>2 DEF IrqInv, Irq!Done, Irq!Stopped, Irq!Leave
  <2>3. CASE Irq!free_irq
    BY <2>1, <2>3 DEF IrqInv, Irq!Done, Irq!free_irq, Irq!Leave
  <2>4. CASE Irq!tasklet_kill
    BY <2>1, <2>4 DEF IrqInv, Irq!Done, Irq!tasklet_kill, Irq!Leave
  <2> QED
    BY <1>2, <2>2, <2>3, <2>4 DEF Irq!Exit
<1> QED
  BY <1>1, <1>2

\* The bottom halves.
LEMMA IrqBottomHalf ==
    ASSUME IrqInv, Irq!BottomHalf, lab \in Irq!IrqModules
    PROVE  IrqInv'
<1> DEFINE Soft == [pc : SoftPc, pending : BOOLEAN, interruptible : BOOLEAN, seen : Nat]
<1> USE DEF Irq!IrqModules
<1>1. /\ SoftPc' = SoftPc /\ UNCHANGED <<lab, mod, irqs, hard>>
      /\ soft \in Soft /\ data \in Data
  BY DEF SoftPc, Irq!BottomHalf, IrqInv
<1>2. CASE Irq!Start
  <2>1. soft' \in Soft /\ soft'.pc = "count" /\ ~soft'.pending /\ data' = data
    BY <1>1, <1>2, Zenon DEF IrqInv, Irq!Start, SoftPc, Waits
  <2> QED
    BY <1>1, <1>2, <2>1 DEF IrqInv, Data, Irq!Done, Irq!Start, Announced, Balance, One, SoftPc, Waits
<1>3. CASE Irq!CountBh
  <2>1. data.bh \in 0 .. Word - 1 /\ data' = [data EXCEPT !.bh = Irq!Inc(data.bh)]
    BY <1>3 DEF IrqInv, Data, Irq!CountBh
  <2>2. /\ data' \in Data /\ data'.nevents = data.nevents /\ data'.th = data.th
        /\ data'.cond = data.cond /\ data'.jiffies = data.jiffies
        /\ data'.bh = IF data.bh = Word - 1 THEN 0 ELSE data.bh + 1
    BY <2>1, IncDec, LabsAssumption DEF Data, IrqInv
  <2>3. /\ soft' \in Soft /\ soft'.pending = soft.pending /\ soft.pc = "count"
        /\ soft'.pc = IF lab = "thread" THEN "dec" ELSE "print"
    BY <1>1, <1>3 DEF Irq!CountBh, SoftPc, Waits
  <2>4. (lab = "thread" => Balance \in {-Word, 0, Word})'
    BY <1>1, <2>2, <2>3, LabsAssumption DEF IrqInv, Data, Balance, One
  <2>5. (lab # "thread" /\ irqs < Word => data.th = irqs /\ data.bh + Announced <= irqs)'
    BY <1>1, <2>2, <2>3, LabsAssumption DEF IrqInv, Data, Announced, One, Waits
  <2> QED
    BY <1>1, <2>2, <2>3, <2>4, <2>5 DEF IrqInv, Irq!Done
<1>4. CASE Irq!DecAndTest
  <2>1. data.nevents \in 0 .. Word - 1 /\ data' = [data EXCEPT !.nevents = Irq!Dec(data.nevents)]
    BY <1>4 DEF IrqInv, Data, Irq!DecAndTest
  <2>2. /\ data' \in Data /\ data'.bh = data.bh /\ data'.th = data.th
        /\ data'.cond = data.cond /\ data'.jiffies = data.jiffies
        /\ data'.nevents = IF data.nevents = 0 THEN Word - 1 ELSE data.nevents - 1
    BY <2>1, IncDec, LabsAssumption DEF Data, IrqInv
  <2>3. lab = "thread" /\ soft.pc = "dec"
    BY <1>4 DEF IrqInv, Irq!DecAndTest, SoftPc, Waits
  <2>4. /\ soft' \in Soft /\ soft'.pending = soft.pending
        /\ soft'.pc = IF data'.nevents = 0 THEN "idle" ELSE "count"
    BY <1>1, <1>4, <2>3 DEF Irq!DecAndTest, SoftPc
  <2>5. /\ Balance = data.bh + data.nevents + One(hard = "count") - 1 - data.th
        /\ Balance' = data.bh + data'.nevents + One(hard = "count") - data.th
        /\ One(hard = "count") \in 0 .. 1
    BY <1>1, <2>2, <2>3, <2>4 DEF Data, Balance, One
  <2>6. Balance' \in {-Word, 0, Word}
    <3>1. Balance \in {-Word, 0, Word} /\ data.bh \in 0 .. Word - 1 /\ data.th \in 0 .. Word - 1
      BY <2>3 DEF IrqInv, Data
    <3>2. CASE data.nevents = 0
      <4>1. Balance' = Balance + Word
        BY <2>2, <2>5, <3>1, <3>2, LabsAssumption
      <4>2. Balance # Word
        BY <2>5, <3>1, <3>2, LabsAssumption
      <4> QED
        BY <3>1, <4>1, <4>2, LabsAssumption
    <3>3. CASE data.nevents # 0
      <4>1. Balance' = Balance
        BY <2>1, <2>2, <2>5, <3>1, <3>3, LabsAssumption
      <4> QED
        BY <3>1, <4>1
    <3> QED
      BY <3>2, <3>3
  <2> QED
    BY <1>1, <2>2, <2>3, <2>4, <2>6 DEF IrqInv, Irq!Done
<1>5. CASE Irq!PrintJiffies
  <2>1. /\ soft' \in Soft /\ soft'.pending = soft.pending /\ soft.pc = "print" /\ data' = data
        /\ soft'.pc = (IF lab = "add_thread" THEN "loop" ELSE "idle") /\ lab # "thread"
        /\ soft'.seen = data.jiffies
    BY <1>1, <1>5, Zenon DEF Irq!PrintJiffies, SoftPc, Waits, Data
  <2> QED
    BY <1>1, <2>1 DEF IrqInv, Data, Irq!Done, Announced, One, Waits
<1>6. CASE Irq!Created \/ Irq!Loop
  <2>1. /\ soft' \in Soft /\ soft'.pending = soft.pending /\ soft.pc \in {"created", "loop"}
        /\ soft'.pc \in {"exited", "reset"} /\ lab = "add_thread" /\ data' = data
    BY <1>1, <1>6 DEF Irq!Created, Irq!Loop, Irq!Go, SoftPc, Waits
  <2> QED
    BY <1>1, <2>1 DEF IrqInv, Data, Irq!Done, Announced, One, Waits
<1>7. CASE Irq!ResetCond
  <2>1. /\ soft' \in Soft /\ soft'.pending = soft.pending /\ soft.pc = "reset"
        /\ soft'.pc = "test" /\ lab = "add_thread"
    BY <1>1, <1>7 DEF Irq!ResetCond, SoftPc, Waits
  <2>2. /\ data' \in Data /\ ~data'.cond /\ data'.bh = data.bh /\ data'.th = data.th
        /\ data'.nevents = data.nevents /\ data'.jiffies = data.jiffies
    BY <1>1, <1>7, Zenon DEF Data, Irq!ResetCond
  <2> QED
    BY <1>1, <2>1, <2>2 DEF IrqInv, Data, Irq!Done, Announced, One, Waits
<1>8. CASE Irq!Test \/ Irq!PrepareToWait \/ Irq!Recheck \/ Irq!Woken
  <2>1. /\ soft' \in Soft /\ soft'.pending = soft.pending /\ soft.pc \in Waits
        /\ soft'.pc \in Waits /\ lab = "add_thread" /\ data' = data
    BY <1>1, <1>8, Zenon DEF Irq!Test, Irq!PrepareToWait, Irq!Recheck, Irq!Woken, Irq!Go, SoftPc, Waits
  <2> QED
    BY <1>1, <2>1 DEF IrqInv, Data, Irq!Done, Announced, One, Waits
<1>9. CASE Irq!CheckCond
  <2>1. /\ soft' \in Soft /\ soft'.pending = soft.pending /\ soft.pc = "check"
        /\ soft'.pc = (IF data.cond THEN "count" ELSE "print") /\ lab = "add_thread"
        /\ data' = data
    BY <1>1, <1>9 DEF Irq!CheckCond, Irq!Go, SoftPc, Waits
  <2> QED
    BY <1>1, <2>1 DEF IrqInv, Data, Irq!Done, Announced, One, Waits
<1> QED
  BY <1>2, <1>3, <1>4, <1>5, <1>6, <1>7, <1>8, <1>9 DEF Irq!BottomHalf

-----------------------------------------------------------------------------
(* sync, sched-lab                                                         *)

\* my_mod_init() creates each thread once.
LEMMA OrderFacts ==
    /\ Len(Sync!Order) \in 1 .. 4
    /\ \A i \in 1 .. Len(Sync!Order) : Sync!Order[i] \in Sync!Thread
    /\ \A i, j \in 1 .. Len(Sync!Order) : Sync!Order[i] = Sync!Order[j] => i = j
<1>1. CASE lab = "rw_lock"
  BY <1>1 DEF Sync!Order, Sync!Thread, Sync!W
<1>2. CASE lab = "kthread_run"
  BY <1>2 DEF Sync!Order, Sync!Thread, Sync!W
<1>3. CASE lab \notin {"rw_lock", "kthread_run"}
  BY <1>3 DEF Sync!Order, Sync!Thread, Sync!W
<1> QED
  BY <1>1, <1>2, <1>3

\* A thread that has been created and has not exited goes where the locks let it.
LEMMA ThreadGoes ==
    ASSUME SyncInv, NEW t \in Sync!Thread, NEW q \in Pcs, Sync!Goto(t, q),
           UNCHANGED <<lab, up, down, stopping>>,
           counter' \in Nat, tmp' \in Nat, comp' \in BOOLEAN, Completed',
           thread[t] \notin {"none", "failed", "exited"}, q # "none",
           t # Sync!W => q \notin {"store", "complete"},
           lab # "completion" => q # "complete" /\ (q = "exited" => t \in stopping),
           q \in {"inside", "store", "unlock"} => Sync!Inside(t) \/ Sync!MayEnter(t),
           lab = "atomic" => q # "store"
    PROVE  SyncInv'
<1>1. /\ thread \in [Sync!Thread -> Pcs] /\ thread' \in [Sync!Thread -> Pcs] /\ thread'[t] = q
      /\ \A u \in Sync!Thread : u # t => thread'[u] = thread[u]
  BY DEF SyncInv, Sync!Goto
<1>2. Sync!Order' = Sync!Order
  BY DEF Sync!Order
<1>3. Excluded'
  BY <1>1, ZenonT(60) DEF SyncInv, Excluded, Sync!Inside, Sync!MayEnter, Sync!Thread, Sync!Reader, Sync!W
<1>4. ASSUME NEW u \in Sync!Thread
      PROVE  (/\ u # Sync!W => thread[u] \notin {"store", "complete"}
              /\ thread[u] # "none" => \E i \in 1 .. up : Sync!Order[i] = u
              /\ lab # "completion" => thread[u] # "complete"
              /\ lab # "completion" /\ thread[u] = "exited" => u \in stopping)'
  BY <1>1, <1>2 DEF SyncInv
<1>5. ASSUME NEW i \in 1 .. Len(Sync!Order), i <= down
      PROVE  thread'[Sync!Order[i]] = "exited"
  BY <1>1, <1>5, OrderFacts DEF SyncInv
<1>6. Sync!OopsCauses'
  BY <1>1 DEF SyncInv, Sync!OopsCauses
<1> QED
  BY <1>1, <1>2, <1>3, <1>4, <1>5, <1>6 DEF SyncInv

\* What a thread does on its own, and with its lock.
LEMMA SyncThread ==
    ASSUME SyncInv, lab \in Sync!SyncModules, NEW t \in Sync!Thread,
           Sync!Step(t) \/ Sync!Lock(t)
    PROVE  SyncInv'
<1> USE DEF Sync!module, Sync!data, Sync!kthread_should_stop
<1>1. /\ counter \in Nat /\ tmp \in Nat /\ comp \in BOOLEAN /\ Completed
      /\ t # Sync!W => thread[t] \notin {"store", "complete"}
      /\ thread \in [Sync!Thread -> Pcs] /\ Sync!W \in Sync!Thread
  BY DEF SyncInv, Sync!Thread, Sync!W
<1>2. UNCHANGED <<lab, up, down, stopping, counter, tmp, comp>>
  BY DEF Sync!Step, Sync!Begin, Sync!Loop, Sync!PrintCounter, Sync!Unlock, Sync!Lock
<1>3. ASSUME NEW q \in Pcs, Sync!Goto(t, q), thread[t] # "complete", thread[t] # "exited",
             q \in {"inside", "store", "unlock"} /\ t # Sync!W => Sync!Inside(t) \/ Sync!MayEnter(t),
             q = "complete" => counter = Target
      PROVE  Completed'
  BY <1>1, <1>2, <1>3 DEF Completed, Sync!Goto, Sync!Inside, Sync!MayEnter, Sync!Reader
<1>4. CASE Sync!Begin(t)
  BY <1>1, <1>2, <1>3, <1>4, ThreadGoes DEF Sync!Begin, Pcs
<1>5. CASE Sync!Loop(t)
  <2>1. CASE lab # "completion"
    BY <1>1, <1>2, <1>3, <1>5, <2>1, ThreadGoes DEF Sync!Loop, Pcs
  <2>2. CASE lab = "completion"
    BY <1>1, <1>2, <1>3, <1>5, <2>2, ThreadGoes DEF Sync!Loop, Pcs
  <2> QED
    BY <2>1, <2>2
<1>6. CASE Sync!PrintCounter(t)
  BY <1>1, <1>2, <1>3, <1>6, ThreadGoes DEF Sync!PrintCounter, Pcs, Sync!Inside
<1>7. CASE Sync!Unlock(t)
  BY <1>1, <1>2, <1>3, <1>7, ThreadGoes DEF Sync!Unlock, Pcs, Sync!Inside
<1>8. CASE Sync!Lock(t)
  BY <1>1, <1>2, <1>3, <1>8, ThreadGoes DEF Sync!Lock, Pcs
<1> QED
  BY <1>4, <1>5, <1>6, <1>7, <1>8 DEF Sync!Step

\* counter++ of the writer, and complete().
LEMMA SyncWriter ==
    ASSUME SyncInv, lab \in Sync!SyncModules, Sync!Writer
    PROVE  SyncInv'
<1> USE DEF Sync!module, Sync!data
<1>1. /\ counter \in Nat /\ tmp \in Nat /\ comp \in BOOLEAN /\ Completed
      /\ thread \in [Sync!Thread -> Pcs] /\ Sync!W \in Sync!Thread
      /\ UNCHANGED <<lab, up, down, stopping>>
  BY DEF SyncInv, Sync!Thread, Sync!W, Sync!Writer, Sync!Load, Sync!Store, Sync!complete
<1>2. (counter + 1) % Word \in Nat /\ (tmp + 1) % Word \in Nat
  BY <1>1, LabsAssumption, Z3
<1>3. \A t \in Sync!Reader : t # Sync!W /\ t \in Sync!Thread
  BY DEF Sync!Reader
<1>4. CASE Sync!Load
  <2>1. \/ lab = "atomic" /\ Sync!Goto(Sync!W, "unlock")
        \/ lab # "atomic" /\ Sync!Goto(Sync!W, "store")
    BY <1>4 DEF Sync!Load
  <2>2. Completed'
    BY <1>1, <1>3, <1>4, <2>1 DEF Completed, Sync!Load, Sync!Goto, Sync!Inside
  <2>3. counter' \in Nat /\ tmp' \in Nat /\ comp' \in BOOLEAN /\ thread[Sync!W] = "inside"
    BY <1>1, <1>2, <1>4 DEF Sync!Load
  <2> QED
    BY <1>1, <2>1, <2>2, <2>3, ThreadGoes DEF Pcs, Sync!Inside
<1>5. CASE Sync!Store
  <2>1. Completed'
    BY <1>1, <1>3, <1>5 DEF Completed, Sync!Store, Sync!Goto, Sync!Inside
  <2>2. counter' \in Nat /\ tmp' \in Nat /\ comp' \in BOOLEAN /\ thread[Sync!W] = "store"
        /\ Sync!Goto(Sync!W, "unlock")
    BY <1>1, <1>2, <1>5 DEF Sync!Store
  <2> QED
    BY <1>1, <2>1, <2>2, ThreadGoes DEF Pcs, Sync!Inside
<1>6. CASE Sync!complete
  <2>1. lab = "completion"
    BY <1>1, <1>6 DEF SyncInv, Sync!complete
  <2>2. Completed'
    BY <1>1, <1>3, <1>6 DEF Completed, Sync!complete, Sync!Goto, Sync!Inside
  <2>3. counter' \in Nat /\ tmp' \in Nat /\ comp' \in BOOLEAN /\ thread[Sync!W] = "complete"
        /\ Sync!Goto(Sync!W, "exited")
    BY <1>1, <1>6 DEF Sync!complete
  <2> QED
    BY <1>1, <2>1, <2>2, <2>3, ThreadGoes DEF Pcs, Sync!Inside
<1> QED
  BY <1>4, <1>5, <1>6 DEF Sync!Writer

\* my_mod_init() and my_mod_exit().
LEMMA SyncModule ==
    ASSUME SyncInv, lab \in Sync!SyncModules, Sync!kthread_run \/ Sync!my_mod_exit \/ Sync!Exit
    PROVE  SyncInv'
<1> USE DEF Sync!data
<1>1. Sync!Order' = Sync!Order /\ lab' = lab /\ UNCHANGED <<counter, tmp, comp>>
  BY DEF Sync!Order, Sync!kthread_run, Sync!my_mod_exit, Sync!Exit, Sync!kthread_stop,
         Sync!Stopped, Sync!Oops
<1> DEFINE n == Len(Sync!Order)
<1>2. n \in 1 .. 4
  BY OrderFacts
<1>3. CASE Sync!kthread_run
  <2> DEFINE t == Sync!Order[up + 1]
  <2>1. up \in 0 .. n /\ up < n /\ up' = up + 1 /\ down = -1 /\ down' = -1 /\ stopping' = stopping
    BY <1>2, <1>3 DEF SyncInv, Sync!kthread_run
  <2>2. t \in Sync!Thread /\ \A i \in 1 .. up : Sync!Order[i] # t
    BY <1>2, <2>1, OrderFacts
  <2>3. thread[t] = "none"
    BY <2>2 DEF SyncInv
  <2> HIDE DEF t
  <2>4. /\ thread' \in [Sync!Thread -> Pcs] /\ thread'[t] \in {"created", "failed"}
        /\ \A u \in Sync!Thread : u # t => thread'[u] = thread[u]
    BY <1>3, <2>2 DEF SyncInv, Sync!kthread_run, Sync!Goto, Pcs, t
  <2>5. Excluded'
    BY <1>1, <2>2, <2>4 DEF SyncInv, Excluded, Sync!Inside, Sync!Thread, Sync!Reader, Sync!W
  <2>6. Completed'
    BY <1>1, <2>2, <2>3, <2>4 DEF SyncInv, Completed, Sync!Inside, Sync!Thread, Sync!Reader, Sync!W
  <2>7. ASSUME NEW u \in Sync!Thread
        PROVE  (/\ u # Sync!W => thread[u] \notin {"store", "complete"}
                /\ thread[u] # "none" => \E i \in 1 .. up : Sync!Order[i] = u
                /\ lab # "completion" => thread[u] # "complete"
                /\ lab # "completion" /\ thread[u] = "exited" => u \in stopping)'
    <3>1. CASE u = t
      BY <1>1, <2>1, <2>2, <2>4, <3>1 DEF t
    <3>2. CASE u # t
      BY <1>1, <2>1, <2>2, <2>4, <3>2, SMTT(40), SMTT(60) DEF SyncInv
    <3> QED
      BY <3>1, <3>2
  <2> QED
    BY <1>1, <1>2, <2>1, <2>4, <2>5, <2>6, <2>7 DEF SyncInv, Sync!OopsCauses
<1>4. CASE Sync!my_mod_exit
  BY <1>1, <1>2, <1>4
     DEF Sync!my_mod_exit, SyncInv, Excluded, Completed, Sync!Inside, Sync!OopsCauses
<1>5. ASSUME NEW t \in Sync!Thread, Sync!kthread_stop(t)
      PROVE  SyncInv'
  BY <1>1, <1>2, <1>5, SMTT(40), SMTT(60)
     DEF Sync!kthread_stop, SyncInv, Excluded, Completed, Sync!Inside, Sync!OopsCauses
<1>6. ASSUME NEW t \in Sync!Thread, Sync!Stopped(t)
      PROVE  SyncInv'
  <2>1. down \in 0 .. n - 1 /\ t = Sync!Order[down + 1] /\ thread[t] = "exited" /\ down' = down + 1
        /\ UNCHANGED <<up, thread, stopping>>
    BY <1>6 DEF Sync!Stopped, Sync!ToStop
  <2> QED
    BY <1>1, <1>2, <2>1 DEF SyncInv, Excluded, Completed, Sync!Inside, Sync!OopsCauses
<1>7. ASSUME NEW t \in Sync!Thread, Sync!Oops(t)
      PROVE  SyncInv'
  <2>1. down \in 0 .. n - 1 /\ t \notin stopping /\ thread[t] \in {"exited", "failed"}
        /\ down' = -2 /\ UNCHANGED <<up, thread, stopping>>
    BY <1>7 DEF Sync!Oops, Sync!ToStop
  <2>2. Sync!OopsCauses'
    BY <1>1, <2>1 DEF SyncInv, Sync!OopsCauses
  <2> QED
    BY <1>1, <1>2, <2>1, <2>2 DEF SyncInv, Excluded, Completed, Sync!Inside
<1> QED
  BY <1>3, <1>4, <1>5, <1>6, <1>7 DEF Sync!Exit

\* Every step of a module of sync keeps the invariant.
LEMMA SyncNext ==
    ASSUME SyncInv, Sync!Next
    PROVE  SyncInv'
  BY SyncThread, SyncWriter, SyncModule DEF Sync!Next

-----------------------------------------------------------------------------
(* sched-lab, timer-labs, mmap-labs                                        *)

\* demo_map_init() holds what it has acquired, and each label releases all of it.
LEMMA DeferredInit ==
    ASSUME DeferredInv, lab \in Deferred!DeferredModules, Deferred!my_init
    PROVE  DeferredInv'
<1>1. CASE Deferred!alloc_pages \/ Deferred!cdev_alloc \/ Deferred!alloc_chrdev_region
           \/ Deferred!cdev_add
  <2>1. lab = "mmap" /\ UNCHANGED <<lab, queued, fun, status>>
    BY <1>1 DEF DeferredInv, Deferred!alloc_pages, Deferred!cdev_alloc,
       Deferred!alloc_chrdev_region, Deferred!cdev_add, Deferred!Acquire
  <2>2. pc' \in MmapPc /\ held' = Holds(pc') /\ pc \notin {"loaded", "cancel"}
    BY <1>1, <2>1 DEF DeferredInv, Deferred!alloc_pages, Deferred!cdev_alloc,
       Deferred!alloc_chrdev_region, Deferred!cdev_add, Deferred!Acquire, MmapPc, Holds,
       Deferred!add_err, Deferred!region_err, Deferred!cdev_err
  <2> QED
    BY <2>1, <2>2 DEF DeferredInv, MmapPc
<1>2. ASSUME NEW module, NEW from, Deferred!Queue(module, from),
             from = IF lab = "mmap" THEN "add_timer" ELSE "init"
      PROVE  DeferredInv'
  BY <1>2 DEF DeferredInv, Deferred!Queue, MmapPc, Holds
<1> QED
  BY <1>1, <1>2, Zenon
     DEF Deferred!my_init, Deferred!tasklet_schedule, Deferred!schedule_work, Deferred!add_timer,
         Deferred!hrtimer_start, Deferred!add_timer_mmap, Deferred!Queue

\* The deferred functions run where my_exit() has not waited for them.
LEMMA DeferredFunction ==
    ASSUME DeferredInv, Deferred!Function
    PROVE  DeferredInv'
<1>1. CASE Deferred!Run
  BY <1>1, Zenon DEF DeferredInv, Deferred!Run
<1>2. ASSUME NEW module, NEW again \in BOOLEAN, Deferred!Return(module, again)
      PROVE  DeferredInv'
  BY <1>2 DEF DeferredInv, Deferred!Return
<1> QED
  BY <1>1, <1>2, Zenon
     DEF Deferred!Function, Deferred!t_fun, Deferred!thr_fun_work, Deferred!thr_fun_timer,
         Deferred!my_hrtimer_callback, Deferred!timer_func

\* The exit functions.
LEMMA DeferredExit ==
    ASSUME DeferredInv, lab \in Deferred!DeferredModules, Deferred!my_exit
    PROVE  DeferredInv'
<1>1. CASE Deferred!my_exit_tasklet \/ Deferred!my_exit_work \/ Deferred!my_exit_timer
  BY <1>1, Zenon DEF DeferredInv, Deferred!my_exit_tasklet, Deferred!my_exit_work,
     Deferred!my_exit_timer, Deferred!Leave
<1>2. CASE Deferred!my_exit_cancel
  BY <1>2 DEF DeferredInv, Deferred!my_exit_cancel, Deferred!Leave, MmapPc, Holds
<1>3. CASE Deferred!cancel
  BY <1>3, Zenon DEF DeferredInv, Deferred!cancel, MmapPc, Holds
<1>4. CASE Deferred!cdev_del \/ Deferred!unregister_chrdev_region \/ Deferred!free_pages
  <2>1. lab = "mmap" /\ UNCHANGED <<lab, queued, fun, status>>
    BY <1>4 DEF DeferredInv, Deferred!cdev_del, Deferred!unregister_chrdev_region,
       Deferred!free_pages, Deferred!Release
  <2>2. pc' \in MmapPc /\ held' = Holds(pc') /\ pc \notin {"loaded", "cancel"}
    BY <1>4, <2>1 DEF DeferredInv, Deferred!cdev_del, Deferred!unregister_chrdev_region,
       Deferred!free_pages, Deferred!Release, MmapPc, Holds
  <2> QED
    BY <2>1, <2>2 DEF DeferredInv, MmapPc
<1> QED
  BY <1>1, <1>2, <1>3, <1>4 DEF Deferred!my_exit

-----------------------------------------------------------------------------
(* char-device-labs, wait-event-labs                                       *)

\* A process that has the device open changes its own record only, and stays in the area.
LEMMA ProcessGoes ==
    ASSUME MiscInv, NEW p \in Proc, NEW r \in Process, Fits(r), proc' = [proc EXCEPT ![p] = r],
           data_ready' \in BOOLEAN, UNCHANGED <<dev, ramdisk>>,
           proc[p].pc # "closed" \/ dev = "registered"
    PROVE  MiscInv'
<1>1. proc' \in [Proc -> Process] /\ proc'[p] = r /\ \A u \in Proc : u # p => proc'[u] = proc[u]
  BY DEF MiscInv
<1>2. ASSUME NEW u \in Proc PROVE Fits(proc'[u]) /\ (proc'[u].pc # "closed" => dev = "registered")
  BY <1>1, Zenon DEF MiscInv
<1>3. Fits(proc[p])' = Fits(proc'[p])
  BY DEF Fits
<1> QED
  BY <1>1, <1>2 DEF MiscInv, Fits

\* A copy that begins in the area ends in it.
LEMMA StaysInside ==
    ASSUME NEW pos \in Nat, pos <= ramdisk_size, NEW lbuf \in Nat
    PROVE  Misc!bytes_to_do(pos, lbuf) =
               IF ramdisk_size - pos > lbuf THEN lbuf ELSE ramdisk_size - pos
<1> DEFINE d == ramdisk_size - pos
<1>1. d \in Nat /\ IntWord \in Nat /\ 2 * d < IntWord /\ IntWord > 0
  BY LabsAssumption, PositionAssumption
<1> HIDE DEF d
<1>2. d % IntWord = d
  BY <1>1, Z3
<1> QED
  BY <1>1, <1>2 DEF Misc!bytes_to_do, d

\* read(), write() and what is in them.
LEMMA MiscProcess ==
    ASSUME MiscInv, NEW p \in Proc,
           \/ Misc!mycdev_generic_open(p) \/ Misc!mycdev_generic_release(p)
           \/ Misc!ReadStart(p) \/ Misc!WriteStart(p) \/ Misc!Signal(p) \/ Misc!Inside(p)
    PROVE  MiscInv'
<1> DEFINE q == proc[p]
<1>1. q \in Process /\ Fits(q) /\ dev' = dev /\ ramdisk' = ramdisk /\ proc \in [Proc -> Process]
      /\ (q.pc # "closed" \/ dev = "registered") /\ data_ready' \in BOOLEAN
  <2>1. UNCHANGED <<dev, ramdisk>> /\ data_ready' \in {data_ready, TRUE, FALSE}
        /\ (q.pc # "closed" \/ dev = "registered")
    BY Zenon DEF Misc!mycdev_generic_open, Misc!mycdev_generic_release, Misc!ReadStart, Misc!WriteStart,
       Misc!Signal, Misc!Inside, Misc!prepare_to_wait, Misc!Recheck, Misc!Interrupted,
       Misc!mycdev_generic_read, Misc!ReadDone, Misc!mycdev_generic_write, Misc!Announce, Misc!wake_up
  <2> QED
    BY <2>1, Zenon, SMT DEF MiscInv
<1>2. ASSUME NEW pc1 \in Device \cup {"closed"}, Misc!Goto(p, pc1)
      PROVE  MiscInv'
  <2>1. [q EXCEPT !.pc = pc1] \in Process /\ Fits([q EXCEPT !.pc = pc1])
    BY <1>1 DEF Process, Fits
  <2>2. proc' = [proc EXCEPT ![p] = [q EXCEPT !.pc = pc1]]
    BY <1>1, <1>2 DEF Misc!Goto
  <2> QED
    BY <1>1, <2>1, <2>2, ProcessGoes, Zenon
<1>3. ASSUME NEW pc1 \in Device, Misc!Copy(p, pc1)
      PROVE  MiscInv'
  <2>0. PICK lbuf \in 0 .. MaxBuf : \E n \in 0 .. Misc!bytes_to_do(q.at, lbuf) :
             proc' = [proc EXCEPT
                 ![p] = [q EXCEPT !.pc = pc1, !.at = 0, !.moves = FALSE,
                             !.ppos = IF q.moves THEN q.at + n ELSE @]]
    BY <1>3, Zenon DEF Misc!Copy
  <2>1. PICK n \in 0 .. Misc!bytes_to_do(q.at, lbuf) :
             proc' = [proc EXCEPT
                 ![p] = [q EXCEPT !.pc = pc1, !.at = 0, !.moves = FALSE,
                             !.ppos = IF q.moves THEN q.at + n ELSE @]]
    BY <2>0, Zenon
  <2> DEFINE ppos1 == IF q.moves THEN q.at + n ELSE q.ppos
  <2>2. q.ppos \in 0 .. ramdisk_size /\ q.at \in Nat /\ q.moves \in BOOLEAN /\ 0 \in Nat
        /\ (q.moves => q.at <= ramdisk_size)
    BY <1>1 DEF Process, Fits
  <2>3. ASSUME q.moves PROVE q.at + n \in 0 .. ramdisk_size
    <3>1. lbuf \in Nat /\ ramdisk_size \in Nat
      BY LabsAssumption
    <3>2. Misc!bytes_to_do(q.at, lbuf) =
              IF ramdisk_size - q.at > lbuf THEN lbuf ELSE ramdisk_size - q.at
      BY <2>2, <2>3, <3>1, StaysInside
    <3> QED
      BY <2>1, <2>2, <2>3, <3>1, <3>2
  <2>4. ppos1 \in 0 .. ramdisk_size
    BY <2>2, <2>3, Zenon
  <2>5. proc' = [proc EXCEPT
            ![p] = [q EXCEPT !.pc = pc1, !.at = 0, !.moves = FALSE, !.ppos = ppos1]]
    BY <2>1, Zenon
  <2> HIDE DEF ppos1
  <2>6. [q EXCEPT !.pc = pc1, !.at = 0, !.moves = FALSE, !.ppos = ppos1] \in Process
        /\ Fits([q EXCEPT !.pc = pc1, !.at = 0, !.moves = FALSE, !.ppos = ppos1])
    BY <1>1, <2>2, <2>4, Zenon DEF Process, Fits
  <2> QED
    BY <1>1, <2>5, <2>6, ProcessGoes, Zenon
<1>4. ASSUME NEW pc1 \in Device, Misc!TakePosition(p, pc1)
      PROVE  MiscInv'
  <2>1. \A pos \in Position : pos \in Nat
    BY PositionAssumption
  <2>2. q.ppos \in Nat /\ q.ppos <= ramdisk_size
    BY <1>1, LabsAssumption DEF Process
  <2>3. CASE proc' = [proc EXCEPT ![p].pc = pc1, ![p].at = proc[p].ppos, ![p].moves = TRUE]
    <3>1. [q EXCEPT !.pc = pc1, !.at = q.ppos, !.moves = TRUE] \in Process
          /\ Fits([q EXCEPT !.pc = pc1, !.at = q.ppos, !.moves = TRUE])
      BY <1>1, <2>2, Zenon DEF Process, Fits
    <3>2. proc' = [proc EXCEPT ![p] = [q EXCEPT !.pc = pc1, !.at = q.ppos, !.moves = TRUE]]
      BY <1>1, <2>3, Zenon
    <3> QED
      BY <1>1, <3>1, <3>2, ProcessGoes, Zenon
  <2>4. ASSUME NEW pos \in Position,
               proc' = [proc EXCEPT ![p].pc = pc1, ![p].at = pos, ![p].moves = FALSE]
        PROVE  MiscInv'
    <3>1. [q EXCEPT !.pc = pc1, !.at = pos, !.moves = FALSE] \in Process
          /\ Fits([q EXCEPT !.pc = pc1, !.at = pos, !.moves = FALSE])
      BY <1>1, <2>1, <2>4, Zenon DEF Process, Fits
    <3>2. proc' = [proc EXCEPT ![p] = [q EXCEPT !.pc = pc1, !.at = pos, !.moves = FALSE]]
      BY <1>1, <2>4, Zenon
    <3> QED
      BY <1>1, <3>1, <3>2, ProcessGoes, Zenon
  <2> QED
    BY <1>4, <2>3, <2>4, Zenon DEF Misc!TakePosition
<1>5. CASE Misc!mycdev_generic_open(p) \/ Misc!mycdev_generic_release(p)
  <2>1. 0 \in 0 .. ramdisk_size /\ 0 \in Nat
    BY LabsAssumption
  <2>2. /\ Misc!Closed \in Process /\ Fits(Misc!Closed)
        /\ [Misc!Closed EXCEPT !.pc = "open"] \in Process
        /\ Fits([Misc!Closed EXCEPT !.pc = "open"])
    BY <2>1, Zenon DEF Misc!Closed, Process, Fits, Device
  <2> QED
    BY <1>1, <1>5, <2>2, ProcessGoes, Zenon DEF Misc!mycdev_generic_open, Misc!mycdev_generic_release
<1>6. CASE Misc!ReadStart(p) \/ Misc!WriteStart(p) \/ Misc!ReadDone(p) \/ Misc!Announce(p)
  BY <1>2, <1>4, <1>6, Zenon
     DEF Misc!ReadStart, Misc!WriteStart, Misc!ReadDone, Misc!Announce, Misc!Returned, Device
<1>7. CASE Misc!mycdev_generic_write(p) \/ Misc!mycdev_generic_read(p)
  BY <1>3, <1>7 DEF Misc!mycdev_generic_write, Misc!mycdev_generic_read, Device
<1>8. CASE Misc!prepare_to_wait(p)
  <2>1. [q EXCEPT !.pc = "recheck", !.interruptible = TRUE] \in Process
        /\ Fits([q EXCEPT !.pc = "recheck", !.interruptible = TRUE])
    BY <1>1, Zenon DEF Process, Fits, Device
  <2>2. proc' = [proc EXCEPT ![p] = [q EXCEPT !.pc = "recheck", !.interruptible = TRUE]]
    BY <1>1, <1>8, Zenon DEF Misc!prepare_to_wait
  <2> QED
    BY <1>1, <2>1, <2>2, ProcessGoes, Zenon
<1>9. CASE Misc!Recheck(p)
  <2>1. [q EXCEPT !.pc = "awake", !.interruptible = FALSE] \in Process
        /\ Fits([q EXCEPT !.pc = "awake", !.interruptible = FALSE])
    BY <1>1, Zenon DEF Process, Fits, Device
  <2>2. CASE data_ready \/ q.signal
    <3>1. proc' = [proc EXCEPT ![p] = [q EXCEPT !.pc = "awake", !.interruptible = FALSE]]
      BY <1>1, <1>9, <2>2, Zenon DEF Misc!Recheck
    <3> QED
      BY <1>1, <2>1, <3>1, ProcessGoes, Zenon
  <2>3. CASE ~(data_ready \/ q.signal)
    BY <1>2, <1>9, <2>3 DEF Misc!Recheck, Device
  <2> QED
    BY <2>2, <2>3
<1>10. CASE Misc!Interrupted(p)
  <2>1. [q EXCEPT !.pc = "open", !.signal = FALSE] \in Process
        /\ Fits([q EXCEPT !.pc = "open", !.signal = FALSE])
    BY <1>1, Zenon DEF Process, Fits, Device
  <2>2. CASE q.signal
    <3>1. proc' = [proc EXCEPT ![p] = [q EXCEPT !.pc = "open", !.signal = FALSE]]
      BY <1>1, <1>10, <2>2, Zenon DEF Misc!Interrupted
    <3> QED
      BY <1>1, <2>1, <3>1, ProcessGoes, Zenon
  <2>3. CASE ~q.signal
    BY <1>4, <1>10, <2>3 DEF Misc!Interrupted, Device
  <2> QED
    BY <2>2, <2>3
<1>11. CASE Misc!Signal(p)
  <2>1. [q EXCEPT !.signal = TRUE, !.interruptible = FALSE] \in Process
        /\ Fits([q EXCEPT !.signal = TRUE, !.interruptible = FALSE])
    BY <1>1, Zenon DEF Process, Fits
  <2>2. proc' = [proc EXCEPT ![p] = [q EXCEPT !.signal = TRUE, !.interruptible = FALSE]]
    BY <1>1, <1>11, Zenon DEF Misc!Signal
  <2> QED
    BY <1>1, <2>1, <2>2, ProcessGoes, Zenon
<1>12. CASE Misc!wake_up(p)
  <2> DEFINE w(u) == [proc[u] EXCEPT !.interruptible = FALSE, !.pc = IF u = p THEN "open" ELSE @]
  <2>1. ASSUME NEW u \in Proc
        PROVE  w(u) \in Process /\ Fits(w(u)) /\ (w(u).pc # "closed" => proc[u].pc # "closed")
    <3>1. proc[u] \in Process /\ Fits(proc[u]) /\ (u = p => proc[u].pc # "closed")
      BY <1>12, Zenon DEF MiscInv, Misc!wake_up
    <3> QED
      BY <3>1, Zenon DEF Process, Fits, Device
  <2>2. proc' = [u \in Proc |-> w(u)]
    BY <1>12, Zenon DEF Misc!wake_up
  <2> HIDE DEF w
  <2>3. proc' \in [Proc -> Process] /\ \A u \in Proc : proc'[u] = w(u)
    BY <2>1, <2>2
  <2> QED
    BY <1>1, <2>1, <2>3 DEF MiscInv
<1> QED
  BY <1>5, <1>6, <1>7, <1>8, <1>9, <1>10, <1>11, <1>12, Zenon DEF Misc!Inside

\* Loading and unloading, which waits until no process has the device open.
LEMMA MiscModule ==
    ASSUME MiscInv,
           \/ Misc!my_generic_init \/ Misc!misc_register
           \/ Misc!delete_module \/ Misc!misc_deregister \/ Misc!my_generic_exit
    PROVE  MiscInv'
<1>1. proc' = proc /\ data_ready' \in BOOLEAN /\ ramdisk' \in BOOLEAN
  BY Zenon DEF MiscInv, Misc!my_generic_init, Misc!misc_register, Misc!delete_module,
     Misc!misc_deregister, Misc!my_generic_exit
<1>2. \A p \in Proc : proc[p].pc # "closed" => dev' = "registered"
  BY Zenon DEF MiscInv, Misc!my_generic_init, Misc!misc_register, Misc!delete_module,
     Misc!misc_deregister, Misc!my_generic_exit, Misc!Pinned
<1>3. dev' \in {"out", "loading", "registered", "going", "unlisted"} /\ (dev' # "out" => ramdisk')
  BY Zenon DEF MiscInv, Misc!my_generic_init, Misc!misc_register, Misc!delete_module,
     Misc!misc_deregister, Misc!my_generic_exit
<1> QED
  BY <1>1, <1>2, <1>3, Zenon DEF MiscInv

-----------------------------------------------------------------------------
(* All of them.                                                            *)

\* Every module starts as its invariant says.
LEMMA LabsInit == Init => LabsInv
<1> SUFFICES ASSUME Init PROVE LabsInv
  OBVIOUS
<1>1. IrqInv
  <2>1. /\ soft.pc \in (IF lab = "add_thread" THEN {"created", "failed"} ELSE {"idle"})
        /\ ~soft.pending
        /\ soft \in [pc : SoftPc, pending : BOOLEAN, interruptible : BOOLEAN, seen : Nat]
        /\ soft.seen = 0
    <3>1. PICK at \in IF lab = "add_thread" THEN {"created", "failed"} ELSE {"idle"} :
             soft = [pc |-> at, pending |-> FALSE, interruptible |-> FALSE, seen |-> 0]
      BY Zenon DEF Init, Irq!Init
    <3>2. at \in SoftPc
      BY <3>1 DEF SoftPc
    <3> QED
      BY <3>1, <3>2
  <2>2. data \in Data /\ data.th = 0 /\ data.bh = 0 /\ data.nevents = 0 /\ data.jiffies = 0
    BY LabsAssumption DEF Init, Irq!Init, Data
  <2> QED
    BY <2>1, <2>2, LabsAssumption
       DEF Init, Irq!Init, IrqInv, Irq!Done, Balance, Announced, One, Waits
<1>2. SyncInv
  <2>1. /\ thread \in [Sync!Thread -> Pcs] /\ Sync!W \in Sync!Thread
        /\ \A t \in Sync!Thread : thread[t] = "none"
    BY DEF Init, Sync!Init, Pcs, Sync!Thread, Sync!W
  <2>2. Excluded /\ Completed
    BY <2>1 DEF Init, Sync!Init, Excluded, Completed, Sync!Inside, Sync!Reader
  <2>3. up = 0 /\ down = -1 /\ stopping = {} /\ counter = 0 /\ tmp = 0
    BY DEF Init, Sync!Init
  <2>4. comp \in BOOLEAN
    BY Zenon DEF Init, Sync!Init
  <2> QED
    BY <2>1, <2>2, <2>3, <2>4, OrderFacts DEF SyncInv, Sync!OopsCauses
<1>3. DeferredInv
  BY Zenon DEF Init, Deferred!Init, DeferredInv, MmapPc, Holds
<1>4. MiscInv
  <2>1. 0 \in 0 .. ramdisk_size /\ 0 \in Nat
    BY LabsAssumption
  <2>2. Misc!Closed \in Process /\ Fits(Misc!Closed) /\ Misc!Closed.pc = "closed"
    BY <2>1, Zenon DEF Misc!Closed, Process, Fits
  <2> QED
    BY <2>2, Zenon DEF Init, Misc!Init, MiscInv
<1> QED
  BY <1>1, <1>2, <1>3, <1>4 DEF LabsInv

labsVars == <<lab, miscVars, irqVars, syncVars, deferredVars>>

\* The invariant of a module that is not loaded is left alone.
LEMMA LeftAlone ==
    ASSUME UNCHANGED lab
    PROVE  /\ IrqInv /\ UNCHANGED irqVars => IrqInv'
           /\ SyncInv /\ UNCHANGED syncVars => SyncInv'
           /\ DeferredInv /\ UNCHANGED deferredVars => DeferredInv'
           /\ MiscInv /\ UNCHANGED miscVars => MiscInv'
<1>1. ASSUME IrqInv, UNCHANGED irqVars PROVE IrqInv'
  BY <1>1 DEF IrqInv, irqVars, SoftPc, Balance, Announced, Irq!Done
<1>2. ASSUME SyncInv, UNCHANGED syncVars PROVE SyncInv'
  BY <1>2 DEF SyncInv, syncVars, Excluded, Completed, Sync!Inside, Sync!Order, Sync!OopsCauses
<1>3. ASSUME DeferredInv, UNCHANGED deferredVars PROVE DeferredInv'
  BY <1>3 DEF DeferredInv, deferredVars
<1>4. ASSUME MiscInv, UNCHANGED miscVars PROVE MiscInv'
  BY <1>4 DEF MiscInv, miscVars
<1> QED
  BY <1>1, <1>2, <1>3, <1>4

\* Every step of every module keeps all four.
LEMMA LabsNext == LabsInv /\ [Next]_labsVars => LabsInv'
<1> SUFFICES ASSUME LabsInv, [Next]_labsVars PROVE LabsInv'
  OBVIOUS
<1>1. CASE Misc!Next /\ UNCHANGED <<irqVars, syncVars, deferredVars>>
  <2>1. MiscInv'
    BY <1>1, MiscProcess, MiscModule, Zenon DEF Misc!Next, LabsInv
  <2>2. UNCHANGED lab
    BY <1>1, Zenon DEF Misc!Next, Misc!my_generic_init, Misc!misc_register, Misc!delete_module,
       Misc!misc_deregister, Misc!my_generic_exit, Misc!mycdev_generic_open,
       Misc!mycdev_generic_release, Misc!ReadStart, Misc!WriteStart, Misc!mycdev_generic_write,
       Misc!Signal, Misc!Inside, Misc!prepare_to_wait, Misc!Recheck, Misc!Interrupted,
       Misc!mycdev_generic_read, Misc!ReadDone, Misc!Announce, Misc!wake_up
  <2> QED
    BY <1>1, <2>1, <2>2, LeftAlone DEF LabsInv
<1>2. CASE Irq!Next /\ UNCHANGED <<miscVars, syncVars, deferredVars>>
  <2>1. IrqInv'
    BY <1>2, IrqEnter, IrqHandler, IrqExit, IrqBottomHalf DEF Irq!Next, LabsInv
  <2>2. UNCHANGED lab
    BY <1>2 DEF Irq!Next, Irq!Enter, Irq!HandlerStep, Irq!CountEvent, Irq!StoreJiffies,
       Irq!Request, Irq!SetCond, Irq!wake_up, Irq!BottomHalf, Irq!my_exit, Irq!Exit, Irq!Stopped,
       Irq!free_irq, Irq!tasklet_kill, Irq!Leave
  <2> QED
    BY <1>2, <2>1, <2>2, LeftAlone DEF LabsInv
<1>3. CASE Sync!Next /\ UNCHANGED <<miscVars, irqVars, deferredVars>>
  <2>1. SyncInv'
    BY <1>3, SyncNext DEF LabsInv
  <2>2. UNCHANGED lab
    BY <1>3 DEF Sync!Next, Sync!kthread_run, Sync!my_mod_exit, Sync!Exit, Sync!kthread_stop,
       Sync!Stopped, Sync!Oops, Sync!Writer, Sync!Load, Sync!Store, Sync!complete, Sync!Step,
       Sync!Begin, Sync!Loop, Sync!PrintCounter, Sync!Unlock, Sync!Lock, Sync!module
  <2> QED
    BY <1>3, <2>1, <2>2, LeftAlone DEF LabsInv
<1>4. CASE Deferred!Next /\ UNCHANGED <<miscVars, irqVars, syncVars>>
  <2>1. DeferredInv'
    BY <1>4, DeferredInit, DeferredFunction, DeferredExit, ZenonT(60) DEF Deferred!Next, LabsInv
  <2>2. UNCHANGED lab
    BY <1>4 DEF Deferred!Next, Deferred!my_init, Deferred!alloc_pages, Deferred!cdev_alloc,
       Deferred!alloc_chrdev_region, Deferred!cdev_add, Deferred!Acquire, Deferred!Queue,
       Deferred!tasklet_schedule, Deferred!schedule_work, Deferred!add_timer,
       Deferred!hrtimer_start, Deferred!add_timer_mmap, Deferred!Function, Deferred!Run,
       Deferred!Return, Deferred!t_fun, Deferred!thr_fun_work, Deferred!thr_fun_timer,
       Deferred!my_hrtimer_callback, Deferred!timer_func, Deferred!my_exit, Deferred!Leave,
       Deferred!my_exit_tasklet, Deferred!my_exit_work, Deferred!my_exit_timer,
       Deferred!my_exit_cancel, Deferred!cancel, Deferred!Release, Deferred!cdev_del,
       Deferred!unregister_chrdev_region, Deferred!free_pages
  <2> QED
    BY <1>4, <2>1, <2>2, LeftAlone DEF LabsInv
<1>5. CASE UNCHANGED labsVars
  BY <1>5, LeftAlone DEF LabsInv, labsVars
<1> QED
  BY <1>1, <1>2, <1>3, <1>4, <1>5 DEF Next

\* What the invariants say of the labs.
LEMMA LabsInvImplies ==
    ASSUME LabsInv
    PROVE  AreaSafe /\ EventsCounted /\ OutlivesExit /\ StablePrint /\ ThreadsStopped /\ MmapSound
<1>1. AreaSafe
  <2> SUFFICES ASSUME NEW p \in Proc
               PROVE  /\ proc[p].ppos \in 0 .. ramdisk_size
                      /\ Misc!LeavesArea(p) => ~proc[p].moves /\ proc[p].at > ramdisk_size
                      /\ proc[p].pc # "closed" => ramdisk
    BY DEF AreaSafe, Misc!AreaSafe
  <2>1. proc[p].ppos \in 0 .. ramdisk_size /\ proc[p].at \in Nat /\ Fits(proc[p])
        /\ (proc[p].pc # "closed" => ramdisk)
    BY DEF LabsInv, MiscInv, Process
  <2>2. ramdisk_size \in Nat /\ MaxBuf \in Nat
    BY LabsAssumption
  <2>3. ASSUME proc[p].at <= ramdisk_size, NEW lbuf \in 1 .. MaxBuf
        PROVE  ~(proc[p].at + Misc!bytes_to_do(proc[p].at, lbuf) > ramdisk_size)
    BY <2>1, <2>2, <2>3, StaysInside
  <2>4. Misc!LeavesArea(p) => proc[p].at > ramdisk_size
    <3>1. Misc!LeavesArea(p) => ~(proc[p].at <= ramdisk_size)
      BY <2>3, Zenon DEF Misc!LeavesArea
    <3> QED
      BY <2>1, <2>2, <3>1
  <2> QED
    BY <2>1, <2>2, <2>4 DEF Fits
<1>2. EventsCounted
  <2>1. data.th \in 0 .. Word - 1 /\ data.bh \in 0 .. Word - 1 /\ Word \in Nat
    BY LabsAssumption DEF LabsInv, IrqInv, Data
  <2>2. ASSUME lab = "thread", Irq!Quiet PROVE data.nevents = 0 /\ data.bh = data.th
    <3>1. data.nevents = 0 /\ Balance \in {-Word, 0, Word}
      BY <2>2 DEF LabsInv, IrqInv, Irq!Quiet, Irq!Done
    <3> QED
      BY <2>1, <2>2, <3>1 DEF Balance, One, Irq!Quiet, Irq!Done
  <2>3. Irq!LastInterruptSeen
    BY DEF LabsInv, IrqInv, Irq!LastInterruptSeen, Irq!Quiet, Irq!Done
  <2>4. Announced \in Nat
    BY DEF Announced, One
  <2>5. Irq!NoPhantomEvent
    BY <2>1, <2>4 DEF LabsInv, IrqInv, Irq!NoPhantomEvent
  <2> QED
    BY <2>2, <2>3, <2>5 DEF EventsCounted, Irq!AllEventsCounted
<1>3. OutlivesExit
  <2>1. Irq!OnlyWorkSurvives
    BY DEF LabsInv, IrqInv, Irq!OnlyWorkSurvives, Irq!Done, Irq!IrqModules
  <2>2. Deferred!OnlyUncancelledSurvive
    BY DEF LabsInv, DeferredInv, Deferred!OnlyUncancelledSurvive
  <2> QED
    BY <2>1, <2>2 DEF OutlivesExit
<1>4. StablePrint
  <2> SUFFICES ASSUME NEW r \in Sync!Reader, thread[r] = "inside"
               PROVE  thread[Sync!W] # "store" /\ (lab = "completion" => counter = Target)
    BY DEF StablePrint, Sync!StablePrint
  <2>1. /\ r \in Sync!Thread /\ r # Sync!W /\ Sync!W \in Sync!Thread /\ Sync!Inside(r)
        /\ thread[Sync!W] = "store" => Sync!Inside(Sync!W)
    BY DEF Sync!Reader, Sync!Inside, Sync!Thread
  <2>2. lab \in Sync!SyncModules
    BY <2>1 DEF LabsInv, SyncInv
  <2>3. CASE lab = "kthread_run"
    BY <2>1, <2>3 DEF LabsInv, SyncInv, Sync!Order, Sync!W
  <2> QED
    BY <2>1, <2>2, <2>3 DEF LabsInv, SyncInv, Excluded, Completed, Sync!SyncModules
<1>5. ThreadsStopped
  BY OrderFacts DEF LabsInv, SyncInv, ThreadsStopped, Sync!NoThreadLeft, Sync!Gone
<1>6. MmapSound
  BY DEF LabsInv, DeferredInv, MmapSound, Deferred!PageMapped, Deferred!NothingHeld, Holds
<1> QED
  BY <1>1, <1>2, <1>3, <1>4, <1>5, <1>6

\* lab-misc.c and wait_event.c, for any number of processes, size, length and positions: no
\* file position leaves the area, no copy does but those of a pread() or pwrite() that starts
\* beyond its end, and the area is never freed under a process that has the device open,
\* whatever opens, calls and the steps of loading and unloading come between.
THEOREM AreaSafeHolds == Spec => []AreaSafe
<1>1. LabsInv => AreaSafe
  BY LabsInvImplies
<1> QED
  BY <1>1, LabsInit, LabsNext, PTL DEF Spec, labsVars

\* interrupt-labs, for any number of interrupts and any width of atomic_t: the threaded handler
\* counts every event however they overlap its countdown, tasklet and work item print the time of
\* the last one, and no other bottom half counts an event that was none.
THEOREM EventsCountedHolds == Spec => []EventsCounted
<1>1. LabsInv => EventsCounted
  BY LabsInvImplies
<1> QED
  BY <1>1, LabsInit, LabsNext, PTL DEF Spec, labsVars

\* interrupt-labs, sched-lab, timer-labs: nothing of a module runs or is about to once my_exit()
\* has returned, but for a work item nobody flushes and the functions nobody cancels.
THEOREM OutlivesExitHolds == Spec => []OutlivesExit
<1>1. LabsInv => OutlivesExit
  BY LabsInvImplies
<1> QED
  BY <1>1, LabsInit, LabsNext, PTL DEF Spec, labsVars

\* sync: no reader prints the counter in the middle of counter++, and the reader of completion.c
\* prints the final value.
THEOREM StablePrintHolds == Spec => []StablePrint
<1>1. LabsInv => StablePrint
  BY LabsInvImplies
<1> QED
  BY <1>1, LabsInit, LabsNext, PTL DEF Spec, labsVars

\* sync: a my_mod_exit() that returns leaves no thread behind, whatever kthread_run() failed at and
\* however the threads run, and kthread_stop() meets what is no thread only if one could not be
\* created, or in completion.c.
THEOREM ThreadsStoppedHolds == Spec => []ThreadsStopped
<1>1. LabsInv => ThreadsStopped
  BY LabsInvImplies
<1> QED
  BY <1>1, LabsInit, LabsNext, PTL DEF Spec, labsVars

\* mmap.c: timer_func() reads a page that is mapped whenever it fires, and both a failed
\* demo_map_init() and demo_map_exit() release everything.
THEOREM MmapSoundHolds == Spec => []MmapSound
<1>1. LabsInv => MmapSound
  BY LabsInvImplies
<1> QED
  BY <1>1, LabsInit, LabsNext, PTL DEF Spec, labsVars
=============================================================================
