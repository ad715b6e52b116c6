--------------------------- MODULE Drivers_proofs ---------------------------
(***************************************************************************)
(* The RAM disks, kobject-event.c and poll.c for any number of CPUs,         *)
(* requests and sectors.                                                   *)
(***************************************************************************)
EXTENDS Drivers, Sequences, TLAPS

Mod == [at : {"init", "loaded", "exit", "gone", "failed", "misuse"}, ip : Nat \ {0}, failed : BOOLEAN]

\* Nothing has failed that ramhd_req.c should have looked at.
Checked == lab # "ramhd_req" \/ ~mod.failed

\* While the disks are used their buffers are there: ramhd_init() gets both before it adds
\* a disk, sampleblk_alloc() its only one.
Buffers ==
    /\ lab \in BlockModules => held \cap {"notifier", "kprobe"} = {}
    /\ lab \in {"ramhd_mkreq", "ramhd_req"} /\ Checked =>
          /\ mod.at = "init" /\ mod.ip < 3 => {"disk0", "disk1"} \cap held = {}
          /\ mod.at = "init" /\ mod.ip = 2 => "sdisk0" \in held
          /\ (mod.at = "init" /\ mod.ip >= 3) \/ mod.at = "loaded" => {"sdisk0", "sdisk1"} \subseteq held
    /\ lab = "sample_blk" =>
          /\ "disk1" \notin held
          /\ mod.at = "init" => "disk0" \notin held
          /\ mod.at = "init" /\ mod.ip >= 4 => "sdisk0" \in held
          /\ mod.at = "loaded" /\ "disk0" \in held => "sdisk0" \in held

Request == [st : {"idle", "queued", "started", "done"}, dev : Device, write : BOOLEAN, pos : Nat,
            len : Nat, err : {0, 5}, buf : [Sector -> Int]]
Worker  == [at : {"out", "loop", "copy", "end"}, rq : Int, seg : Nat, rv : {0, 5}]

IoType ==
    /\ sectors \in [Device -> [Sector -> Int]]
    /\ req \in [Req -> Request]
    /\ worker \in [Ctx -> Worker]
    /\ prior \in [Req -> SUBSET Req]

Active(c) == worker[c].at \in {"copy", "end"}

\* A worker has a started request of its own, and is inside it.
Working ==
    /\ \A c \in Ctx : Active(c) =>
          LET q == req[worker[c].rq]
          IN  /\ worker[c].rq \in Req /\ q.st = "started"
              /\ worker[c].at = "copy" => ~Beyond(q) /\ worker[c].seg < q.len
              /\ worker[c].at = "end" => worker[c].rv = IF Beyond(q) THEN 5 ELSE 0
              /\ worker[c].at = "end" /\ ~Beyond(q) => worker[c].seg = q.len
    /\ \A c, d \in Ctx : Active(c) /\ Active(d) /\ worker[c].rq = worker[d].rq => c = d
    /\ lab = "ramhd_req" => \A c \in Ctx : worker[c].at # "end"
    /\ lab \notin BlockModules => \A c \in Ctx : worker[c].at = "out"

Requests ==
    \A r \in Req :
        /\ req[r].st = "idle" => ~req[r].write
        /\ req[r].st \in {"idle", "queued", "started"} => req[r].err = 0
        /\ req[r].st # "idle" => req[r].pos \in Sector /\ req[r].len \in 1 .. Sectors
        /\ req[r].st # "idle" /\ lab = "ramhd_req" => ~Beyond(req[r])
        /\ req[r].st = "done" => req[r].err = IF Beyond(req[r]) THEN 5 ELSE 0

\* busy is the set of the requests that have not ended; they keep the module loaded, and
\* so the buffer of their disk.
Busy ==
    lab \in BlockModules =>
        /\ busy = {r \in Req : req[r].st \in {"queued", "started"}}
        /\ mod.at \in {"exit", "gone"} \/ (lab = "sample_blk" /\ mod.at = "init") => busy = {}
        /\ Checked => \A r \in busy : sdisk(req[r].dev) \in held

\* Sector s of the request o has been copied.
Copied(o, s) ==
    /\ s \in Range(req[o]) /\ ~Beyond(req[o])
    /\ \/ req[o].st = "done"
       \/ \E c \in Ctx : Active(c) /\ worker[c].rq = o /\ s < req[o].pos + worker[c].seg

\* What a write copied is on the disk, or was replaced by one that overlaps it or came
\* later; what a read copied was on the disk meanwhile.
Copies ==
    /\ \A o \in Req : \A x \in prior[o] : req[x].st = "done"
    /\ \A i \in Device, s \in Sector : sectors[i][s] \in Req => Wrote(sectors[i][s], i, s)
    /\ \A o \in Req, s \in Sector : req[o].write /\ Copied(o, s) =>
          sectors[req[o].dev][s] \in Req \ prior[o]
    /\ \A o \in Req, s \in Sector : ~req[o].write /\ Copied(o, s) =>
          /\ Fresh(req[o].buf[s], req[o].dev, s, prior[o])
          /\ req[o].buf[s] \in Req => o \notin prior[req[o].buf[s]]

DiskInv == IoType /\ Working /\ Requests /\ Busy /\ Copies

-----------------------------------------------------------------------------
(* kobject-event.c, poll.c, notifier-module.c.                             *)

\* The notifier block is there before and after its registration; the child and its kset
\* while the attribute is.
Objects ==
    /\ lab \notin {"notifier", "kprobe"} => held \cap {"notifier", "kprobe"} = {}
    /\ lab = "notifier" =>
          /\ mod.at = "init" /\ mod.ip >= 2 => "pnb" \in held
          /\ "notifier" \in held => "pnb" \in held
          /\ mod.at = "init" \/ (mod.at = "exit" /\ mod.ip >= 2) => "notifier" \notin held
          /\ "notifier" \notin held => busy = {}
          /\ "kprobe" \notin held
    /\ lab = "kobject" =>
          /\ "attr" \in held => {"child", "c_kset"} \subseteq held
          /\ mod.at = "init" /\ mod.ip >= 3 => "child" \in held
          /\ mod.at = "init" /\ mod.ip >= 4 => "c_kset" \in held
          /\ mod.at = "exit" /\ mod.ip >= 3 => "attr" \notin held
          /\ "attr" \notin held => busy = {}

Value == Command \cup {1, None}

StoreState ==
    [pc : {"none", "switch", "uevent", "send", "suppress", "return"}, want : Value,
     later : SUBSET Value, act : Value, event : {"none", "sent", "no memory", "dropped"},
     seen : SUBSET BOOLEAN]

\* What is true of a store when flag is f and uevent_suppress u: until it switches, flag holds its
\* command or a later one, and it knows the present suppression until it is done.
Sound(s, f, u) ==
    /\ s.pc = "switch" => f = s.want \/ f \in s.later
    /\ s.pc \in {"uevent", "send", "suppress", "return"} => s.act = s.want \/ s.act \in s.later
    /\ s.pc \in {"switch", "uevent", "send", "suppress"} => u \in s.seen /\ s.event = "none"
    /\ s.pc \in {"uevent", "send"} => s.act \in Events
    /\ s.pc = "suppress" => s.act \notin Events
    /\ s.pc = "send" => FALSE \in s.seen
    /\ s.pc = "return" =>
           /\ s.act \in Events <=> s.event # "none"
           /\ s.event = "sent" => FALSE \in s.seen
           /\ s.event = "dropped" => TRUE \in s.seen

Stores ==
    /\ flag \in Value /\ suppress \in BOOLEAN /\ store \in [Ctx -> StoreState]
    /\ \A c \in Ctx : Sound(store[c], flag, suppress)

\* Who is queued on pd->wq polls, and pd is there.
Polls ==
    /\ call \in [Ctx -> [at : {"user", "polled", "asleep", "woken"}, triggered : BOOLEAN]]
    /\ wq \subseteq Polling
    /\ lab = "poll" /\ (fd \/ Polling # {}) => "pd" \in held

DriversInv ==
    lab \in LoadModules /\ mod \in Mod /\ Buffers /\ DiskInv /\ Objects /\ Stores /\ Polls

-----------------------------------------------------------------------------
(* The rows of the init and exit functions.                                *)

\* The names of the resources of a disk.
LEMMA Names ==
    /\ Device = {0, 1}
    /\ sdisk(0) = "sdisk0" /\ sdisk(1) = "sdisk1"
    /\ disk(0) = "disk0" /\ disk(1) = "disk1"
    /\ rdev(0) = "rdev0" /\ rdev(1) = "rdev1"
    /\ queue(0) = "queue0" /\ queue(1) = "queue1"
    /\ gd(0) = "gd0" /\ gd(1) = "gd1"
  BY DEF Device, sdisk, disk, rdev, queue, gd

\* What the modules acquire.
Name == {"region", "cdev", "ramdisk", "added", "class", "device", "major", "dev", "sdisk0", "sdisk1",
         "rdev0", "rdev1", "queue0", "queue1", "gd0", "gd1", "disk0", "disk1", "parent", "child",
         "c_kset", "c_obj", "attr", "heads", "devices", "m1", "m2", "p1", "p2", "jcache", "buf", "pnb",
         "notifier", "kprobe", "p", "page", "kmap", "logical", "mem_region", "misc"}

GetRow   == [op : {"get"}, res : SUBSET Name, undo : SUBSET Name,
             to : {"init", "failed", "loaded", "misuse"}, skip : Nat]
OtherRow == [op : {"do", "use", "put", "free"}, res : SUBSET Name]
\* A row of an init function; only notifier-module.c and kprobe.c have one that names a callback.
InitRow  == {r \in GetRow : r.to = "init" => r.skip > 0} \cup {r \in OtherRow : r.op # "free"}
PlainRow == {r \in InitRow : r.res \cap {"notifier", "kprobe"} = {}}
ExitRow  == {r \in OtherRow : r.op # "do"}
\* A row of ramhd_init() after the buffers were acquired.
LateRow  == {r \in PlainRow : r.op # "put" /\ (r.op = "get" => r.to = "init" /\ r.undo = {})}

\* What the constructors of the rows make.
LEMMA Constructors ==
    ASSUME NEW r \in Name
    PROVE  /\ \A undo \in SUBSET Name, to \in {"failed", "loaded", "misuse"} :
                 Get(r, undo, to) \in InitRow /\ Find(to) \in PlainRow
           /\ \A n \in Nat \ {0} : TryElse(r, n) \in InitRow
           /\ Try(r) \in InitRow /\ Do(r) \in InitRow
           /\ Use(r) \in InitRow \cap ExitRow /\ Put(r) \in InitRow \cap ExitRow
           /\ Free(r) \in ExitRow
<1>1. {r} \in SUBSET Name /\ {} \in SUBSET Name
  OBVIOUS
<1>2. ASSUME NEW undo \in SUBSET Name, NEW to \in {"failed", "loaded", "misuse"}
      PROVE  Get(r, undo, to) \in InitRow
  <2>1. Get(r, undo, to) \in GetRow /\ Get(r, undo, to).to = to
    BY <1>1, <1>2 DEF Get, GetRow
  <2> QED
    BY <1>2, <2>1 DEF InitRow
<1>3. ASSUME NEW to \in {"failed", "loaded", "misuse"}
      PROVE  Find(to) \in PlainRow
  <2>1. /\ Find(to) \in GetRow /\ Find(to).to = to
        /\ Find(to).res \cap {"notifier", "kprobe"} = {}
    BY <1>1, <1>3 DEF Find, GetRow
  <2> QED
    BY <1>3, <2>1, Zenon DEF InitRow, PlainRow
<1>4. ASSUME NEW n \in Nat \ {0}
      PROVE  TryElse(r, n) \in InitRow
  <2>1. TryElse(r, n) \in GetRow /\ TryElse(r, n).skip = n
    BY <1>1, <1>4 DEF TryElse, GetRow
  <2> QED
    BY <1>4, <2>1 DEF InitRow
<1>5. Try(r) \in InitRow
  BY <1>4, 1 \in Nat \ {0}, Zenon DEF Try
<1>6. /\ Do(r) \in OtherRow /\ Do(r).op = "do"
      /\ Use(r) \in OtherRow /\ Use(r).op = "use"
      /\ Put(r) \in OtherRow /\ Put(r).op = "put"
      /\ Free(r) \in OtherRow /\ Free(r).op = "free"
  BY <1>1 DEF OtherRow, Do, Use, Put, Free
<1>7. /\ Do(r) \in InitRow /\ Use(r) \in InitRow \cap ExitRow
      /\ Put(r) \in InitRow \cap ExitRow /\ Free(r) \in ExitRow
  BY <1>6 DEF InitRow, ExitRow
<1> QED
  BY <1>2, <1>3, <1>4, <1>5, <1>7

\* Those that name no callback.
LEMMA PlainConstructors ==
    ASSUME NEW r \in Name \ {"notifier", "kprobe"}
    PROVE  /\ \A undo \in SUBSET Name, to \in {"failed", "loaded", "misuse"} :
                 Get(r, undo, to) \in PlainRow
           /\ \A n \in Nat \ {0} : TryElse(r, n) \in LateRow
           /\ Try(r) \in LateRow /\ Do(r) \in LateRow /\ Use(r) \in LateRow
           /\ Put(r) \in PlainRow
<1>1. ASSUME NEW undo \in SUBSET Name, NEW to \in {"failed", "loaded", "misuse"}
      PROVE  Get(r, undo, to) \in PlainRow
  BY <1>1, Constructors, Zenon DEF PlainRow, Get
<1>2. ASSUME NEW n \in Nat \ {0}
      PROVE  TryElse(r, n) \in LateRow
  <2>1. TryElse(r, n) \in InitRow
    BY <1>2, Constructors
  <2>2. LET x == TryElse(r, n) IN x.op = "get" /\ x.to = "init" /\ x.undo = {} /\ x.res = {r}
    BY DEF TryElse
  <2> QED
    BY <2>1, <2>2 DEF PlainRow, LateRow
<1>3. Try(r) \in LateRow
  BY <1>2 DEF Try
<1>4. /\ Do(r).op = "do" /\ Do(r).res = {r}
      /\ Use(r).op = "use" /\ Use(r).res = {r}
      /\ Put(r).res = {r}
  BY Zenon DEF Do, Use, Put
<1>5. Do(r) \in LateRow /\ Use(r) \in LateRow /\ Put(r) \in PlainRow
  BY <1>4, Constructors DEF PlainRow, LateRow
<1> QED
  BY <1>1, <1>2, <1>3, <1>5

\* Sequences of rows.
LEMMA Tuples ==
    ASSUME NEW S, NEW a \in S
    PROVE  /\ <<a>> \in Seq(S)
           /\ \A b \in S : <<a, b>> \in Seq(S)
           /\ \A b, c \in S : <<a, b, c>> \in Seq(S)
           /\ \A b, c, d \in S : <<a, b, c, d>> \in Seq(S)
           /\ \A b, c, d, e \in S : <<a, b, c, d, e>> \in Seq(S)
           /\ \A b, c, d, e, f \in S : <<a, b, c, d, e, f>> \in Seq(S)
           /\ \A b, c, d, e, f, g \in S : <<a, b, c, d, e, f, g>> \in Seq(S)
           /\ \A s, t \in Seq(S) : s \o t \in Seq(S)
  OBVIOUS

\* Every exit function only uses and releases.
LEMMA ExitRowsAre ==
    ASSUME NEW l \in LoadModules
    PROVE  ExitRows[l] \in Seq(ExitRow)
<1>0. \A r \in Name : Use(r) \in ExitRow /\ Put(r) \in ExitRow /\ Free(r) \in ExitRow
  BY Constructors
<1>1. TakeDown(0) \in Seq(ExitRow) /\ TakeDown(1) \in Seq(ExitRow)
  BY <1>0, Names, Tuples, Zenon DEF Name, TakeDown
<1>2. clean_ramdev \in Seq(ExitRow) /\ ramhd_space_clean \in Seq(ExitRow)
  BY <1>0, Names, Tuples, Zenon DEF Name, clean_ramdev, ramhd_space_clean
<1>3. << Put("major") >> \in Seq(ExitRow)
  BY <1>0, Tuples, Zenon DEF Name
<1>4. ramhd_exit_mkreq \in Seq(ExitRow) /\ ramhd_exit_req \in Seq(ExitRow)
  BY <1>1, <1>2, <1>3 DEF ramhd_exit_mkreq, ramhd_exit_req
<1>5. sampleblk_exit \in Seq(ExitRow)
  <2>1. sampleblk_free \in Seq(ExitRow)
    BY <1>0, Names, Tuples, Zenon DEF Name, sampleblk_free
  <2> QED
    BY <1>3, <2>1 DEF sampleblk_exit
<1>6. my_generic_exit \in Seq(ExitRow)
  BY <1>0, Tuples, Zenon DEF Name, my_generic_exit
<1>7. kobj_exit \in Seq(ExitRow)
  BY <1>0, Tuples, Zenon DEF Name, kobj_exit
<1>8. hlist_module_exit \in Seq(ExitRow)
  BY <1>0, Tuples, Zenon DEF Name, hlist_module_exit
<1>9. list_exit \in Seq(ExitRow)
  BY <1>0, Tuples, Zenon DEF Name, list_exit
<1>10. rbtree_exit \in Seq(ExitRow)
  BY <1>0, Tuples, Zenon DEF Name, rbtree_exit
<1>11. jslab_exit \in Seq(ExitRow)
  BY <1>0, Tuples, Zenon DEF Name, jslab_exit
<1>12. hello_exit \in Seq(ExitRow)
  BY <1>0, Tuples, Zenon DEF Name, hello_exit
<1>13. cleanup_kprobe_sample \in Seq(ExitRow)
  BY <1>0, Tuples, Zenon DEF Name, cleanup_kprobe_sample
<1>14. exit_kmalloc \in Seq(ExitRow)
  BY <1>0, Tuples, Zenon DEF Name, exit_kmalloc
<1>15. rammap_exit \in Seq(ExitRow)
  BY <1>0, Tuples, Zenon DEF Name, rammap_exit
<1>16. poll_exit \in Seq(ExitRow)
  BY <1>0, Tuples, Zenon DEF Name, poll_exit
<1>17. ExitRows[l] \in {my_generic_exit, sampleblk_exit, ramhd_exit_mkreq,
           ramhd_exit_req, kobj_exit, hlist_module_exit, list_exit,
           rbtree_exit, jslab_exit, hello_exit, cleanup_kprobe_sample,
           exit_kmalloc, <<>>, rammap_exit, poll_exit}
  BY DEF LoadModules, InitRows, ExitRows
<1>18. <<>> \in Seq(ExitRow)
  OBVIOUS
<1> QED
  BY <1>4, <1>5, <1>6, <1>7, <1>8, <1>9, <1>10, <1>11, <1>12, <1>13, <1>14, <1>15, <1>16, <1>17,
     <1>18, Zenon

\* Only two init functions name a callback.
LEMMA InitRowsAre ==
    ASSUME NEW l \in LoadModules
    PROVE  /\ InitRows[l] \in Seq(InitRow)
           /\ l \notin {"notifier", "kprobe"} => InitRows[l] \in Seq(PlainRow)
<1> DEFINE Other == Name \ {"notifier", "kprobe"}
<1>0. /\ \A r \in Other, undo \in SUBSET Name, to \in {"failed", "loaded", "misuse"} :
            Get(r, undo, to) \in PlainRow
      /\ \A r \in Other : /\ TryElse(r, 2) \in PlainRow /\ Try(r) \in PlainRow
                          /\ Do(r) \in PlainRow /\ Use(r) \in PlainRow
                          /\ Put(r) \in PlainRow
  <2>1. LateRow \subseteq PlainRow
    BY DEF LateRow
  <2>2. 2 \in Nat \ {0}
    OBVIOUS
  <2> QED
    BY <2>1, <2>2, PlainConstructors, Zenon
<1>1. /\ "major" \in Other /\ "rdev0" \in Other /\ "rdev1" \in Other /\ "sdisk0" \in Other
      /\ "sdisk1" \in Other /\ "queue0" \in Other /\ "queue1" \in Other /\ "gd0" \in Other
      /\ "gd1" \in Other /\ "disk0" \in Other /\ "disk1" \in Other /\ "dev" \in Other
  BY DEF Name
<1>2. PlainRow \subseteq InitRow
  BY DEF PlainRow
<1>3. << Try("major") >> \in Seq(PlainRow) /\ << Get("major", {}, "failed") >> \in Seq(PlainRow)
  BY <1>0, <1>1, Tuples, Zenon
<1>4. /\ ramhd_space_try \in Seq(PlainRow) /\ alloc_ramdev \in Seq(PlainRow)
  BY <1>0, <1>1, Names, Tuples, Zenon DEF ramhd_space_try, alloc_ramdev
<1>5. ramhd_space_init \in Seq(PlainRow)
  BY <1>0, <1>1, Names, Tuples, Zenon DEF ramhd_space_init
<1>6. SetUpMkreq(0) \in Seq(PlainRow) /\ SetUpReq(0) \in Seq(PlainRow)
  BY <1>0, <1>1, Names, Tuples, Zenon DEF SetUpMkreq, SetUpReq
<1>7. SetUpMkreq(1) \in Seq(PlainRow) /\ SetUpReq(1) \in Seq(PlainRow)
  BY <1>0, <1>1, Names, Tuples, Zenon DEF SetUpMkreq, SetUpReq
<1>8. ramhd_init_mkreq \in Seq(PlainRow) /\ ramhd_init_req \in Seq(PlainRow)
  BY <1>3, <1>4, <1>5, <1>6, <1>7 DEF ramhd_init_mkreq, ramhd_init_req
<1>9. sampleblk_init \in Seq(PlainRow)
  <2>1. {"dev"} \in SUBSET Name /\ {"sdisk0", "dev"} \in SUBSET Name /\ {"queue0", "sdisk0", "dev"} \in SUBSET Name
    BY DEF Name
  <2>2. sampleblk_alloc \in Seq(PlainRow)
    BY <1>0, <1>1, <2>1, Names, Tuples, Zenon DEF sampleblk_alloc
  <2> QED
    BY <1>3, <2>2 DEF sampleblk_init
<1>10. my_generic_init \in Seq(PlainRow)
  <2>1. /\ "region" \in Other /\ "cdev" \in Other /\ "ramdisk" \in Other /\ "added" \in Other
        /\ "class" \in Other /\ "device" \in Other
    BY DEF Name
  <2>2. {"region"} \in SUBSET Name /\ {"cdev", "region", "ramdisk"} \in SUBSET Name
    BY DEF Name
  <2> QED
    BY <1>0, <2>1, <2>2, Tuples, Zenon DEF my_generic_init
<1>11. kobj_init \in Seq(PlainRow)
  <2>1. /\ "parent" \in Other /\ "child" \in Other /\ "c_kset" \in Other /\ "c_obj" \in Other
        /\ "attr" \in Other
    BY DEF Name
  <2> QED
    BY <1>0, <2>1, Tuples, Zenon DEF kobj_init
<1>12. hlist_module_init \in Seq(PlainRow)
  <2>1. "heads" \in Other /\ "devices" \in Other
    BY DEF Name
  <2>2. {"heads"} \in SUBSET Name
    BY DEF Name
  <2> QED
    BY <1>0, <2>1, <2>2, Tuples, Zenon DEF hlist_module_init
<1>13. list_init \in Seq(PlainRow)
  <2>1. "m1" \in Other /\ "m2" \in Other
    BY DEF Name
  <2> QED
    BY <1>0, <2>1, Tuples, Zenon DEF list_init
<1>14. rbtree_init \in Seq(PlainRow)
  <2>1. "p1" \in Other /\ "p2" \in Other
    BY DEF Name
  <2>2. {"p1"} \in SUBSET Name
    BY DEF Name
  <2> QED
    BY <1>0, <2>1, <2>2, Tuples, Zenon DEF rbtree_init
<1>15. jslab_init \in Seq(PlainRow)
  <2>1. "jcache" \in Other /\ "buf" \in Other
    BY DEF Name
  <2> QED
    BY <1>0, <2>1, Tuples, Zenon DEF jslab_init
<1>16. init_kmalloc \in Seq(PlainRow)
  <2>1. "p" \in Other
    BY DEF Name
  <2> QED
    BY <1>0, <2>1, Tuples, Zenon DEF init_kmalloc
<1>17. high_mem_init \in Seq(PlainRow)
  <2>1. "page" \in Other /\ "kmap" \in Other
    BY DEF Name
  <2> QED
    BY <1>0, <2>1, Tuples, Zenon DEF high_mem_init
<1>18. rammap_init \in Seq(PlainRow)
  <2>1. "logical" \in Other
    BY DEF Name
  <2> QED
    BY <1>0, <2>1, Tuples, Zenon DEF rammap_init
<1>19. poll_init \in Seq(PlainRow)
  <2>1. "misc" \in Other
    BY DEF Name
  <2> QED
    BY <1>0, <2>1, Tuples, Zenon DEF poll_init
<1>20. hello_init \in Seq(InitRow) /\ init_kprobe_sample \in Seq(InitRow)
  <2>1. "pnb" \in Name /\ "notifier" \in Name /\ "kprobe" \in Name
    BY Zenon DEF Name
  <2> QED
    BY <1>2, <2>1, Constructors, Tuples, Zenon DEF hello_init, init_kprobe_sample
<1>21. \/ l \notin {"notifier", "kprobe"} /\ InitRows[l] \in {my_generic_init, sampleblk_init,
            ramhd_init_mkreq, ramhd_init_req, kobj_init, hlist_module_init,
            list_init, rbtree_init, jslab_init, init_kmalloc, high_mem_init,
            rammap_init, poll_init}
       \/ l \in {"notifier", "kprobe"} /\ InitRows[l] \in {hello_init, init_kprobe_sample}
  BY DEF LoadModules, InitRows
<1>22. Seq(PlainRow) \subseteq Seq(InitRow)
  BY <1>2
<1> HIDE DEF Other
<1> QED
  BY <1>8, <1>9, <1>10, <1>11, <1>12, <1>13, <1>14, <1>15, <1>16, <1>17, <1>18, <1>19, <1>20, <1>21, <1>22, Zenon

\* Concatenation.
LEMMA ConcatLemma ==
    ASSUME NEW S, NEW s \in Seq(S), NEW t \in Seq(S)
    PROVE  /\ s \o t \in Seq(S) /\ Len(s \o t) = Len(s) + Len(t)
           /\ \A k \in 1 .. Len(s) + Len(t) : (s \o t)[k] = IF k <= Len(s) THEN s[k] ELSE t[k - Len(s)]
  OBVIOUS

\* What follows the second row of a longer function.
LEMMA TailLemma ==
    ASSUME NEW S, NEW T \in SUBSET S, NEW s \in Seq(S), NEW t \in Seq(T), Len(s) >= 2,
           \A k \in 3 .. Len(s) : s[k] \in T
    PROVE  /\ s \o t \in Seq(S) /\ Len(s \o t) >= 2
           /\ (s \o t)[1] = s[1] /\ (s \o t)[2] = s[2]
           /\ \A k \in 3 .. Len(s \o t) : (s \o t)[k] \in T
<1>1. t \in Seq(S)
  OBVIOUS
<1>2. /\ s \o t \in Seq(S) /\ Len(s \o t) = Len(s) + Len(t)
      /\ \A k \in 1 .. Len(s) + Len(t) : (s \o t)[k] = IF k <= Len(s) THEN s[k] ELSE t[k - Len(s)]
  BY <1>1, ConcatLemma, Zenon
<1>3. ASSUME NEW k \in 3 .. Len(s \o t)
      PROVE  (s \o t)[k] \in T
  <2>1. CASE k <= Len(s)
    BY <1>2, <1>3, <2>1
  <2>2. CASE k > Len(s)
    <3>1. k - Len(s) \in 1 .. Len(t) /\ (s \o t)[k] = t[k - Len(s)]
      BY <1>2, <1>3, <2>2
    <3> QED
      BY <3>1
  <2> QED
    BY <1>2, <1>3, <2>1, <2>2
<1> QED
  BY <1>2, <1>3

\* ramhd_init() gets the buffers first, and releases nothing after that.
LEMMA RamhdRows ==
    ASSUME NEW l \in {"ramhd_mkreq", "ramhd_req"}
    PROVE  LET rows == InitRows[l]
           IN  /\ Len(rows) \in Nat /\ Len(rows) >= 2
               /\ rows[1].op = "get" /\ rows[1].res = {"sdisk0"}
               /\ rows[2].op = "get" /\ rows[2].res = {"sdisk1"}
               /\ rows[1].undo = {} /\ rows[2].undo = {}
               /\ l = "ramhd_mkreq" => rows[1].to = "failed" /\ rows[2].to = "failed"
               /\ \A k \in 3 .. Len(rows) : rows[k] \in LateRow
<1> DEFINE Other == Name \ {"notifier", "kprobe"}
<1>0. \A r \in Other : TryElse(r, 2) \in LateRow /\ Try(r) \in LateRow
                       /\ Do(r) \in LateRow /\ Use(r) \in LateRow
  BY PlainConstructors, 2 \in Nat \ {0}, Zenon
<1>1. /\ "major" \in Other /\ "rdev0" \in Other /\ "rdev1" \in Other
      /\ "queue0" \in Other /\ "queue1" \in Other /\ "gd0" \in Other
      /\ "gd1" \in Other /\ "disk0" \in Other /\ "disk1" \in Other
  BY DEF Name
<1>2. << Try("major") >> \in Seq(LateRow)
  BY <1>0, <1>1, Tuples, Zenon
<1>3. alloc_ramdev \in Seq(LateRow)
  BY <1>0, <1>1, Names, Tuples, Zenon DEF alloc_ramdev
<1>4. SetUpMkreq(0) \in Seq(LateRow) /\ SetUpReq(0) \in Seq(LateRow)
  BY <1>0, <1>1, Names, Tuples, Zenon DEF SetUpMkreq, SetUpReq
<1>5. SetUpMkreq(1) \in Seq(LateRow) /\ SetUpReq(1) \in Seq(LateRow)
  BY <1>0, <1>1, Names, Tuples, Zenon DEF SetUpMkreq, SetUpReq
<1> DEFINE S == InitRow
<1>6. LateRow \in SUBSET S
  BY Zenon DEF LateRow, PlainRow
<1> DEFINE Shape(rows, s) == /\ Len(rows) \in Nat /\ Len(rows) >= 2
                             /\ rows[1] = s[1] /\ rows[2] = s[2]
                             /\ \A k \in 3 .. Len(rows) : rows[k] \in LateRow
<1>7. ASSUME NEW s \in Seq(S), Len(s) = 2, NEW a \in Seq(LateRow), NEW b \in Seq(LateRow),
             NEW c \in Seq(LateRow), NEW d \in Seq(LateRow)
      PROVE  Shape(s \o a \o b \o c \o d, s)
  <2> HIDE DEF S
  <2> DEFINE Goal(u) == u \in Seq(S) /\ Len(u) >= 2 /\ u[1] = s[1] /\ u[2] = s[2]
                        /\ \A k \in 3 .. Len(u) : u[k] \in LateRow
  <2>1. Goal(s)
    BY <1>7
  <2>2. ASSUME NEW u, Goal(u), NEW t \in Seq(LateRow)
        PROVE  Goal(u \o t)
    <3>1. /\ u \o t \in Seq(S) /\ Len(u \o t) >= 2
          /\ (u \o t)[1] = u[1] /\ (u \o t)[2] = u[2]
          /\ \A k \in 3 .. Len(u \o t) : (u \o t)[k] \in LateRow
      BY <1>6, <2>2, TailLemma, Zenon
    <3> QED
      BY <2>2, <3>1, Zenon
  <2> HIDE DEF Goal
  <2>3. Goal(s \o a \o b \o c \o d)
    BY <2>1, <2>2, Zenon
  <2>4. ASSUME NEW u, Goal(u)
        PROVE  Shape(u, s)
    <3>1. Len(u) \in Nat
      BY <2>4 DEF Goal
    <3> QED
      BY <2>4, <3>1, Zenon DEF Goal
  <2> HIDE DEF Shape
  <2> QED
    BY <2>3, <2>4, Zenon
<1> HIDE DEF Shape
<1>8. CASE l = "ramhd_mkreq"
  <2>1. InitRows[l] = ramhd_init_mkreq
    BY <1>8 DEF InitRows
  <2>2. "sdisk0" \in Name /\ "sdisk1" \in Name /\ {} \in SUBSET Name
    BY DEF Name
  <2>3. ramhd_space_init \in Seq(S) /\ Len(ramhd_space_init) = 2
    <3>1. ramhd_space_init \in Seq(S)
      BY <2>2, Names, Constructors, Tuples, Zenon DEF ramhd_space_init
    <3> QED
      BY <3>1 DEF ramhd_space_init
  <2>4. /\ ramhd_space_init[1] = Get("sdisk0", {}, "failed")
        /\ ramhd_space_init[2] = Get("sdisk1", {}, "failed")
    BY Names DEF ramhd_space_init
  <2>5. Shape(ramhd_init_mkreq, ramhd_space_init)
    BY <1>2, <1>3, <1>4, <1>5, <1>7, <2>3, Zenon DEF ramhd_init_mkreq
  <2> QED
    BY <1>8, <2>1, <2>4, <2>5 DEF Get, Shape
<1>9. CASE l = "ramhd_req"
  <2>1. InitRows[l] = ramhd_init_req
    BY <1>9 DEF InitRows
  <2>2. "sdisk0" \in Name /\ "sdisk1" \in Name /\ 2 \in Nat \ {0}
    BY DEF Name
  <2>3. ramhd_space_try \in Seq(S) /\ Len(ramhd_space_try) = 2
    <3>1. ramhd_space_try \in Seq(S)
      BY <2>2, Names, Constructors, Tuples, Zenon DEF ramhd_space_try
    <3> QED
      BY <3>1 DEF ramhd_space_try
  <2>4. /\ ramhd_space_try[1] = TryElse("sdisk0", 2)
        /\ ramhd_space_try[2] = Try("sdisk1")
    BY Names DEF ramhd_space_try
  <2>5. Shape(ramhd_init_req, ramhd_space_try)
    BY <1>2, <1>3, <1>4, <1>5, <1>7, <2>3, Zenon DEF ramhd_init_req
  <2> QED
    BY <1>9, <2>1, <2>4, <2>5 DEF TryElse, Try, Shape
<1> QED
  BY <1>8, <1>9

\* sampleblk_init(): the disk is added last.
LEMMA SampleRows ==
    LET rows == InitRows["sample_blk"]
    IN  /\ Len(rows) = 6
        /\ \A k \in 1 .. 5 : /\ rows[k].op = "get" /\ rows[k].to \in {"failed", "loaded"}
                             /\ {"disk0", "disk1"} \cap rows[k].res = {}
        /\ rows[3].res = {"sdisk0"}
        /\ rows[6].op = "do" /\ rows[6].res = {"disk0"}
<1> DEFINE a == << Get("major", {}, "failed") >>
           b == sampleblk_alloc
           S == {a[1], b[1], b[2], b[3], b[4], b[5]}
<1>1. InitRows["sample_blk"] = a \o b
  BY Zenon DEF InitRows, sampleblk_init
<1>2. /\ Len(b) = 5 /\ b[1] = Get("dev", {}, "loaded") /\ b[2] = Get("sdisk0", {"dev"}, "loaded")
      /\ b[3] = Get("queue0", {"sdisk0", "dev"}, "loaded")
      /\ b[4] = Get("gd0", {"queue0", "sdisk0", "dev"}, "loaded") /\ b[5] = Do("disk0")
  BY Names DEF sampleblk_alloc
<1>3. Len(a) = 1 /\ a[1] = Get("major", {}, "failed")
  OBVIOUS
<1>4. a \in Seq(S) /\ b \in Seq(S)
  BY Tuples DEF sampleblk_alloc
<1> HIDE DEF a, b, S
<1>5. /\ Len(a \o b) = 6 /\ (a \o b)[1] = a[1] /\ (a \o b)[2] = b[1] /\ (a \o b)[3] = b[2]
      /\ (a \o b)[4] = b[3] /\ (a \o b)[5] = b[4] /\ (a \o b)[6] = b[5]
  <2>1. \A k \in 1 .. Len(a) + Len(b) : (a \o b)[k] = IF k <= Len(a) THEN a[k] ELSE b[k - Len(a)]
    BY <1>4, ConcatLemma, Zenon
  <2>2. Len(a \o b) = Len(a) + Len(b)
    BY <1>4, ConcatLemma, Zenon
  <2> DEFINE c == a \o b
  <2>3. Len(c) = 6 /\ \A k \in 1 .. 6 : c[k] = IF k <= 1 THEN a[k] ELSE b[k - 1]
    BY <1>2, <1>3, <2>1, <2>2, SMTT(40), SMTT(60)
  <2> HIDE DEF c
  <2>4. c[1] = a[1] /\ c[2] = b[1] /\ c[3] = b[2] /\ c[4] = b[3] /\ c[5] = b[4] /\ c[6] = b[5]
    BY <2>3
  <2> QED
    BY <2>3, <2>4 DEF c
<1>6. \A k \in 1 .. 5 : k = 1 \/ k = 2 \/ k = 3 \/ k = 4 \/ k = 5
  OBVIOUS
<1> QED
  BY <1>1, <1>2, <1>3, <1>5, <1>6, SMTT(40), SMTT(60) DEF Get, Do

\* kobj_init(), kobj_exit()
LEMMA KobjRows ==
    LET in  == InitRows["kobject"]
        out == ExitRows["kobject"]
    IN  /\ Len(in) = 5 /\ Len(out) = 6
        /\ \A k \in 1 .. 5 : in[k].op = "get" /\ in[k].undo = {}
        /\ in[1].res = {"parent"} /\ in[1].to = "init" /\ in[1].skip = 1
        /\ in[2].res = {"child"} /\ in[2].to = "loaded" /\ in[3].res = {"c_kset"} /\ in[3].to = "failed"
        /\ in[4].res = {"c_obj"} /\ in[4].to = "failed" /\ in[5].res = {"attr"} /\ in[5].to = "failed"
        /\ out[1].op = "use" /\ out[2].op = "put" /\ out[2].res = {"attr"}
        /\ out[3].op = "put" /\ out[3].res = {"c_kset"} /\ out[4].op = "use"
        /\ out[5].op = "put" /\ out[5].res = {"c_obj"}
        /\ out[6].op = "free" /\ out[6].res = {"parent"}
<1>1. InitRows["kobject"] = kobj_init /\ ExitRows["kobject"] = kobj_exit
  BY Zenon DEF InitRows, ExitRows
<1>2. /\ Len(kobj_init) = 5 /\ kobj_init[1] = Try("parent")
      /\ kobj_init[2] = Get("child", {}, "loaded") /\ kobj_init[3] = Get("c_kset", {}, "failed")
      /\ kobj_init[4] = Get("c_obj", {}, "failed") /\ kobj_init[5] = Get("attr", {}, "failed")
  BY DEF kobj_init
<1>3. /\ Len(kobj_exit) = 6 /\ kobj_exit[1] = Use("child") /\ kobj_exit[2] = Put("attr")
      /\ kobj_exit[3] = Put("c_kset") /\ kobj_exit[4] = Use("c_kset")
      /\ kobj_exit[5] = Put("c_obj") /\ kobj_exit[6] = Free("parent")
  BY Zenon DEF kobj_exit
<1>4. \A k \in 1 .. 5 : k = 1 \/ k = 2 \/ k = 3 \/ k = 4 \/ k = 5
  OBVIOUS
<1> QED
  BY <1>1, <1>2, <1>3, <1>4 DEF Get, TryElse, Try, Use, Put, Free

\* hello_init(), hello_exit() of notifier-module.c
LEMMA NotifierRows ==
    LET in  == InitRows["notifier"]
        out == ExitRows["notifier"]
    IN  /\ Len(in) = 2 /\ Len(out) = 2
        /\ in[1].op = "get" /\ in[1].res = {"pnb"} /\ in[1].undo = {} /\ in[1].to = "failed"
        /\ in[2].op = "do" /\ in[2].res = {"notifier"}
        /\ out[1].op = "put" /\ out[1].res = {"notifier"}
        /\ out[2].op = "free" /\ out[2].res = {"pnb"}
<1>1. InitRows["notifier"] = hello_init /\ ExitRows["notifier"] = hello_exit
  BY DEF InitRows, ExitRows
<1>2. /\ Len(hello_init) = 2 /\ hello_init[1] = Get("pnb", {}, "failed")
      /\ hello_init[2] = Do("notifier")
      /\ Len(hello_exit) = 2 /\ hello_exit[1] = Put("notifier")
      /\ hello_exit[2] = Free("pnb")
  BY Zenon DEF hello_init, hello_exit
<1> QED
  BY <1>1, <1>2 DEF Get, Do, Put, Free

\* The functions that load and unload poll.c do not know pd.
LEMMA PollRows ==
    LET in  == InitRows["poll"]
        out == ExitRows["poll"]
    IN  /\ Len(in) = 1 /\ Len(out) = 1
        /\ in[1].op = "get" /\ in[1].res = {"misc"} /\ in[1].undo = {} /\ in[1].to = "failed"
        /\ out[1].op = "put" /\ out[1].res = {"misc"}
<1>1. InitRows["poll"] = poll_init /\ ExitRows["poll"] = poll_exit
  BY DEF InitRows, ExitRows
<1>2. /\ Len(poll_init) = 1 /\ poll_init[1] = Get("misc", {}, "failed")
      /\ Len(poll_exit) = 1 /\ poll_exit[1] = Put("misc")
  BY DEF poll_init, poll_exit
<1> QED
  BY <1>1, <1>2 DEF Get, Put

-----------------------------------------------------------------------------
(* Loading and unloading.                                                  *)

\* init goes n rows further, or returns.
Onward(n) ==
    \/ mod'.at = "init" /\ mod'.ip = mod.ip + n /\ mod'.ip <= Len(InitRows[lab])
    \/ mod'.at = "loaded" /\ mod.ip + n > Len(InitRows[lab])

\* A row of the init function: what Step does with it.
InitStep(row) ==
    \/ /\ row.op \in {"get", "do"} /\ held' = held \cup row.res
       /\ Onward(1) /\ mod'.failed = mod.failed
    \/ /\ row.op = "get" /\ held' = held \ row.undo /\ mod'.failed
       /\ IF row.to = "init" THEN Onward(row.skip) ELSE mod'.at = row.to
    \/ /\ row.op \in {"use", "put"} /\ held' = IF row.op = "use" THEN held ELSE held \ row.res
       /\ Onward(1) /\ mod'.failed = mod.failed
    \/ held' = held /\ mod'.at = "misuse" /\ mod'.failed = mod.failed

\* A row of the exit function.
ExitStep(row) ==
    \/ /\ held' = IF row.op = "use" THEN held ELSE held \ row.res
       /\ row.res \cap Synchronous # {} => busy = {}
       /\ \/ mod'.at = "exit" /\ mod'.ip = mod.ip + 1
          \/ mod'.at = "gone" /\ mod.ip + 1 > Len(ExitRows[lab])
    \/ held' = held /\ mod'.at = "misuse"

\* A step of the init function.
LEMMA InitSteps ==
    ASSUME lab \in LoadModules, mod \in Mod, mod.at = "init", Step
    PROVE  /\ mod.ip \in 1 .. Len(InitRows[lab])
           /\ InitRows[lab][mod.ip] \in InitRow
           /\ InitStep(InitRows[lab][mod.ip])
           /\ mod' \in Mod /\ lab' = lab /\ busy' = busy
<1> DEFINE rows == InitRows[lab]
           row  == rows[mod.ip]
<1>1. Rows("init") = rows /\ Row = row
  BY DEF Rows, Row
<1>2. mod.ip \in Nat \ {0} /\ mod.failed \in BOOLEAN
  BY DEF Mod
<1>3. rows \in Seq(InitRow)
  BY InitRowsAre
<1>4. mod.ip \in 1 .. Len(rows) /\ lab' = lab /\ busy' = busy
  BY <1>1, <1>2, <1>3 DEF Step
<1>5. row \in InitRow
  BY <1>3, <1>4
<1>6. row.op = "get" => row.to \in {"init", "failed", "loaded", "misuse"} /\ row.skip \in Nat
                        /\ (row.to = "init" => row.skip > 0)
  BY <1>5 DEF InitRow, GetRow, OtherRow
<1> HIDE DEF rows, row
<1>7. ASSUME NEW n \in Nat \ {0}, NEW f \in BOOLEAN, Goto(Arrive("init", mod.ip + n), f)
      PROVE  Onward(n) /\ mod' \in Mod /\ mod'.failed = f
  <2>1. \/ mod' = [at |-> "init", ip |-> mod.ip + n, failed |-> f] /\ mod.ip + n <= Len(rows)
        \/ mod' = [at |-> "loaded", ip |-> 1, failed |-> f] /\ ~(mod.ip + n <= Len(rows))
    BY <1>1, <1>7 DEF Goto, Arrive
  <2>2. mod.ip + n \in Nat \ {0} /\ Len(rows) \in Nat /\ mod.ip + n \in Int
    BY <1>2, <1>3, <1>7
  <2>3. mod' \in Mod
    <3>1. 1 \in Nat \ {0}
      OBVIOUS
    <3>2. \A i \in Nat \ {0} : /\ [at |-> "init", ip |-> i, failed |-> f] \in Mod
                               /\ [at |-> "loaded", ip |-> i, failed |-> f] \in Mod
      BY <1>7, Zenon DEF Mod
    <3> QED
      BY <2>1, <2>2, <3>1, <3>2, Zenon
  <2>4. mod'.failed = f /\ Onward(n)
    BY <2>1, <2>2 DEF Onward, rows
  <2> QED
    BY <2>3, <2>4, Zenon
<1>8. ASSUME NEW to \in {"failed", "loaded", "misuse"}, NEW f \in BOOLEAN,
             Goto([at |-> to, ip |-> 1], f)
      PROVE  mod' \in Mod /\ mod'.at = to /\ mod'.failed = f
  <2>1. mod' = [at |-> to, ip |-> 1, failed |-> f]
    BY <1>8, Zenon DEF Goto
  <2> QED
    BY <1>8, <2>1, 1 \in Nat \ {0}, Zenon DEF Mod
<1> SUFFICES InitStep(row) /\ mod' \in Mod
  BY <1>4, <1>5 DEF rows, row
<1>9. CASE Acquired
  <2>1. /\ row.op \in {"get", "do"} /\ held' = held \cup row.res
        /\ Goto(Arrive("init", mod.ip + 1), mod.failed)
    BY <1>1, <1>9 DEF Acquired
  <2>2. Onward(1) /\ mod' \in Mod /\ mod'.failed = mod.failed
    BY <1>2, <1>7, <2>1, 1 \in Nat \ {0}, Zenon
  <2> QED
    BY <2>1, <2>2, Zenon DEF InitStep
<1>10. CASE Failed
  <2>1. row.op = "get" /\ held' = held \ row.undo
    BY <1>1, <1>10 DEF Failed
  <2>2. CASE row.to = "init"
    <3>1. Goto(Arrive("init", mod.ip + row.skip), TRUE)
      BY <1>1, <1>10, <2>2, Zenon DEF Failed
    <3>2. row.skip \in Nat \ {0}
      BY <1>6, <2>1, <2>2
    <3>3. Onward(row.skip) /\ mod' \in Mod /\ mod'.failed = TRUE
      BY <1>7, <3>1, <3>2, Zenon
    <3> QED
      BY <2>1, <2>2, <3>3, Zenon DEF InitStep
  <2>3. CASE row.to # "init"
    <3>1. Goto([at |-> row.to, ip |-> 1], TRUE)
      BY <1>1, <1>10, <2>3, Zenon DEF Failed
    <3>2. row.to \in {"failed", "loaded", "misuse"}
      BY <1>6, <2>1, <2>3
    <3>3. mod' \in Mod /\ mod'.at = row.to /\ mod'.failed = TRUE
      BY <1>8, <3>1, <3>2, Zenon
    <3> QED
      BY <2>1, <2>3, <3>3, Zenon DEF InitStep
  <2> QED
    BY <2>2, <2>3, Zenon
<1>11. CASE Released
  <2>1. row.op # "free"
    BY <1>5, Zenon DEF InitRow, GetRow, OtherRow
  <2>2. /\ row.op \in {"use", "put"} /\ held' = IF row.op = "use" THEN held ELSE held \ row.res
        /\ Goto(Arrive("init", mod.ip + 1), mod.failed)
    BY <1>1, <1>11, <2>1 DEF Released
  <2>3. Onward(1) /\ mod' \in Mod /\ mod'.failed = mod.failed
    BY <1>2, <1>7, <2>2, 1 \in Nat \ {0}, Zenon
  <2> QED
    BY <2>2, <2>3, Zenon DEF InitStep
<1>12. CASE Misused
  <2>1. Goto([at |-> "misuse", ip |-> 1], mod.failed) /\ held' = held
    BY <1>12 DEF Misused
  <2>2. mod' \in Mod /\ mod'.at = "misuse" /\ mod'.failed = mod.failed
    BY <1>2, <1>8, <2>1, Zenon
  <2> QED
    BY <2>1, <2>2, Zenon DEF InitStep
<1> QED
  BY <1>9, <1>10, <1>11, <1>12, Zenon DEF Step

\* A step of the exit function.
LEMMA ExitSteps ==
    ASSUME lab \in LoadModules, mod \in Mod, mod.at = "exit", Step
    PROVE  /\ mod.ip \in 1 .. Len(ExitRows[lab])
           /\ ExitStep(ExitRows[lab][mod.ip])
           /\ mod' \in Mod /\ mod'.failed = mod.failed /\ lab' = lab /\ busy' = busy
<1> DEFINE rows == ExitRows[lab]
           row  == rows[mod.ip]
<1>1. Rows("exit") = rows /\ Row = row
  BY DEF Rows, Row
<1>2. mod.ip \in Nat \ {0} /\ mod.failed \in BOOLEAN
  BY DEF Mod
<1>3. rows \in Seq(ExitRow)
  BY ExitRowsAre
<1>4. mod.ip \in 1 .. Len(rows) /\ lab' = lab /\ busy' = busy
  BY <1>1, <1>2, <1>3 DEF Step
<1>5. row \in ExitRow
  BY <1>3, <1>4
<1>6. row.op \in {"use", "put", "free"}
  BY <1>5, Zenon DEF ExitRow, OtherRow
<1> HIDE DEF rows, row
<1>7. CASE Released
  <2>1. \/ mod' = [at |-> "exit", ip |-> mod.ip + 1, failed |-> mod.failed] /\ mod.ip + 1 <= Len(rows)
        \/ mod' = [at |-> "gone", ip |-> 1, failed |-> mod.failed] /\ ~(mod.ip + 1 <= Len(rows))
    BY <1>1, <1>7 DEF Released, Goto, Arrive
  <2>2. mod.ip + 1 \in Nat \ {0} /\ Len(rows) \in Nat /\ mod.ip + 1 \in Int
    BY <1>2, <1>3
  <2>3. mod' \in Mod
    <3>1. 1 \in Nat \ {0}
      OBVIOUS
    <3>2. \A i \in Nat \ {0} : /\ [at |-> "exit", ip |-> i, failed |-> mod.failed] \in Mod
                               /\ [at |-> "gone", ip |-> i, failed |-> mod.failed] \in Mod
      BY <1>2, Zenon DEF Mod
    <3> QED
      BY <2>1, <2>2, <3>1, <3>2, Zenon
  <2>4. /\ mod'.failed = mod.failed
        /\ \/ mod'.at = "exit" /\ mod'.ip = mod.ip + 1
           \/ mod'.at = "gone" /\ mod.ip + 1 > Len(rows)
    BY <2>1, <2>2
  <2>5. /\ held' = IF row.op = "use" THEN held ELSE held \ row.res
        /\ row.res \cap Synchronous # {} => busy = {}
    BY <1>1, <1>7, Zenon DEF Released
  <2> QED
    BY <1>4, <2>3, <2>4, <2>5, Zenon DEF ExitStep, rows, row
<1>8. CASE Misused
  <2>1. mod' = [at |-> "misuse", ip |-> 1, failed |-> mod.failed] /\ held' = held
    BY <1>8 DEF Misused, Goto
  <2>2. mod' \in Mod /\ mod'.at = "misuse" /\ mod'.failed = mod.failed
    BY <1>2, <2>1, 1 \in Nat \ {0}, Zenon DEF Mod
  <2> QED
    BY <1>4, <2>1, <2>2, Zenon DEF ExitStep, rows, row
<1> QED
  BY <1>1, <1>6, <1>7, <1>8, Zenon DEF Step, Acquired, Failed

\* Loading and unloading keep the buffers while the disks are used.
LEMMA StepBuffers ==
    ASSUME lab \in LoadModules, mod \in Mod, Buffers, Step
    PROVE  Buffers'
<1>1. CASE mod.at = "exit"
  <2>1. /\ held' \subseteq held /\ mod'.at \in {"exit", "gone", "misuse"} /\ lab' = lab
        /\ mod'.failed = mod.failed
    BY <1>1, ExitSteps, Zenon DEF ExitStep
  <2> QED
    BY <2>1, Zenon DEF Buffers, Checked
<1>2. CASE mod.at = "init"
  <2> DEFINE rows == InitRows[lab]
             row  == rows[mod.ip]
             k    == mod.ip
  <2>1. k \in 1 .. Len(rows) /\ row \in InitRow /\ InitStep(row) /\ lab' = lab /\ mod' \in Mod
    BY <1>2, InitSteps
  <2>2. k \in Nat \ {0}
    BY DEF Mod
  <2>3. lab \in BlockModules => row \in PlainRow
    <3>1. lab \in BlockModules => rows \in Seq(PlainRow)
      BY InitRowsAre, Zenon DEF BlockModules
    <3> QED
      BY <2>1, <3>1
  <2>4. lab \in BlockModules => held' \cap {"notifier", "kprobe"} = {}
    BY <2>1, <2>3, Zenon DEF Buffers, InitStep, PlainRow
  <2>5. ASSUME lab \in {"ramhd_mkreq", "ramhd_req"}, Checked'
        PROVE  /\ mod'.at = "init" /\ mod'.ip < 3 => {"disk0", "disk1"} \cap held' = {}
               /\ mod'.at = "init" /\ mod'.ip = 2 => "sdisk0" \in held'
               /\ (mod'.at = "init" /\ mod'.ip >= 3) \/ mod'.at = "loaded" =>
                      {"sdisk0", "sdisk1"} \subseteq held'
    <3>1. Checked /\ (lab = "ramhd_req" => ~mod'.failed)
      BY <2>1, <2>5, Zenon DEF Checked, InitStep
    <3>2. CASE k = 1
      <4>1. row.op = "get" /\ row.res = {"sdisk0"} /\ (lab = "ramhd_mkreq" => row.to = "failed")
        BY <2>5, <3>2, RamhdRows, Zenon
      <4>2. \/ held' = held \cup {"sdisk0"} /\ Onward(1)
            \/ mod'.at \in {"failed", "misuse"}
        BY <2>1, <2>5, <3>1, <4>1, Zenon DEF InitStep
      <4>3. Onward(1) => mod'.at = "init" /\ mod'.ip = 2
        BY <2>5, <3>2, RamhdRows, ZenonT(60) DEF Onward
      <4> QED
        BY <1>2, <2>5, <3>1, <3>2, <4>2, <4>3 DEF Buffers
    <3>3. CASE k = 2
      <4>1. row.op = "get" /\ row.res = {"sdisk1"} /\ (lab = "ramhd_mkreq" => row.to = "failed")
        BY <2>5, <3>3, RamhdRows, Zenon
      <4>2. \/ held' = held \cup {"sdisk1"} /\ Onward(1)
            \/ mod'.at \in {"failed", "misuse"}
        BY <2>1, <2>5, <3>1, <4>1, Zenon DEF InitStep
      <4>3. Onward(1) => mod'.at = "loaded" \/ (mod'.at = "init" /\ mod'.ip = 3)
        BY <3>3 DEF Onward
      <4> QED
        BY <1>2, <2>5, <3>1, <3>3, <4>2, <4>3 DEF Buffers
    <3>4. CASE k >= 3
      <4>1. row \in LateRow
        <5>1. k \in 3 .. Len(rows)
          BY <2>1, <2>2, <3>4
        <5> QED
          BY <2>5, <5>1, RamhdRows, Zenon
      <4>2. held \subseteq held'
        BY <2>1, <4>1, Zenon DEF InitStep, LateRow
      <4>3. row.op = "get" => row.to = "init" /\ row.skip \in Nat
        BY <2>1, <4>1, Zenon DEF LateRow, InitRow, GetRow, OtherRow
      <4>4. mod'.at = "init" => mod'.ip >= 3
        <5>1. mod'.at = "init" => Onward(1) \/ (row.op = "get" /\ Onward(row.skip))
          BY <2>1, <4>1, <4>3, Zenon DEF InitStep, LateRow
        <5>2. \A n \in Nat : Onward(n) /\ mod'.at = "init" => mod'.ip = k + n
          BY Zenon DEF Onward
        <5> QED
          BY <2>2, <3>4, <4>1, <4>3, <5>1, <5>2
      <4>5. mod'.ip \in Nat
        BY <2>1, Zenon DEF Mod
      <4> QED
        BY <1>2, <2>2, <2>5, <3>1, <3>4, <4>2, <4>4, <4>5 DEF Buffers
    <3> QED
      BY <2>2, <3>2, <3>3, <3>4
  <2>6. ASSUME lab = "sample_blk"
        PROVE  /\ "disk1" \notin held'
               /\ mod'.at = "init" => "disk0" \notin held'
               /\ mod'.at = "init" /\ mod'.ip >= 4 => "sdisk0" \in held'
               /\ mod'.at = "loaded" /\ "disk0" \in held' => "sdisk0" \in held'
    <3>1. Len(rows) = 6
      BY <2>6, SampleRows, Zenon
    <3>2. CASE k <= 5
      <4>1. /\ row.op = "get" /\ row.to \in {"failed", "loaded"} /\ {"disk0", "disk1"} \cap row.res = {}
            /\ k = 3 => row.res = {"sdisk0"}
        BY <2>2, <2>6, <3>2, k \in 1 .. 5, SampleRows, Zenon
      <4>2. \/ held' = held \cup row.res /\ mod'.at = "init" /\ mod'.ip = k + 1
            \/ held' \subseteq held /\ mod'.at \in {"failed", "loaded", "misuse"}
        <5>1. \/ held' = held \cup row.res /\ Onward(1)
              \/ held' \subseteq held /\ mod'.at \in {"failed", "loaded", "misuse"}
          BY <2>1, <4>1, Zenon DEF InitStep
        <5>2. Onward(1) => mod'.at = "init" /\ mod'.ip = k + 1
          BY <2>2, <3>1, <3>2 DEF Onward
        <5> QED
          BY <5>1, <5>2, Zenon
      <4> QED
        BY <1>2, <2>2, <2>6, <4>1, <4>2 DEF Buffers
    <3>3. CASE k = 6
      <4>1. row.op = "do" /\ row.res = {"disk0"}
        BY <2>6, <3>3, SampleRows
      <4>2. \/ held' = held \cup {"disk0"} /\ mod'.at = "loaded"
            \/ held' = held /\ mod'.at = "misuse"
        BY <2>1, <2>2, <3>1, <3>3, <4>1 DEF InitStep, Onward
      <4> QED
        BY <1>2, <2>6, <3>3, <4>2 DEF Buffers
    <3> QED
      BY <2>1, <2>2, <3>1, <3>2, <3>3
  <2> HIDE DEF rows, row, k
  <2> QED
    BY <2>1, <2>4, <2>5, <2>6, Zenon DEF Buffers
<1> QED
  BY <1>1, <1>2, Zenon DEF Step

\* They keep what the callbacks use.
LEMMA StepObjects ==
    ASSUME lab \in LoadModules, mod \in Mod, Objects, Step
    PROVE  Objects'
<1> DEFINE in  == InitRows[lab][mod.ip]
           out == ExitRows[lab][mod.ip]
<1>0. mod.ip \in Nat \ {0} /\ mod.at \in {"init", "exit"} /\ lab' = lab /\ busy' = busy
  BY Zenon DEF Step, Mod
<1>1. mod.at = "init" => InitStep(in) /\ mod.ip \in 1 .. Len(InitRows[lab])
  BY InitSteps, Zenon
<1>2. mod.at = "exit" => ExitStep(out) /\ mod.ip \in 1 .. Len(ExitRows[lab])
  BY ExitSteps, Zenon
<1>3. ASSUME lab \notin {"notifier", "kprobe"}
      PROVE  held' \cap {"notifier", "kprobe"} = {}
  <2>1. CASE mod.at = "init"
    <3>1. in \in PlainRow
      BY <1>1, <1>3, <2>1, InitRowsAre
    <3> QED
      BY <1>1, <1>3, <2>1, <3>1, Zenon DEF Objects, InitStep, PlainRow
  <2>2. CASE mod.at = "exit"
    BY <1>2, <1>3, <2>2, Zenon DEF Objects, ExitStep
  <2> QED
    BY <1>0, <2>1, <2>2, Zenon
<1>4. ASSUME lab = "notifier"
      PROVE  /\ mod'.at = "init" /\ mod'.ip >= 2 => "pnb" \in held'
             /\ "notifier" \in held' => "pnb" \in held'
             /\ mod'.at = "init" \/ (mod'.at = "exit" /\ mod'.ip >= 2) => "notifier" \notin held'
             /\ "notifier" \notin held' => busy' = {}
             /\ "kprobe" \notin held'
  <2>1. CASE mod.at = "init" /\ mod.ip = 1
    <3>1. in.op = "get" /\ in.res = {"pnb"} /\ in.undo = {} /\ in.to = "failed"
      BY <1>4, <2>1, NotifierRows, Zenon
    <3>2. held' \in {held, held \cup {"pnb"}} /\ (mod'.at = "init" => "pnb" \in held')
      BY <1>1, <2>1, <3>1, Zenon DEF InitStep
    <3>3. mod'.at # "exit"
      BY <1>1, <2>1, <3>1, Zenon DEF InitStep, Onward
    <3> QED
      BY <1>0, <1>4, <2>1, <3>2, <3>3, Zenon DEF Objects
  <2>2. CASE mod.at = "init" /\ mod.ip = 2
    <3>1. in.op = "do" /\ in.res = {"notifier"} /\ Len(InitRows[lab]) = 2
      BY <1>4, <2>2, NotifierRows, Zenon
    <3>2. \/ held' = held \cup {"notifier"} /\ mod'.at = "loaded"
          \/ held' = held /\ mod'.at = "misuse"
      BY <1>1, <2>2, <3>1 DEF InitStep, Onward
    <3> QED
      BY <1>0, <1>4, <2>2, <3>2 DEF Objects
  <2>3. CASE mod.at = "exit" /\ mod.ip = 1
    <3>1. out.op = "put" /\ out.res = {"notifier"}
      BY <1>4, <2>3, NotifierRows, Zenon
    <3>2. \/ held' = held \ {"notifier"} /\ busy = {} /\ mod'.at \in {"exit", "gone"}
          \/ held' = held /\ mod'.at = "misuse"
      BY <1>2, <2>3, <3>1, Zenon DEF ExitStep, Synchronous
    <3> QED
      BY <1>0, <1>4, <2>3, <3>2, Zenon DEF Objects
  <2>4. CASE mod.at = "exit" /\ mod.ip = 2
    <3>1. out.op = "free" /\ out.res = {"pnb"}
      BY <1>4, <2>4, NotifierRows, Zenon
    <3>2. /\ "notifier" \notin held' /\ "kprobe" \notin held' /\ busy = {}
          /\ mod'.at # "init"
      BY <1>2, <1>4, <2>4, <3>1 DEF ExitStep, Objects
    <3> QED
      BY <1>0, <1>4, <2>4, <3>2, Zenon DEF Objects
  <2> QED
    <3>1. mod.ip \in 1 .. 2
      BY <1>0, <1>1, <1>2, <1>4, NotifierRows, Zenon
    <3> QED
      BY <1>0, <3>1, <2>1, <2>2, <2>3, <2>4
<1>5. ASSUME lab = "kobject"
      PROVE  /\ "attr" \in held' => {"child", "c_kset"} \subseteq held'
             /\ mod'.at = "init" /\ mod'.ip >= 3 => "child" \in held'
             /\ mod'.at = "init" /\ mod'.ip >= 4 => "c_kset" \in held'
             /\ mod'.at = "exit" /\ mod'.ip >= 3 => "attr" \notin held'
             /\ "attr" \notin held' => busy' = {}
  <2>1. mod.ip \in 1 .. 6 /\ Len(InitRows[lab]) = 5 /\ Len(ExitRows[lab]) = 6
        /\ (mod.at = "init" => mod.ip \in 1 .. 5)
    BY <1>0, <1>1, <1>2, <1>5, KobjRows
  <2>2. CASE mod.at = "init"
    <3>1. /\ in.op = "get" /\ in.undo = {} /\ (in.to = "init" => in.skip = 1 /\ mod.ip = 1)
          /\ (mod.ip = 2 => in.res = {"child"}) /\ (mod.ip = 3 => in.res = {"c_kset"})
          /\ (mod.ip = 4 => in.res = {"c_obj"}) /\ (mod.ip = 5 => in.res = {"attr"})
          /\ mod.ip = 1 => in.res = {"parent"}
      BY <1>5, <2>1, <2>2, KobjRows
    <3>2. \/ held' = held \cup in.res /\ Onward(1)
          \/ held' = held /\ mod'.at = in.to /\ in.to # "init"
          \/ held' = held /\ mod.ip = 1 /\ Onward(1)
          \/ held' = held /\ mod'.at = "misuse"
      BY <1>1, <2>2, <3>1, Zenon DEF InitStep
    <3>3. "attr" \in in.res => mod.ip = 5
      BY <2>1, <2>2, <3>1
    <3>4. in.to \in {"init", "loaded", "failed"}
      BY <1>5, <2>1, <2>2, KobjRows, SMTT(40), SMTT(60)
    <3>5. /\ held \subseteq held' /\ held' \subseteq held \cup in.res
          /\ mod'.at # "exit" /\ (mod'.at = "init" => mod'.ip = mod.ip + 1)
      BY <3>2, <3>4 DEF Onward
    <3>6. mod'.at = "init" /\ mod.ip # 1 => in.res \subseteq held'
      BY <3>2, Zenon
    <3>7. /\ "attr" \in held => {"child", "c_kset"} \subseteq held
          /\ (mod.ip >= 3 => "child" \in held) /\ (mod.ip >= 4 => "c_kset" \in held)
          /\ "attr" \notin held => busy = {}
      BY <1>5, <2>2, Zenon DEF Objects
    <3> HIDE DEF in
    <3>8. "attr" \in held' => {"child", "c_kset"} \subseteq held'
      BY <2>1, <3>3, <3>5, <3>7
    <3>9. mod'.at = "init" /\ mod'.ip >= 3 => "child" \in held'
      BY <2>1, <3>1, <3>5, <3>6, <3>7
    <3>10. mod'.at = "init" /\ mod'.ip >= 4 => "c_kset" \in held'
      BY <2>1, <3>1, <3>5, <3>6, <3>7
    <3> QED
      BY <1>0, <3>5, <3>7, <3>8, <3>9, <3>10, Zenon
  <2>3. CASE mod.at = "exit"
    <3>1. /\ mod.ip = 1 => out.op = "use"
          /\ mod.ip = 2 => out.op = "put" /\ out.res = {"attr"}
          /\ mod.ip = 3 => out.op = "put" /\ out.res = {"c_kset"}
          /\ mod.ip = 4 => out.op = "use"
          /\ mod.ip = 5 => out.op = "put" /\ out.res = {"c_obj"}
          /\ mod.ip = 6 => out.op = "free" /\ out.res = {"parent"}
      BY <1>5, KobjRows, ZenonT(60)
    <3>2. mod'.at \in {"exit", "gone", "misuse"} /\ (mod'.at = "exit" => mod'.ip = mod.ip + 1)
      BY <1>2, <2>3, Zenon DEF ExitStep
    <3>3. \/ held' = held
          \/ mod.ip >= 3 /\ held' \subseteq held /\ "attr" \notin held
          \/ mod.ip = 2 /\ held' = held \ {"attr"} /\ busy = {}
      BY <1>2, <1>5, <2>1, <2>3, <3>1 DEF ExitStep, Synchronous, Objects
    <3>4. mod'.at = "exit" /\ mod.ip = 2 => "attr" \notin held'
      BY <1>2, <2>3, <3>1, Zenon DEF ExitStep
    <3> QED
      BY <1>0, <1>5, <2>1, <2>3, <3>2, <3>3, <3>4 DEF Objects
  <2> QED
    BY <1>0, <2>2, <2>3, Zenon
<1> HIDE DEF in, out
<1> QED
  BY <1>0, <1>3, <1>4, <1>5 DEF Objects

\* delete_module() begins the exit function; nobody has a disk open then.
LEMMA RmmodStep ==
    ASSUME lab \in LoadModules, mod \in Mod, rmmod
    PROVE  /\ mod.at = "loaded" /\ mod' \in Mod /\ mod'.at \in {"exit", "gone"} /\ mod'.ip = 1
           /\ mod'.failed = mod.failed /\ lab' = lab /\ held' = held /\ busy' = busy
           /\ lab \in BlockModules => busy = {}
<1>1. \/ mod' = [at |-> "exit", ip |-> 1, failed |-> mod.failed]
      \/ mod' = [at |-> "gone", ip |-> 1, failed |-> mod.failed]
  BY DEF rmmod, Goto, Arrive
<1>2. mod' \in Mod
  <2>1. 1 \in Nat \ {0} /\ mod.failed \in BOOLEAN
    BY DEF Mod
  <2>2. \A i \in Nat \ {0} : /\ [at |-> "exit", ip |-> i, failed |-> mod.failed] \in Mod
                             /\ [at |-> "gone", ip |-> i, failed |-> mod.failed] \in Mod
    BY <2>1, Zenon DEF Mod
  <2> QED
    BY <1>1, <2>1, <2>2, Zenon
<1> QED
  BY <1>1, <1>2 DEF rmmod

\* A callback comes and goes.
LEMMA CallbackStep ==
    ASSUME Buffers, Objects, Callback
    PROVE  /\ lab' = lab /\ mod' = mod /\ held' = held
           /\ lab \in {"notifier", "kprobe"}
  BY Zenon DEF Callback, get_notify, handler_pre, Return, Objects

\* Nothing but a failure takes a buffer away before the exit function.
LEMMA StepKeepsBuffers ==
    ASSUME lab \in BlockModules, mod \in Mod, mod.at = "init", Step, lab # "sample_blk"
    PROVE  held \subseteq held'
<1> DEFINE rows == InitRows[lab]
           row  == rows[mod.ip]
<1>0. lab \in LoadModules /\ lab \in {"ramhd_mkreq", "ramhd_req"}
  BY Zenon DEF LoadModules, InitRows, BlockModules
<1>1. mod.ip \in 1 .. Len(rows) /\ InitStep(row)
  BY <1>0, InitSteps, Zenon
<1>2. row.op # "put" /\ (row.op = "get" => row.undo = {})
  <2>1. CASE mod.ip \in {1, 2}
    BY <1>0, <2>1, RamhdRows, Zenon
  <2>2. CASE mod.ip \notin {1, 2}
    <3>1. mod.ip \in 3 .. Len(rows)
      BY <1>0, <1>1, <2>2, RamhdRows
    <3>2. row \in LateRow
      BY <1>0, <3>1, RamhdRows, Zenon
    <3> QED
      BY <3>2, Zenon DEF LateRow
  <2> QED
    BY <2>1, <2>2, Zenon
<1> QED
  BY <1>1, <1>2, Zenon DEF InitStep

\* Whoever leaves the variables of the disks alone keeps what is said of them.
LEMMA SameDisk ==
    ASSUME DiskInv, lab' = lab, UNCHANGED <<sectors, req, worker, prior>>
    PROVE  IoType' /\ Working' /\ Requests' /\ Copies'
<1>1. IoType'
  BY ZenonT(60) DEF DiskInv, IoType
<1>2. Working'
  BY DEF DiskInv, Working, Active, Beyond
<1>3. Requests'
  BY DEF DiskInv, Requests, Beyond
<1>4. Copies'
  <2>1. \A o, i, s : Wrote(o, i, s)' = Wrote(o, i, s)
    BY DEF Wrote, Range, Beyond
  <2>2. \A o, s : Copied(o, s)' = Copied(o, s)
    BY DEF Copied, Active, Range, Beyond
  <2>3. \A v, i, s, known : Fresh(v, i, s, known)' = Fresh(v, i, s, known)
    BY <2>1 DEF Fresh
  <2> QED
    BY <2>1, <2>2, <2>3, Zenon DEF DiskInv, Copies
<1> QED
  BY <1>1, <1>2, <1>3, <1>4

\* Loading and unloading keep the invariant.
LEMMA LoadKeeps ==
    ASSUME DriversInv, LoadNext, UNCHANGED <<ioVars, kobjVars, pollVars>>
    PROVE  DriversInv'
<1>0. /\ lab \in LoadModules /\ mod \in Mod /\ Buffers /\ DiskInv /\ Objects /\ Stores /\ Polls
  BY DEF DriversInv
<1>1. UNCHANGED <<sectors, req, worker, prior, flag, suppress, store, fd, state, wq, call, owed>>
  BY Zenon DEF ioVars, kobjVars, pollVars
<1>2. /\ lab' = lab /\ mod' \in Mod
  BY <1>0, InitSteps, ExitSteps, RmmodStep, Zenon DEF LoadNext, Callback, Step
<1>3. Buffers'
  <2>1. CASE rmmod
    BY <1>0, <2>1, RmmodStep, Zenon DEF Buffers, Checked
  <2>2. CASE Callback
    BY <1>0, <2>2, CallbackStep, Zenon DEF Buffers, Checked
  <2> QED
    BY <1>0, <2>1, <2>2, StepBuffers, Zenon DEF LoadNext
<1>4. Objects'
  <2>1. CASE rmmod
    BY <1>0, <2>1, RmmodStep DEF Objects
  <2>2. CASE Callback
    <3>1. lab' = lab /\ mod' = mod /\ held' = held /\ lab \in {"notifier", "kprobe"}
      BY <1>0, <2>2, CallbackStep, Zenon
    <3>2. lab = "notifier" /\ "notifier" \notin held => busy' = {}
      BY <1>0, <2>2, Zenon DEF Callback, get_notify, handler_pre, Return, Objects
    <3> QED
      BY <1>0, <3>1, <3>2, Zenon DEF Objects
  <2> QED
    BY <1>0, <2>1, <2>2, StepObjects, Zenon DEF LoadNext
<1>5. Stores'
  BY <1>0, <1>1, Zenon DEF Stores
<1>6. IoType' /\ Working' /\ Requests' /\ Copies'
  BY <1>0, <1>1, <1>2, SameDisk, Zenon
<1>7. Busy'
  <2> SUFFICES ASSUME lab \in BlockModules
               PROVE  /\ busy' = {r \in Req : req[r].st \in {"queued", "started"}}
                      /\ mod'.at \in {"exit", "gone"} \/ (lab = "sample_blk" /\ mod'.at = "init") => busy' = {}
                      /\ Checked' => \A r \in busy' : sdisk(req[r].dev) \in held'
    BY <1>1, <1>2, Zenon DEF Busy
  <2>0. /\ busy = {r \in Req : req[r].st \in {"queued", "started"}}
        /\ mod.at \in {"exit", "gone"} \/ (lab = "sample_blk" /\ mod.at = "init") => busy = {}
        /\ Checked => \A r \in busy : sdisk(req[r].dev) \in held
    BY <1>0, Zenon DEF DiskInv, Busy
  <2>1. CASE rmmod
    BY <1>0, <2>0, <2>1, RmmodStep, Zenon
  <2>2. CASE Callback
    BY <1>0, <2>2, CallbackStep, Zenon DEF BlockModules
  <2>3. CASE Step /\ mod.at = "exit"
    <3>1. busy' = busy /\ busy = {}
      BY <1>0, <2>0, <2>3, ExitSteps, Zenon
    <3> QED
      BY <2>0, <3>1, Zenon
  <2>4. CASE Step /\ mod.at = "init"
    <3>1. busy' = busy /\ InitStep(InitRows[lab][mod.ip]) /\ InitRows[lab][mod.ip] \in InitRow
      BY <1>0, <2>4, InitSteps, Zenon
    <3>2. mod'.at \notin {"exit", "gone"}
      BY <3>1, Zenon DEF InitStep, Onward, InitRow, GetRow, OtherRow
    <3>3. Checked' => Checked
      BY <1>2, <3>1, Zenon DEF InitStep, Checked
    <3>4. lab = "sample_blk" \/ held \subseteq held'
      BY <1>0, <2>4, StepKeepsBuffers, Zenon
    <3> QED
      BY <2>0, <2>4, <3>1, <3>2, <3>3, <3>4, Zenon
  <2> QED
    BY <2>1, <2>2, <2>3, <2>4, Zenon DEF LoadNext, Step
<1>8. Polls'
  <2>1. lab = "poll" => held' \cap {"pd"} = held \cap {"pd"}
    <3> SUFFICES ASSUME lab = "poll"
                 PROVE  held' \cap {"pd"} = held \cap {"pd"}
      OBVIOUS
    <3>1. CASE rmmod
      BY <1>0, <3>1, RmmodStep, Zenon
    <3>2. CASE Callback
      BY <1>0, <3>2, CallbackStep, Zenon
    <3>3. CASE Step /\ mod.at = "init"
      <4>1. mod.ip = 1 /\ InitStep(InitRows["poll"][1])
        BY <1>0, <3>3, InitSteps, PollRows
      <4> QED
        BY <4>1, PollRows, Zenon DEF InitStep
    <3>4. CASE Step /\ mod.at = "exit"
      <4>1. mod.ip = 1 /\ ExitStep(ExitRows["poll"][1])
        BY <1>0, <3>4, ExitSteps, PollRows
      <4> QED
        BY <4>1, PollRows, Zenon DEF ExitStep
    <3> QED
      BY <3>1, <3>2, <3>3, <3>4, Zenon DEF LoadNext, Step
  <2> QED
    BY <1>0, <1>1, <1>2, <2>1, Zenon DEF Polls, Polling
<1> QED
  BY <1>2, <1>0, <1>3, <1>4, <1>5, <1>6, <1>7, <1>8, Zenon DEF DriversInv, DiskInv

-----------------------------------------------------------------------------
(* The disks.                                                              *)

\* Of the two ways on from a segment or a sector, one is the last.
LEMMA Counting ==
    ASSUME NEW a \in Nat, NEW b \in Nat, NEW s \in Nat
    PROVE  /\ a < b => a + 1 = b \/ a + 1 < b
           /\ s < a + (b + 1) => s = a + b \/ s < a + b
  OBVIOUS

\* A segment of a request that the disk contains is on the disk.
LEMMA Inside ==
    ASSUME NEW n \in Nat, NEW a \in Nat, NEW b \in Nat, NEW i \in Nat, ~(a + b > n), i < b
    PROVE  a + i \in 0 .. n - 1 /\ a + i \in a .. a + b - 1
  OBVIOUS

\* So is each of its sectors.
LEMMA Within ==
    ASSUME NEW n \in Nat, NEW a \in Nat, NEW b \in Nat, ~(a + b > n), NEW s \in a .. a + b - 1
    PROVE  s \in 0 .. n - 1
  OBVIOUS

\* The request is the same, but for its progress.
Alike(q, k) == q.dev = k.dev /\ q.write = k.write /\ q.pos = k.pos /\ q.len = k.len

\* What a request covers does not change.
LEMMA AlikeLemma ==
    ASSUME NEW q, NEW k, Alike(q, k)
    PROVE  Range(q) = Range(k) /\ Beyond(q) = Beyond(k)
  BY DEF Alike, Range, Beyond

\* What was on the disk when a read copied it is not older than the writes that had ended
\* when the read was submitted.
LEMMA FreshLemma ==
    ASSUME Copies, NEW r \in Req, prior[r] \subseteq Req, NEW i \in Device, NEW s \in Sector
    PROVE  Fresh(sectors[i][s], i, s, prior[r])
<1> DEFINE v == sectors[i][s]
<1>1. v \in Req => Wrote(v, i, s)
  BY Zenon DEF Copies
<1>2. ASSUME NEW x \in prior[r], Wrote(x, i, s)
      PROVE  v \in Req /\ v \notin prior[x]
  <2>1. req[x].st = "done" /\ x \in Req
    BY DEF Copies
  <2>2. req[x].write /\ req[x].dev = i /\ Copied(x, s)
    BY <1>2, <2>1, SMTT(40), SMTT(60) DEF Wrote, Copied
  <2> QED
    BY <2>1, <2>2, Zenon DEF Copies
<1> HIDE DEF v
<1> QED
  BY <1>1, <1>2, Zenon DEF Fresh, v

\* A segment is copied: sector t of the request r.
LEMMA CopyLemma ==
    ASSUME IoType, Copies, prior' = prior, NEW r \in Req, NEW t \in Sector,
           req[r].st = "started", t \in Range(req[r]), ~Beyond(req[r]),
           \A o \in Req : /\ Alike(req'[o], req[o])
                          /\ req[o].st = "done" => req'[o].st = "done",
           \A o \in Req, s \in Sector : Copied(o, s)' => Copied(o, s) \/ (o = r /\ s = t),
           \A i \in Device, s \in Sector :
               sectors'[i][s] = IF req[r].write /\ i = req[r].dev /\ s = t THEN r ELSE sectors[i][s],
           \A o \in Req, s \in Sector :
               req'[o].buf[s] = IF o = r /\ ~req[r].write /\ s = t THEN sectors[req[r].dev][t] ELSE req[o].buf[s]
    PROVE  Copies'
<1>1. \A o \in Req : prior[o] \subseteq Req /\ req[o].dev \in Device
  BY SMTT(40), SMTT(60) DEF IoType, Request
<1>2. \A o \in Req : \A x \in prior[o] : req[x].st = "done" /\ x # r
  BY Zenon DEF Copies
<1>3. \A o \in Req : /\ req'[o].write = req[o].write /\ req'[o].dev = req[o].dev
                     /\ Range(req'[o]) = Range(req[o]) /\ Beyond(req'[o]) = Beyond(req[o])
  BY AlikeLemma, ZenonT(60) DEF Alike
<1>4. ASSUME NEW i \in Device, NEW s \in Sector, sectors'[i][s] \in Req
      PROVE  Wrote(sectors[i][s], i, s)'
  <2>1. CASE req[r].write /\ i = req[r].dev /\ s = t
    <3>1. sectors'[i][s] = r
      BY <2>1, Zenon
    <3> QED
      BY <1>3, <2>1, <3>1, SMTT(40), SMTT(60) DEF Wrote
  <2>2. CASE ~(req[r].write /\ i = req[r].dev /\ s = t)
    <3>1. sectors'[i][s] = sectors[i][s]
      BY <2>2
    <3>2. Wrote(sectors[i][s], i, s)
      BY <1>4, <3>1, Zenon DEF Copies
    <3> QED
      BY <1>3, <1>4, <3>1, <3>2, SMTT(60), SMTT(80) DEF Wrote
  <2> QED
    BY <2>1, <2>2, Zenon
<1>5. ASSUME NEW o \in Req, NEW s \in Sector, req'[o].write, Copied(o, s)'
      PROVE  sectors'[req'[o].dev][s] \in Req \ prior[o]
  <2>1. req'[o].dev = req[o].dev /\ req[o].write /\ req[o].dev \in Device
    BY <1>1, <1>5, Zenon DEF Alike
  <2>2. r \notin prior[o]
    BY <1>2, ZenonT(60)
  <2>3. CASE req[r].write /\ req[o].dev = req[r].dev /\ s = t
    BY <2>1, <2>2, <2>3, SMTT(40), SMTT(60)
  <2>4. CASE ~(req[r].write /\ req[o].dev = req[r].dev /\ s = t)
    <3>1. sectors'[req[o].dev][s] = sectors[req[o].dev][s] /\ Copied(o, s)
      BY <1>5, <2>1, <2>4, SMTT(40), SMTT(60)
    <3> QED
      BY <2>1, <3>1, ZenonT(60) DEF Copies
  <2> QED
    BY <2>3, <2>4, Zenon
<1>6. ASSUME NEW o \in Req, NEW s \in Sector, ~req'[o].write, Copied(o, s)'
      PROVE  /\ Fresh(req[o].buf[s], req[o].dev, s, prior[o])'
             /\ req'[o].buf[s] \in Req => o \notin prior[req'[o].buf[s]]
  <2>1. req'[o].dev = req[o].dev /\ ~req[o].write /\ req[o].dev \in Device
    BY <1>1, <1>6, ZenonT(60) DEF Alike
  <2>2. /\ Fresh(req'[o].buf[s], req[o].dev, s, prior[o])
        /\ req'[o].buf[s] \in Req => o \notin prior[req'[o].buf[s]]
    <3>1. CASE o = r /\ s = t
      <4>1. req'[o].buf[s] = sectors[req[o].dev][s]
        BY <2>1, <3>1, ZenonT(60)
      <4>2. Fresh(sectors[req[o].dev][s], req[o].dev, s, prior[o])
        BY <1>1, <2>1, FreshLemma, SMTT(40), SMTT(60)
      <4> QED
        BY <1>2, <3>1, <4>1, <4>2, ZenonT(60)
    <3>2. CASE ~(o = r /\ s = t)
      <4>1. req'[o].buf[s] = req[o].buf[s] /\ Copied(o, s)
        BY <1>6, <3>2, SMTT(40), SMTT(60)
      <4> QED
        BY <2>1, <4>1, ZenonT(60) DEF Copies
    <3> QED
      BY <3>1, <3>2, ZenonT(60)
  <2>3. Fresh(req[o].buf[s], req[o].dev, s, prior[o])'
    BY <1>1, <1>3, <2>2, ZenonT(60) DEF Fresh, Wrote
  <2> QED
    BY <2>2, <2>3, ZenonT(60)
<1>7. \A o \in Req : \A x \in prior'[o] : req'[x].st = "done"
  BY <1>1, <1>2, ZenonT(60)
<1> QED
  BY <1>4, <1>5, <1>6, <1>7, ZenonT(60) DEF Copies

\* Nothing is copied.
LEMMA NoCopyLemma ==
    ASSUME IoType, Copies, prior' = prior, sectors' = sectors,
           \A o \in Req : /\ Alike(req'[o], req[o]) /\ req'[o].buf = req[o].buf
                          /\ req[o].st = "done" => req'[o].st = "done",
           \A o \in Req, s \in Sector : Copied(o, s)' => Copied(o, s)
    PROVE  Copies'
<1>1. \A o \in Req : prior[o] \subseteq Req /\ req[o].dev \in Device
  BY Zenon DEF IoType, Request
<1>2. \A o \in Req : /\ req'[o].write = req[o].write /\ req'[o].dev = req[o].dev
                     /\ Range(req'[o]) = Range(req[o]) /\ Beyond(req'[o]) = Beyond(req[o])
  BY AlikeLemma, SMTT(40), SMTT(60) DEF Alike
<1>3. ASSUME NEW i \in Device, NEW s \in Sector, sectors'[i][s] \in Req
      PROVE  Wrote(sectors[i][s], i, s)'
  BY <1>2, <1>3, ZenonT(60) DEF Copies, Wrote
<1>4. ASSUME NEW o \in Req, NEW s \in Sector, req'[o].write, Copied(o, s)'
      PROVE  sectors'[req'[o].dev][s] \in Req \ prior[o]
  BY <1>2, <1>4, ZenonT(60) DEF Copies
<1>5. ASSUME NEW o \in Req, NEW s \in Sector, ~req'[o].write, Copied(o, s)'
      PROVE  /\ Fresh(req[o].buf[s], req[o].dev, s, prior[o])'
             /\ req'[o].buf[s] \in Req => o \notin prior[req'[o].buf[s]]
  <2>1. /\ Fresh(req[o].buf[s], req[o].dev, s, prior[o])
        /\ req[o].buf[s] \in Req => o \notin prior[req[o].buf[s]]
    BY <1>2, <1>5, ZenonT(60) DEF Copies
  <2>2. Fresh(req[o].buf[s], req[o].dev, s, prior[o])'
    BY <1>1, <1>2, <2>1, ZenonT(60) DEF Fresh, Wrote
  <2> QED
    BY <2>1, <2>2, SMTT(40), SMTT(60)
<1>6. \A o \in Req : \A x \in prior'[o] : req'[x].st = "done"
  BY <1>1, ZenonT(60) DEF Copies
<1> QED
  BY <1>3, <1>4, <1>5, <1>6, Zenon DEF Copies

\* A request is submitted: it is in nobody's past, and those that ended are in its own.
LEMMA SubmitLemma ==
    ASSUME IoType, Copies, sectors' = sectors, NEW r \in Req,
           req[r].st = "idle", ~req[r].write, req'[r].st = "queued",
           \A o \in Req \ {r} : req'[o] = req[o] /\ prior'[o] = prior[o],
           prior'[r] = {o \in Req : req[o].st = "done"},
           \A o \in Req, s \in Sector : Copied(o, s)' => o # r /\ Copied(o, s)
    PROVE  Copies'
<1>1. \A o \in Req : prior[o] \subseteq Req /\ req[o].dev \in Device
  BY Zenon DEF IoType, Request
<1>2. \A o \in Req : r \notin prior[o]
  BY ZenonT(60) DEF Copies
<1>3. ASSUME NEW i \in Device, NEW s \in Sector, sectors'[i][s] \in Req
      PROVE  Wrote(sectors[i][s], i, s)'
  <2>1. Wrote(sectors[i][s], i, s)
    BY <1>3, Zenon DEF Copies
  <2>2. sectors[i][s] # r
    BY <2>1, SMTT(40), SMTT(60) DEF Wrote
  <2> QED
    BY <1>3, <2>1, <2>2, SMTT(40), SMTT(60) DEF Wrote
<1>4. ASSUME NEW o \in Req, NEW s \in Sector, req'[o].write, Copied(o, s)'
      PROVE  sectors'[req'[o].dev][s] \in Req \ prior'[o]
  BY <1>4, ZenonT(60) DEF Copies
<1>5. ASSUME NEW o \in Req, NEW s \in Sector, ~req'[o].write, Copied(o, s)'
      PROVE  /\ Fresh(req[o].buf[s], req[o].dev, s, prior[o])'
             /\ req'[o].buf[s] \in Req => o \notin prior'[req'[o].buf[s]]
  <2>1. /\ o # r /\ req'[o] = req[o] /\ prior'[o] = prior[o]
        /\ Fresh(req[o].buf[s], req[o].dev, s, prior[o])
        /\ req[o].buf[s] \in Req => o \notin prior[req[o].buf[s]]
    BY <1>5, ZenonT(60) DEF Copies
  <2>2. req[o].buf[s] \in Req => req[o].buf[s] # r /\ Wrote(req[o].buf[s], req[o].dev, s)
    BY <2>1, Zenon DEF Fresh, Wrote
  <2>3. \A x \in prior[o] : x \in Req \ {r}
    BY <1>1, <1>2, SMTT(40), SMTT(60)
  <2>4. Fresh(req[o].buf[s], req[o].dev, s, prior[o])'
    BY <2>1, <2>2, <2>3, ZenonT(60) DEF Fresh, Wrote
  <2> QED
    BY <2>1, <2>2, <2>4, ZenonT(60)
<1>6. \A o \in Req : \A x \in prior'[o] : req'[x].st = "done"
  BY <1>1, <1>2, SMTT(60), SMTT(80) DEF Copies
<1> QED
  BY <1>3, <1>4, <1>5, <1>6, Zenon DEF Copies

-----------------------------------------------------------------------------
(* The disks: the steps of the request functions.                          *)

\* What a step of the request functions does to the state of one CPU.
LEMMA WorkerLemma ==
    ASSUME worker \in [Ctx -> Worker], NEW c \in Ctx, NEW w \in Worker, worker' = [worker EXCEPT ![c] = w]
    PROVE  worker' \in [Ctx -> Worker] /\ worker'[c] = w /\ \A d \in Ctx \ {c} : worker'[d] = worker[d]
  OBVIOUS

\* The modules with disks; requests and sectors are numbers.
LEMMA Kinds ==
    /\ BlockModules = {"sample_blk", "ramhd_mkreq", "ramhd_req"}
    /\ \A r \in Req : r \in Int
    /\ \A s \in Sector : s \in Nat
  BY IoAssumption DEF BlockModules, Req, Sector

\* A request is in one state at a time.
LEMMA RequestType ==
    ASSUME IoType, NEW r \in Req
    PROVE  /\ req[r] \in Request /\ req[r].dev \in Device /\ req[r].write \in BOOLEAN
           /\ req[r].pos \in Nat /\ req[r].len \in Nat /\ req[r].err \in {0, 5}
           /\ req[r].buf \in [Sector -> Int]
           /\ req[r].st \in {"idle", "queued", "started", "done"}
  BY DEF IoType, Request

\* So is a CPU.
LEMMA WorkerType ==
    ASSUME IoType, NEW c \in Ctx
    PROVE  /\ worker[c] \in Worker /\ worker[c].rq \in Int /\ worker[c].seg \in Nat
           /\ worker[c].rv \in {0, 5} /\ worker[c].at \in {"out", "loop", "copy", "end"}
  BY DEF IoType, Worker

\* A request that is fetched: the worker starts with it.
LEMMA FetchLemma ==
    ASSUME DriversInv, lab \in BlockModules, lab' = lab, NEW c \in Ctx, ~Active(c),
           NEW r \in Req, Fetch(c, r),
           UNCHANGED <<mod, held, busy, sectors, prior>>
    PROVE  DiskInv'
<1> DEFINE w == Started(c, r, worker[c].rv)
           q == req[r]
<1>0. IoType /\ Working /\ Requests /\ Busy /\ Copies
  BY DEF DriversInv, DiskInv
<1>1. q.st = "queued" /\ req' = [req EXCEPT ![r].st = "started"] /\ worker' = [worker EXCEPT ![c] = w]
  BY SMT, Zenon, SMTT(40) DEF Fetch
<1>2. /\ w \in Worker /\ w.rq = r /\ w.seg = 0
      /\ IF Beyond(q) THEN w.at = "end" /\ w.rv = 5 ELSE w.at = "copy"
  <2>1. worker[c].rv \in {0, 5} /\ r \in Int
    BY <1>0, WorkerType, Kinds
  <2> QED
    BY <2>1 DEF Started, EIO, Worker
<1> HIDE DEF w
<1>3. worker' \in [Ctx -> Worker] /\ worker'[c] = w /\ \A d \in Ctx \ {c} : worker'[d] = worker[d]
  BY <1>0, <1>1, <1>2, WorkerLemma DEF IoType
<1>4. /\ req' \in [Req -> Request] /\ req'[r].st = "started" /\ Alike(req'[r], q)
      /\ req'[r].buf = q.buf /\ req'[r].err = q.err
      /\ \A o \in Req \ {r} : req'[o] = req[o]
  BY <1>0, <1>1, RequestType, Zenon DEF IoType, Request, Alike
<1>5. IoType'
  BY <1>0, <1>3, <1>4 DEF IoType
<1>6. /\ \A o \in Req : Alike(req'[o], req[o]) /\ Beyond(req'[o]) = Beyond(req[o])
                           /\ Range(req'[o]) = Range(req[o])
      /\ q.pos \in Nat /\ q.len \in 1 .. Sectors /\ q.len \in Nat
  <2>1. \A o \in Req : Alike(req'[o], req[o])
    BY <1>4 DEF Alike
  <2> QED
    BY <1>0, <1>1, <2>1, AlikeLemma, RequestType, ZenonT(60) DEF Requests
<1>7. \A d \in Ctx : Active(d) => worker[d].rq # r /\ d # c
  BY <1>0, <1>1, SMTT(40), SMTT(60) DEF Working
<1>8. Working'
  <2>1. ASSUME NEW d \in Ctx, Active(d)'
        PROVE  LET k == req'[worker'[d].rq]
               IN  /\ worker'[d].rq \in Req /\ k.st = "started"
                   /\ worker'[d].at = "copy" => ~Beyond(k) /\ worker'[d].seg < k.len
                   /\ worker'[d].at = "end" => worker'[d].rv = IF Beyond(k) THEN 5 ELSE 0
                   /\ worker'[d].at = "end" /\ ~Beyond(k) => worker'[d].seg = k.len
    <3>1. CASE d = c
      BY <1>2, <1>3, <1>4, <1>6, <3>1, SMTT(60), SMTT(80) DEF Alike
    <3>2. CASE d # c
      <4>1. Active(d) /\ worker'[d] = worker[d]
        BY <1>3, <2>1, <3>2, SMTT(40), SMTT(60) DEF Active
      <4>2. worker[d].rq \in Req /\ req'[worker[d].rq] = req[worker[d].rq]
        BY <1>0, <1>4, <1>7, <4>1, ZenonT(60) DEF Working
      <4> QED
        BY <1>0, <4>1, <4>2, ZenonT(60) DEF Working
    <3> QED
      BY <3>1, <3>2, ZenonT(60)
  <2>2. ASSUME NEW d \in Ctx, NEW e \in Ctx, Active(d)', Active(e)', worker'[d].rq = worker'[e].rq
        PROVE  d = e
    BY <1>0, <1>2, <1>3, <1>7, <2>2 DEF Working, Active
  <2>3. lab = "ramhd_req" => \A d \in Ctx : worker'[d].at # "end"
    BY <1>0, <1>1, <1>2, <1>3, Zenon DEF Working, Requests
  <2> QED
    BY <2>1, <2>2, <2>3, ZenonT(60) DEF Working
<1>9. Requests'
  BY <1>0, <1>1, <1>4, <1>6 DEF Requests, Alike
<1>10. Busy'
  BY <1>0, <1>1, <1>4 DEF Busy, Checked, Alike
<1>11. Copies'
  <2>1. ASSUME NEW o \in Req, NEW s \in Sector, Copied(o, s)'
        PROVE  Copied(o, s)
    <3>1. s \in Range(req[o]) /\ ~Beyond(req[o])
      BY <1>6, <2>1, ZenonT(60) DEF Copied
    <3>2. CASE req'[o].st = "done"
      BY <1>4, <3>1, <3>2, Zenon DEF Copied
    <3>3. ASSUME NEW d \in Ctx, Active(d)', worker'[d].rq = o, s < req'[o].pos + worker'[d].seg
          PROVE  Copied(o, s)
      <4>1. CASE d = c
        <5>1. s < q.pos + 0 /\ s \in Range(q)
          BY <1>2, <1>3, <1>4, <3>1, <3>3, <4>1, ZenonT(60) DEF Alike
        <5> QED
          BY <1>6, <5>1, SMTT(40), SMTT(60) DEF Range
      <4>2. CASE d # c
        <5>1. Active(d) /\ worker'[d] = worker[d]
          BY <1>3, <3>3, <4>2, Zenon DEF Active
        <5>2. req'[o].pos = req[o].pos
          BY <1>6, SMTT(40), SMTT(60) DEF Alike
        <5> QED
          BY <3>1, <3>3, <5>1, <5>2, SMTT(40), SMTT(60) DEF Copied
      <4> QED
        BY <4>1, <4>2, Zenon
    <3> QED
      BY <2>1, <3>2, <3>3, ZenonT(60) DEF Copied
  <2> QED
    BY <1>0, <1>1, <1>4, <1>6, <2>1, NoCopyLemma, SMTT(40), SMTT(60)
<1> QED
  BY <1>5, <1>8, <1>9, <1>10, <1>11 DEF DiskInv

\* One segment: it lies in the request and in the disk, and the request keeps its place.
LEMMA MemcpyLemma ==
    ASSUME IoType, Working, NEW c \in Ctx, worker[c].at = "copy"
    PROVE  LET r == worker[c].rq
               q == req[r]
               t == Target(c)
               k == Memcpy(c).rq
               d == Memcpy(c).disks
           IN  /\ r \in Req /\ q.st = "started" /\ ~Beyond(q) /\ worker[c].seg < q.len
               /\ t \in Sector /\ t \in Range(q) /\ t = q.pos + worker[c].seg
               /\ k \in Request /\ Alike(k, q) /\ k.st = q.st /\ k.err = q.err
               /\ \A s \in Sector :
                     k.buf[s] = IF ~q.write /\ s = t THEN sectors[q.dev][t] ELSE q.buf[s]
               /\ d \in [Device -> [Sector -> Int]]
               /\ \A i \in Device, s \in Sector :
                     d[i][s] = IF q.write /\ i = q.dev /\ s = t THEN r ELSE sectors[i][s]
<1> DEFINE r == worker[c].rq
           q == req[r]
           t == Target(c)
           k == Memcpy(c).rq
           d == Memcpy(c).disks
<1>1. r \in Req /\ q.st = "started" /\ ~Beyond(q) /\ worker[c].seg < q.len
  BY ZenonT(60) DEF Working, Active
<1>2. /\ q \in Request /\ q.pos \in Nat /\ q.len \in Nat /\ worker[c].seg \in Nat /\ q.dev \in Device
      /\ q.write \in BOOLEAN /\ q.buf \in [Sector -> Int] /\ r \in Int
  BY <1>1, RequestType, WorkerType, Kinds
<1>3. t = q.pos + worker[c].seg
  BY DEF Target
<1> HIDE DEF q, r, t
<1>4. t \in Sector /\ t \in Range(q)
  BY <1>1, <1>2, <1>3, IoAssumption, Inside, Zenon DEF Range, Beyond, Sector
<1>5. sectors \in [Device -> [Sector -> Int]]
  BY DEF IoType
<1>6. /\ k = IF q.write THEN q ELSE [q EXCEPT !.buf[t] = sectors[q.dev][t]]
      /\ d = IF q.write THEN [sectors EXCEPT ![q.dev][t] = r] ELSE sectors
  BY Zenon DEF Memcpy, q, r, t
<1>7. /\ k \in Request /\ Alike(k, q) /\ k.st = q.st /\ k.err = q.err
      /\ \A s \in Sector : k.buf[s] = IF ~q.write /\ s = t THEN sectors[q.dev][t] ELSE q.buf[s]
  <2>1. CASE q.write
    BY <1>2, <1>6, <2>1, Zenon DEF Alike
  <2>2. CASE ~q.write
    <3> DEFINE b == [q.buf EXCEPT ![t] = sectors[q.dev][t]]
    <3>1. k = [q EXCEPT !.buf = b]
      BY <1>6, <2>2
    <3>2. b \in [Sector -> Int] /\ \A s \in Sector : b[s] = IF s = t THEN sectors[q.dev][t] ELSE q.buf[s]
      BY <1>2, <1>4, <1>5
    <3> HIDE DEF b
    <3>3. k \in Request /\ Alike(k, q) /\ k.st = q.st /\ k.err = q.err /\ k.buf = b
      BY <1>2, <3>1, <3>2 DEF Request, Alike
    <3> QED
      BY <2>2, <3>2, <3>3
  <2> QED
    BY <1>2, <2>1, <2>2
<1>8. /\ d \in [Device -> [Sector -> Int]]
      /\ \A i \in Device, s \in Sector :
            d[i][s] = IF q.write /\ i = q.dev /\ s = t THEN r ELSE sectors[i][s]
  BY <1>2, <1>4, <1>5, <1>6
<1> QED
  BY <1>1, <1>3, <1>4, <1>7, <1>8, ZenonT(60) DEF q, r, t

\* After a segment that is not the last of ramhd_req_func(): the worker is behind it.
LEMMA SegmentLemma ==
    ASSUME DriversInv, lab \in BlockModules, lab' = lab, NEW c \in Ctx, worker[c].at = "copy",
           sectors' = Memcpy(c).disks, req' = [req EXCEPT ![worker[c].rq] = Memcpy(c).rq],
           NEW w \in Worker, worker' = [worker EXCEPT ![c] = w],
           w.rq = worker[c].rq, w.seg = worker[c].seg + 1,
           \/ w.at = "copy" /\ ~Last(c)
           \/ w.at = "end" /\ w.rv = 0 /\ Last(c) /\ lab # "ramhd_req",
           UNCHANGED <<mod, held, busy, prior>>
    PROVE  DiskInv'
<1> DEFINE r == worker[c].rq
           q == req[r]
           t == Target(c)
           k == Memcpy(c).rq
<1>0. IoType /\ Working /\ Requests /\ Busy /\ Copies
  BY SMTT(40), SMTT(60) DEF DriversInv, DiskInv
<1>1. /\ r \in Req /\ q.st = "started" /\ ~Beyond(q) /\ worker[c].seg < q.len
      /\ t \in Sector /\ t \in Range(q) /\ t = q.pos + worker[c].seg
      /\ k \in Request /\ Alike(k, q) /\ k.st = q.st /\ k.err = q.err
      /\ \A s \in Sector : k.buf[s] = IF ~q.write /\ s = t THEN sectors[q.dev][t] ELSE q.buf[s]
      /\ sectors' \in [Device -> [Sector -> Int]]
      /\ \A i \in Device, s \in Sector :
            sectors'[i][s] = IF q.write /\ i = q.dev /\ s = t THEN r ELSE sectors[i][s]
  BY <1>0, MemcpyLemma, ZenonT(60)
<1>2. /\ worker[c].seg \in Nat /\ q.len \in Nat /\ q.pos \in Nat /\ t \in Nat
      /\ Last(c) <=> worker[c].seg + 1 = q.len
  BY <1>0, <1>1, RequestType, WorkerType, Kinds, Zenon DEF Last
<1> HIDE DEF k, t
<1>3. worker' \in [Ctx -> Worker] /\ worker'[c] = w /\ \A d \in Ctx \ {c} : worker'[d] = worker[d]
  BY <1>0, WorkerLemma, SMTT(40), SMTT(60) DEF IoType
<1>4. req' \in [Req -> Request] /\ req'[r] = k /\ \A o \in Req \ {r} : req'[o] = req[o]
  BY <1>0, <1>1, ZenonT(60) DEF IoType, k
<1> HIDE DEF r
<1>5. IoType'
  BY <1>0, <1>1, <1>3, <1>4, Zenon DEF IoType
<1>6. \A o \in Req : /\ Alike(req'[o], req[o]) /\ Beyond(req'[o]) = Beyond(req[o])
                     /\ Range(req'[o]) = Range(req[o])
                     /\ req'[o].st = req[o].st /\ req'[o].err = req[o].err
  <2>1. \A o \in Req : Alike(req'[o], req[o]) /\ req'[o].st = req[o].st /\ req'[o].err = req[o].err
    BY <1>1, <1>4, ZenonT(60) DEF Alike
  <2> QED
    BY <2>1, AlikeLemma, SMTT(40), SMTT(60)
<1>7. worker[c].rq = r /\ Active(c) /\ \A d \in Ctx \ {c} : Active(d) => worker[d].rq # r
  BY <1>0, ZenonT(60) DEF Working, Active, r
<1>8. Working'
  <2>1. ASSUME NEW d \in Ctx, Active(d)'
        PROVE  LET x == req'[worker'[d].rq]
               IN  /\ worker'[d].rq \in Req /\ x.st = "started"
                   /\ worker'[d].at = "copy" => ~Beyond(x) /\ worker'[d].seg < x.len
                   /\ worker'[d].at = "end" => worker'[d].rv = IF Beyond(x) THEN 5 ELSE 0
                   /\ worker'[d].at = "end" /\ ~Beyond(x) => worker'[d].seg = x.len
    <3>1. CASE d = c
      <4>1. worker'[d].rq = r /\ req'[r].len = q.len /\ ~Beyond(req'[r]) /\ req'[r].st = "started"
        BY <1>1, <1>3, <1>6, <1>7, <3>1, ZenonT(60) DEF Alike
      <4>2. (w.at = "copy" => w.seg < q.len) /\ (w.at = "end" => w.rv = 0 /\ w.seg = q.len)
        <5>1. worker[c].seg + 1 = q.len \/ worker[c].seg + 1 < q.len
          BY <1>1, <1>2, Counting, Zenon
        <5>2. (Last(c) => w.seg = q.len) /\ (~Last(c) => w.seg < q.len)
          BY <1>2, <5>1, Zenon
        <5> QED
          BY <5>2, Zenon
      <4> QED
        BY <1>1, <1>3, <3>1, <4>1, <4>2, ZenonT(60)
    <3>2. CASE d # c
      <4>1. Active(d) /\ worker'[d] = worker[d]
        BY <1>3, <2>1, <3>2, SMTT(40), SMTT(60) DEF Active
      <4>2. worker[d].rq \in Req /\ req'[worker[d].rq] = req[worker[d].rq]
        BY <1>0, <1>4, <1>7, <3>2, <4>1, ZenonT(60) DEF Working
      <4> QED
        BY <1>0, <4>1, <4>2, ZenonT(60) DEF Working
    <3> QED
      BY <3>1, <3>2, Zenon
  <2>2. ASSUME NEW d \in Ctx, NEW e \in Ctx, Active(d)', Active(e)', worker'[d].rq = worker'[e].rq
        PROVE  d = e
    BY <1>0, <1>3, <1>7, <2>2, ZenonT(60) DEF Working, Active
  <2>3. lab = "ramhd_req" => \A d \in Ctx : worker'[d].at # "end"
    BY <1>0, <1>3, ZenonT(60) DEF Working
  <2> QED
    BY <2>1, <2>2, <2>3, ZenonT(60) DEF Working
<1>9. Requests'
  BY <1>0, <1>6, SMTT(60), SMTT(80) DEF Requests, Alike
<1>10. Busy'
  <2>1. \A o \in Req : req'[o].st = req[o].st /\ req'[o].dev = req[o].dev
    BY <1>6, Zenon DEF Alike
  <2>2. {o \in Req : req'[o].st \in {"queued", "started"}} = {o \in Req : req[o].st \in {"queued", "started"}}
    BY <2>1
  <2>3. lab \in BlockModules => busy \subseteq Req
    BY <1>0, Zenon DEF Busy
  <2> QED
    BY <1>0, <2>1, <2>2, <2>3 DEF Busy, Checked
<1>11. Copies'
  <2>1. ASSUME NEW o \in Req, NEW s \in Sector, Copied(o, s)'
        PROVE  Copied(o, s) \/ (o = r /\ s = t)
    <3>1. s \in Range(req[o]) /\ ~Beyond(req[o])
      BY <1>6, <2>1, SMTT(40), SMTT(60) DEF Copied
    <3>2. CASE req'[o].st = "done"
      BY <1>6, <3>1, <3>2, Zenon DEF Copied
    <3>3. ASSUME NEW d \in Ctx, Active(d)', worker'[d].rq = o, s < req'[o].pos + worker'[d].seg
          PROVE  Copied(o, s) \/ (o = r /\ s = t)
      <4>0. req'[o].pos = req[o].pos /\ s \in Nat
        BY <1>6, Kinds, Zenon DEF Alike
      <4>1. CASE d = c
        <5>1. o = r /\ s < q.pos + (worker[c].seg + 1)
          BY <1>3, <1>7, <3>3, <4>0, <4>1, Zenon
        <5>2. s = t \/ s < q.pos + worker[c].seg
          BY <1>1, <1>2, <4>0, <5>1, Counting, Zenon
        <5> QED
          BY <1>7, <3>1, <5>1, <5>2, Zenon DEF Copied
      <4>2. CASE d # c
        <5>1. Active(d) /\ worker'[d] = worker[d]
          BY <1>3, <3>3, <4>2, SMTT(40), SMTT(60) DEF Active
        <5> QED
          BY <3>1, <3>3, <4>0, <5>1, ZenonT(60) DEF Copied
      <4> QED
        BY <4>1, <4>2, Zenon
    <3> QED
      BY <2>1, <3>2, <3>3, ZenonT(60) DEF Copied
  <2>2. ASSUME NEW o \in Req, NEW s \in Sector
        PROVE  req'[o].buf[s] = IF o = r /\ ~q.write /\ s = t THEN sectors[q.dev][t] ELSE req[o].buf[s]
    <3>1. req'[r].buf[s] = IF ~q.write /\ s = t THEN sectors[q.dev][t] ELSE req[r].buf[s]
      BY <1>1, <1>4, Zenon DEF r
    <3>2. CASE o = r
      BY <3>1, <3>2, Zenon
    <3>3. CASE o # r
      <4>1. req'[o].buf[s] = req[o].buf[s]
        BY <1>4, <3>3, Zenon
      <4> QED
        BY <3>3, <4>1, Zenon
    <3> QED
      BY <3>2, <3>3, Zenon
  <2>3. \A o \in Req : Alike(req'[o], req[o]) /\ (req[o].st = "done" => req'[o].st = "done")
    BY <1>6, Zenon
  <2> QED
    BY <1>0, <1>1, <2>1, <2>2, <2>3, CopyLemma, ZenonT(60)
<1> QED
  BY <1>5, <1>8, <1>9, <1>10, <1>11, Zenon DEF DiskInv

\* The request of the worker c ends, and those in N are fetched.
Finished(c, N) ==
    req' = [o \in Req |-> IF o = worker[c].rq THEN [Memcpy(c).rq EXCEPT !.st = "done"]
                             ELSE IF o \in N THEN [req[o] EXCEPT !.st = "started"] ELSE req[o]]

\* The last segment of a request in ramhd_req_func(): the request ends, and the worker
\* returns or has fetched the request n.
LEMMA ServedLemma ==
    ASSUME DriversInv, lab = "ramhd_req", lab' = lab, NEW c \in Ctx, worker[c].at = "copy", Last(c),
           sectors' = Memcpy(c).disks, busy' = busy \ {worker[c].rq},
           NEW N \in SUBSET Req, \A n \in N : req[n].st = "queued",
           Finished(c, N),
           NEW w \in Worker, worker' = [worker EXCEPT ![c] = w],
           \/ N = {} /\ w.at = "out"
           \/ w.at = "copy" /\ N = {w.rq} /\ w.seg = 0,
           UNCHANGED <<mod, held, prior>>
    PROVE  DiskInv'
<1> DEFINE r == worker[c].rq
           q == req[r]
           t == Target(c)
           k == Memcpy(c).rq
<1>0. IoType /\ Working /\ Requests /\ Busy /\ Copies
  BY ZenonT(60) DEF DriversInv, DiskInv
<1>1. /\ r \in Req /\ q.st = "started" /\ ~Beyond(q) /\ worker[c].seg < q.len
      /\ t \in Sector /\ t \in Range(q) /\ t = q.pos + worker[c].seg
      /\ k \in Request /\ Alike(k, q) /\ k.st = q.st /\ k.err = q.err
      /\ \A s \in Sector : k.buf[s] = IF ~q.write /\ s = t THEN sectors[q.dev][t] ELSE q.buf[s]
      /\ sectors' \in [Device -> [Sector -> Int]]
      /\ \A i \in Device, s \in Sector :
            sectors'[i][s] = IF q.write /\ i = q.dev /\ s = t THEN r ELSE sectors[i][s]
  <2> DEFINE d == Memcpy(c).disks
  <2>1. /\ r \in Req /\ q.st = "started" /\ ~Beyond(q) /\ worker[c].seg < q.len
        /\ t \in Sector /\ t \in Range(q) /\ t = q.pos + worker[c].seg
        /\ k \in Request /\ Alike(k, q) /\ k.st = q.st /\ k.err = q.err
        /\ \A s \in Sector : k.buf[s] = IF ~q.write /\ s = t THEN sectors[q.dev][t] ELSE q.buf[s]
        /\ d \in [Device -> [Sector -> Int]]
        /\ \A i \in Device, s \in Sector :
              d[i][s] = IF q.write /\ i = q.dev /\ s = t THEN r ELSE sectors[i][s]
    BY <1>0, MemcpyLemma, ZenonT(60)
  <2>2. sectors' = d
    BY Zenon
  <2> HIDE DEF d, k, t, q, r
  <2> QED
    BY <2>1, <2>2
<1>2. worker[c].seg \in Nat /\ q.pos \in Nat /\ worker[c].seg + 1 = q.len
  BY <1>0, <1>1, RequestType, WorkerType, Zenon DEF Last
<1> HIDE DEF k, t
<1>3. worker' \in [Ctx -> Worker] /\ worker'[c] = w /\ \A d \in Ctx \ {c} : worker'[d] = worker[d]
  BY <1>0, WorkerLemma DEF IoType
<1>4. r \notin N /\ worker[c].rq = r /\ Active(c) /\ \A d \in Ctx \ {c} : Active(d) => worker[d].rq # r
  BY <1>0, <1>1, ZenonT(60) DEF Working, Active
<1> DEFINE kd == [k EXCEPT !.st = "done"]
           st(o) == [req[o] EXCEPT !.st = "started"]
<1>5. kd \in Request /\ Alike(kd, q) /\ kd.st = "done" /\ kd.err = q.err /\ kd.buf = k.buf
  BY <1>1, Zenon DEF Request, Alike
<1>6. \A o \in Req : /\ st(o) \in Request /\ Alike(st(o), req[o]) /\ st(o).st = "started"
                     /\ st(o).err = req[o].err /\ st(o).buf = req[o].buf
  BY <1>0, RequestType, ZenonT(60) DEF Request, Alike
<1>7. req' = [o \in Req |-> IF o = r THEN kd ELSE IF o \in N THEN st(o) ELSE req[o]]
  BY SMTT(40), SMTT(60) DEF k, Finished
<1> HIDE DEF r, kd, st
<1>8. /\ req' \in [Req -> Request] /\ req'[r] = kd
      /\ \A o \in N : req'[o] = st(o)
      /\ \A o \in Req \ (N \cup {r}) : req'[o] = req[o]
  BY <1>0, <1>1, <1>4, <1>5, <1>6, <1>7, RequestType, ZenonT(60) DEF IoType
<1>9. IoType'
  BY <1>0, <1>1, <1>3, <1>8, ZenonT(60) DEF IoType
<1>10. \A o \in Req : /\ Alike(req'[o], req[o]) /\ Beyond(req'[o]) = Beyond(req[o])
                      /\ Range(req'[o]) = Range(req[o]) /\ req'[o].err = req[o].err
                      /\ (o # r => req'[o].buf = req[o].buf)
  <2>1. \A o \in Req : /\ Alike(req'[o], req[o]) /\ req'[o].err = req[o].err
                       /\ (o # r => req'[o].buf = req[o].buf)
    BY <1>5, <1>6, <1>8, ZenonT(60) DEF Alike
  <2> QED
    BY <2>1, AlikeLemma, ZenonT(60)
<1>11. \A o \in Req : req'[o].st = IF o = r THEN "done" ELSE IF o \in N THEN "started" ELSE req[o].st
  BY <1>5, <1>6, <1>8, Zenon
<1>12. \A d \in Ctx \ {c} : Active(d) => worker[d].rq \in Req \ (N \cup {r})
  BY <1>0, <1>4, ZenonT(60) DEF Working
<1>13. Working'
  <2>1. ASSUME NEW d \in Ctx, Active(d)'
        PROVE  LET x == req'[worker'[d].rq]
               IN  /\ worker'[d].rq \in Req /\ x.st = "started"
                   /\ worker'[d].at = "copy" => ~Beyond(x) /\ worker'[d].seg < x.len
                   /\ worker'[d].at = "end" => worker'[d].rv = IF Beyond(x) THEN 5 ELSE 0
                   /\ worker'[d].at = "end" /\ ~Beyond(x) => worker'[d].seg = x.len
    <3>1. CASE d = c
      <4>1. w.at = "copy" /\ w.rq \in N /\ w.seg = 0
        BY <1>3, <2>1, <3>1, ZenonT(60) DEF Active
      <4>2. ~Beyond(req[w.rq]) /\ req[w.rq].len \in 1 .. Sectors /\ w.rq \in Req
        BY <1>0, <4>1, ZenonT(60) DEF Requests
      <4>3. ~Beyond(req'[w.rq]) /\ req'[w.rq].len \in 1 .. Sectors /\ req'[w.rq].st = "started"
        BY <1>4, <1>10, <1>11, <4>1, <4>2, ZenonT(60) DEF Alike
      <4>4. w.seg < req'[w.rq].len
        BY <4>1, <4>3, SMTT(40), SMTT(60)
      <4> QED
        BY <1>3, <3>1, <4>1, <4>2, <4>3, <4>4, ZenonT(60)
    <3>2. CASE d # c
      <4>1. Active(d) /\ worker'[d] = worker[d]
        BY <1>3, <2>1, <3>2, Zenon DEF Active
      <4>2. worker[d].rq \in Req /\ req'[worker[d].rq] = req[worker[d].rq]
        BY <1>8, <1>12, <3>2, <4>1, Zenon
      <4> QED
        BY <1>0, <4>1, <4>2, ZenonT(60) DEF Working
    <3> QED
      BY <3>1, <3>2, ZenonT(60)
  <2>2. ASSUME NEW d \in Ctx, NEW e \in Ctx, Active(d)', Active(e)', worker'[d].rq = worker'[e].rq
        PROVE  d = e
    <3>1. CASE d # c /\ e # c
      BY <1>0, <1>3, <2>2, <3>1, ZenonT(60) DEF Working, Active
    <3>2. ASSUME NEW x \in Ctx \ {c}, Active(x)', Active(c)'
          PROVE  worker'[x].rq # worker'[c].rq
      <4>1. worker'[c].rq \in N
        BY <1>3, <3>2, Zenon DEF Active
      <4>2. Active(x) /\ worker'[x] = worker[x]
        BY <1>3, <3>2, Zenon DEF Active
      <4> QED
        BY <1>12, <4>1, <4>2, Zenon
    <3> QED
      BY <2>2, <3>1, <3>2, SMTT(40), SMTT(60)
  <2>3. \A d \in Ctx : worker'[d].at # "end"
    BY <1>0, <1>3, Zenon DEF Working
  <2>4. lab \in BlockModules
    BY Kinds, Zenon
  <2> QED
    BY <2>1, <2>2, <2>3, <2>4, ZenonT(60) DEF Working
<1>14. Requests'
  <2>1. ASSUME NEW o \in Req
        PROVE  /\ req'[o].st = "idle" => ~req'[o].write
               /\ req'[o].st \in {"idle", "queued", "started"} => req'[o].err = 0
               /\ req'[o].st # "idle" => req'[o].pos \in Sector /\ req'[o].len \in 1 .. Sectors
               /\ req'[o].st # "idle" /\ lab = "ramhd_req" => ~Beyond(req'[o])
               /\ req'[o].st = "done" => req'[o].err = IF Beyond(req'[o]) THEN 5 ELSE 0
    <3>1. CASE o = r
      BY <1>0, <1>1, <1>10, <1>11, <3>1, ZenonT(60) DEF Requests, Alike
    <3>2. CASE o \in N
      BY <1>0, <1>4, <1>10, <1>11, <3>2, ZenonT(60) DEF Requests, Alike
    <3>3. CASE o # r /\ o \notin N
      BY <1>0, <1>10, <1>11, <3>3, ZenonT(60) DEF Requests, Alike
    <3> QED
      BY <3>1, <3>2, <3>3, Zenon
  <2> QED
    BY <2>1, Zenon DEF Requests
<1>15. Busy'
  <2>1. lab \in BlockModules
    BY Kinds
  <2>2. busy' = {o \in Req : req'[o].st \in {"queued", "started"}}
    BY <1>0, <1>1, <1>4, <1>11, <2>1, ZenonT(60) DEF Busy
  <2>3. \A o \in Req : req'[o].dev = req[o].dev
    BY <1>10, Zenon DEF Alike
  <2> QED
    BY <1>0, <1>4, <2>1, <2>2, <2>3, Zenon DEF Busy, Checked
<1>16. Copies'
  <2>1. ASSUME NEW o \in Req, NEW s \in Sector, Copied(o, s)'
        PROVE  Copied(o, s) \/ (o = r /\ s = t)
    <3>1. s \in Range(req[o]) /\ ~Beyond(req[o]) /\ s \in Nat /\ req'[o].pos = req[o].pos
      BY <1>10, <2>1, Kinds, ZenonT(60) DEF Copied, Alike
    <3>2. CASE o = r
      <4>1. s = t \/ s < q.pos + worker[c].seg
        <5>1. s < q.pos + q.len /\ q.pos \in Nat /\ worker[c].seg \in Nat
          <6> DEFINE a == req[r]
          <6>1. s \in a.pos .. a.pos + a.len - 1 /\ a.pos \in Nat /\ a.len \in Nat /\ s \in Nat
            BY <1>0, <1>1, <3>1, <3>2, RequestType, Zenon DEF Range
          <6> HIDE DEF a
          <6>2. s < a.pos + a.len
            BY <6>1
          <6> QED
            BY <1>2, <6>1, <6>2, Zenon DEF a
        <5> QED
          BY <1>1, <1>2, <3>1, <5>1, Counting, Zenon
      <4> QED
        BY <1>4, <3>1, <3>2, <4>1, ZenonT(60) DEF Copied
    <3>3. CASE o # r /\ req'[o].st = "done"
      BY <1>11, <3>1, <3>3, Zenon DEF Copied
    <3>4. ASSUME o # r, NEW d \in Ctx, Active(d)', worker'[d].rq = o, s < req'[o].pos + worker'[d].seg
          PROVE  Copied(o, s)
      <4>1. CASE d = c
        <5>1. w.seg = 0 /\ w.rq = o
          BY <1>3, <3>4, <4>1, ZenonT(60) DEF Active
        <5>2. s < req[o].pos + 0 /\ req[o].pos \in Nat /\ req[o].len \in Nat
          BY <1>0, <1>3, <3>1, <3>4, <4>1, <5>1, RequestType, ZenonT(60)
        <5> QED
          BY <3>1, <5>2, SMTT(40), SMTT(60) DEF Range
      <4>2. CASE d # c
        <5>1. Active(d) /\ worker'[d] = worker[d]
          BY <1>3, <3>4, <4>2, ZenonT(60) DEF Active
        <5> QED
          BY <3>1, <3>4, <5>1, ZenonT(60) DEF Copied
      <4> QED
        BY <4>1, <4>2, ZenonT(60)
    <3> QED
      BY <2>1, <3>2, <3>3, <3>4, ZenonT(60) DEF Copied
  <2>2. \A o \in Req, s \in Sector :
           req'[o].buf[s] = IF o = r /\ ~q.write /\ s = t THEN sectors[q.dev][t] ELSE req[o].buf[s]
    <3>1. \A s \in Sector :
             req'[r].buf[s] = IF ~q.write /\ s = t THEN sectors[q.dev][t] ELSE req[r].buf[s]
      BY <1>1, <1>5, <1>8, ZenonT(60)
    <3>2. \A o \in Req : o # r => req'[o].buf = req[o].buf
      BY <1>10, Zenon
    <3> QED
      BY <3>1, <3>2, ZenonT(60)
  <2>3. \A o \in Req : Alike(req'[o], req[o]) /\ (req[o].st = "done" => req'[o].st = "done")
    BY <1>10, <1>11, Zenon
  <2> QED
    BY <1>0, <1>1, <2>1, <2>2, <2>3, CopyLemma, ZenonT(60)
<1> QED
  BY <1>9, <1>13, <1>14, <1>15, <1>16, Zenon DEF DiskInv

\* The end of a request: its status is that of its own copy.
LEMMA EndLemma ==
    ASSUME DriversInv, lab \in BlockModules, NEW c \in Ctx, end_request(c)
    PROVE  DiskInv'
<1> DEFINE r == worker[c].rq
           q == req[r]
           k == [q EXCEPT !.st = "done", !.err = worker[c].rv]
           w == IF lab = "sample_blk" THEN [Out EXCEPT !.at = "loop", !.rv = worker[c].rv] ELSE Out
<1>0. IoType /\ Working /\ Requests /\ Busy /\ Copies
  BY DEF DriversInv, DiskInv
<1>1. /\ worker[c].at = "end" /\ busy' = busy \ {r} /\ worker' = [worker EXCEPT ![c] = w]
      /\ req' = [req EXCEPT ![r].st = "done", ![r].err = worker[c].rv]
      /\ UNCHANGED <<lab, mod, held, sectors, prior>>
  BY Zenon DEF end_request
<1>2. /\ r \in Req /\ q.st = "started" /\ worker[c].rv = IF Beyond(q) THEN 5 ELSE 0
      /\ ~Beyond(q) => worker[c].seg = q.len
      /\ \A d \in Ctx \ {c} : Active(d) => worker[d].rq # r
  BY <1>0, <1>1 DEF Working, Active
<1>3. w \in Worker /\ w.at \in {"out", "loop"}
  <2>1. worker[c].rv \in {0, 5}
    BY <1>0, WorkerType
  <2>2. Out \in Worker /\ Out.at = "out"
    BY DEF Out, Worker
  <2>3. /\ [Out EXCEPT !.at = "loop", !.rv = worker[c].rv] \in Worker
        /\ [Out EXCEPT !.at = "loop", !.rv = worker[c].rv].at = "loop"
    BY <2>1, <2>2, Zenon DEF Worker
  <2> QED
    BY <2>2, <2>3
<1> HIDE DEF w
<1>4. worker' \in [Ctx -> Worker] /\ worker'[c] = w /\ \A d \in Ctx \ {c} : worker'[d] = worker[d]
  BY <1>0, <1>1, <1>3, WorkerLemma, ZenonT(60) DEF IoType
<1>5. \A d \in Ctx : Active(d)' => d # c /\ Active(d)
  BY <1>3, <1>4 DEF Active
<1>6. k \in Request /\ Alike(k, q) /\ k.st = "done" /\ k.err = worker[c].rv /\ k.buf = q.buf
  BY <1>0, <1>2, RequestType, WorkerType, ZenonT(60) DEF Request, Alike
<1>7. req' = [req EXCEPT ![r] = k]
  BY <1>0, <1>1, <1>2, Zenon DEF IoType
<1> HIDE DEF k
<1>8. req' \in [Req -> Request] /\ req'[r] = k /\ \A o \in Req \ {r} : req'[o] = req[o]
  BY <1>0, <1>2, <1>6, <1>7, Zenon DEF IoType
<1>9. IoType'
  BY <1>0, <1>1, <1>4, <1>8, SMTT(40), SMTT(60) DEF IoType
<1>10. \A o \in Req : /\ Alike(req'[o], req[o]) /\ Beyond(req'[o]) = Beyond(req[o])
                      /\ Range(req'[o]) = Range(req[o]) /\ req'[o].buf = req[o].buf
                      /\ req'[o].pos = req[o].pos
  <2>1. \A o \in Req : Alike(req'[o], req[o]) /\ req'[o].buf = req[o].buf
    BY <1>6, <1>8 DEF Alike
  <2> QED
    BY <2>1, AlikeLemma, ZenonT(60) DEF Alike
<1> HIDE DEF r
<1>11. Working'
  <2>1. \A d \in Ctx : Active(d)' => /\ worker'[d] = worker[d] /\ worker[d].rq \in Req
                                     /\ req'[worker[d].rq] = req[worker[d].rq]
    BY <1>0, <1>2, <1>4, <1>5, <1>8, ZenonT(60) DEF Working
  <2>2. lab = "ramhd_req" => \A d \in Ctx : worker'[d].at # "end"
    BY <1>0, <1>3, <1>4, ZenonT(60) DEF Working
  <2>3. ASSUME NEW d \in Ctx, Active(d)'
        PROVE  LET x == req'[worker'[d].rq]
               IN  /\ worker'[d].rq \in Req /\ x.st = "started"
                   /\ worker'[d].at = "copy" => ~Beyond(x) /\ worker'[d].seg < x.len
                   /\ worker'[d].at = "end" => worker'[d].rv = IF Beyond(x) THEN 5 ELSE 0
                   /\ worker'[d].at = "end" /\ ~Beyond(x) => worker'[d].seg = x.len
    BY <1>0, <1>5, <2>1, <2>3, SMTT(60), SMTT(80) DEF Working
  <2>4. \A d, e \in Ctx : Active(d)' /\ Active(e)' /\ worker'[d].rq = worker'[e].rq => d = e
    BY <1>0, <1>5, <2>1, Zenon DEF Working
  <2> QED
    BY <1>1, <2>2, <2>3, <2>4, Zenon DEF Working
<1>12. Requests'
  BY <1>0, <1>1, <1>2, <1>6, <1>8, <1>10, SMTT(40), SMTT(60) DEF Requests, Alike
<1>13. Busy'
  BY <1>0, <1>1, <1>2, <1>6, <1>8 DEF Busy, Checked, Alike
<1>14. Copies'
  <2>1. ASSUME NEW o \in Req, NEW s \in Sector, Copied(o, s)'
        PROVE  Copied(o, s)
    <3>1. s \in Range(req[o]) /\ ~Beyond(req[o]) /\ s \in Nat
      BY <1>10, <2>1, Kinds, Zenon DEF Copied
    <3>2. CASE o = r
      <4>1. s < q.pos + worker[c].seg /\ Active(c) /\ worker[c].rq = o
        <5>1. q.pos \in Nat /\ q.len \in Nat /\ worker[c].seg = q.len
          BY <1>0, <1>2, <3>1, <3>2, RequestType, Zenon
        <5> QED
          BY <1>1, <3>1, <3>2, <5>1, SMTT(40), SMTT(60) DEF Range, Active, r
      <4> QED
        BY <3>1, <3>2, <4>1, ZenonT(60) DEF Copied
    <3>3. CASE o # r /\ req'[o].st = "done"
      BY <1>8, <3>1, <3>3, Zenon DEF Copied
    <3>4. ASSUME NEW d \in Ctx, Active(d)', worker'[d].rq = o, s < req'[o].pos + worker'[d].seg
          PROVE  Copied(o, s)
      BY <1>4, <1>5, <1>10, <3>1, <3>4, ZenonT(60) DEF Copied
    <3> QED
      BY <2>1, <3>2, <3>3, <3>4, Zenon DEF Copied
  <2>2. \A o \in Req : req[o].st = "done" => req'[o].st = "done"
    BY <1>6, <1>8
  <2> QED
    BY <1>0, <1>1, <1>10, <2>1, <2>2, NoCopyLemma, ZenonT(60)
<1> QED
  BY <1>9, <1>11, <1>12, <1>13, <1>14 DEF DiskInv

\* sampleblk_request() returns.
LEMMA LeaveLemma ==
    ASSUME DriversInv, NEW c \in Ctx, sampleblk_return(c)
    PROVE  DiskInv'
<1>0. IoType /\ Working /\ Requests /\ Busy /\ Copies
  BY DEF DriversInv, DiskInv
<1>1. /\ worker[c].at = "loop" /\ worker' = [worker EXCEPT ![c] = Out]
      /\ UNCHANGED <<lab, mod, held, busy, sectors, req, prior>>
  BY DEF sampleblk_return
<1>2. Out \in Worker /\ Out.at = "out"
  BY DEF Out, Worker
<1>3. worker' \in [Ctx -> Worker] /\ worker'[c] = Out /\ \A d \in Ctx \ {c} : worker'[d] = worker[d]
  BY <1>0, <1>1, <1>2, WorkerLemma, Zenon DEF IoType
<1>4. \A d \in Ctx : /\ Active(d)' <=> Active(d)
                     /\ Active(d) => worker'[d] = worker[d]
                     /\ worker'[d].at # worker[d].at => worker'[d].at = "out"
  BY <1>1, <1>2, <1>3, SMTT(40), SMTT(60) DEF Active
<1>5. IoType'
  BY <1>0, <1>1, <1>3, SMTT(40), SMTT(60) DEF IoType
<1>6. Working'
  <2>1. ASSUME NEW d \in Ctx, Active(d)'
        PROVE  LET x == req'[worker'[d].rq]
               IN  /\ worker'[d].rq \in Req /\ x.st = "started"
                   /\ worker'[d].at = "copy" => ~Beyond(x) /\ worker'[d].seg < x.len
                   /\ worker'[d].at = "end" => worker'[d].rv = IF Beyond(x) THEN 5 ELSE 0
                   /\ worker'[d].at = "end" /\ ~Beyond(x) => worker'[d].seg = x.len
    BY <1>0, <1>1, <1>4, <2>1, SMTT(60), SMTT(80) DEF Working
  <2>2. \A d, e \in Ctx : Active(d)' /\ Active(e)' /\ worker'[d].rq = worker'[e].rq => d = e
    BY <1>0, <1>4, ZenonT(60) DEF Working
  <2>3. /\ lab = "ramhd_req" => \A d \in Ctx : worker'[d].at # "end"
        /\ lab \notin BlockModules => \A d \in Ctx : worker'[d].at = "out"
    BY <1>0, <1>4, SMTT(40), SMTT(60) DEF Working
  <2> QED
    BY <1>1, <2>1, <2>2, <2>3, ZenonT(60) DEF Working
<1>7. Requests' /\ Busy'
  BY <1>0, <1>1, ZenonT(60) DEF Requests, Busy, Checked, Beyond
<1>8. Copies'
  <2>1. \A o \in Req, s \in Sector : Copied(o, s)' => Copied(o, s)
    BY <1>1, <1>4, Zenon DEF Copied
  <2>2. \A o \in Req : Alike(req'[o], req[o]) /\ req'[o] = req[o]
    BY <1>1 DEF Alike
  <2> QED
    BY <1>0, <1>1, <2>1, <2>2, NoCopyLemma, SMTT(40), SMTT(60)
<1> QED
  BY <1>5, <1>6, <1>7, <1>8 DEF DiskInv

\* A request is accepted for a disk that is there, and so is its buffer.
LEMMA SubmitStep ==
    ASSUME DriversInv, lab \in BlockModules, NEW r \in Req, submit_bio(r)
    PROVE  DiskInv'
<1>0. IoType /\ Working /\ Requests /\ Busy /\ Copies /\ Buffers
  BY SMTT(40), SMTT(60) DEF DriversInv, DiskInv
<1> DEFINE New(i, v, p, n) == [IdleReq EXCEPT !.st = "queued", !.dev = i, !.write = v, !.pos = p, !.len = n]
<1>1. PICK i \in Device, v \in BOOLEAN, p \in Sector, n \in 1 .. Sectors :
         /\ mod.at \in {"init", "loaded"} /\ disk(i) \in held
         /\ req[r].st = "idle" /\ (lab = "ramhd_req" => ~Beyond(New(i, v, p, n)))
         /\ req' = [req EXCEPT ![r] = New(i, v, p, n)] /\ busy' = busy \cup {r}
         /\ prior' = [prior EXCEPT ![r] = {o \in Req : req[o].st = "done"}]
         /\ UNCHANGED <<lab, mod, held, sectors, worker>>
  BY ZenonT(60) DEF submit_bio
<1> DEFINE k == New(i, v, p, n)
<1>2. /\ k \in Request /\ k.st = "queued" /\ k.dev = i /\ k.pos = p /\ k.len = n /\ k.err = 0
  <2>1. IdleReq \in Request /\ IdleReq.err = 0
    BY DEF IdleReq, Request, Blank, Zero, Device
  <2>2. p \in Nat /\ n \in Nat
    BY Kinds, IoAssumption
  <2> QED
    BY <2>1, <2>2, Zenon DEF Request
<1> HIDE DEF New, k
<1>3. req' \in [Req -> Request] /\ req'[r] = k /\ \A o \in Req \ {r} : req'[o] = req[o]
  BY <1>0, <1>1, <1>2 DEF IoType, k
<1>4. /\ prior' \in [Req -> SUBSET Req] /\ prior'[r] = {o \in Req : req[o].st = "done"}
      /\ \A o \in Req \ {r} : prior'[o] = prior[o]
  BY <1>0, <1>1, SMTT(40), SMTT(60) DEF IoType
<1>5. \A d \in Ctx : (Active(d)' <=> Active(d)) /\ (Active(d) => worker[d].rq \in Req \ {r})
  BY <1>0, <1>1, Zenon DEF Working, Active
<1>6. IoType'
  BY <1>0, <1>1, <1>3, <1>4, ZenonT(60) DEF IoType
<1>7. Working'
  BY <1>0, <1>1, <1>3, <1>5, ZenonT(60) DEF Working
<1>8. Requests'
  <2>1. k.pos \in Sector /\ k.len \in 1 .. Sectors /\ (lab = "ramhd_req" => ~Beyond(k))
    BY <1>1, <1>2, Zenon DEF k
  <2> QED
    BY <1>0, <1>1, <1>2, <1>3, <2>1, Zenon DEF Requests
<1>9. Busy'
  <2>1. i \in {0, 1} /\ disk(0) = "disk0" /\ disk(1) = "disk1" /\ sdisk(0) = "sdisk0" /\ sdisk(1) = "sdisk1"
    BY Names
  <2>2. lab \in {"sample_blk", "ramhd_mkreq", "ramhd_req"}
    BY Kinds, Zenon
  <2>3. ~(mod.at \in {"exit", "gone"} \/ (lab = "sample_blk" /\ mod.at = "init"))
    BY <1>0, <1>1, <2>1 DEF Buffers
  <2>4. Checked => sdisk(i) \in held
    <3>1. CASE lab = "sample_blk"
      BY <1>0, <1>1, <2>1, <2>3, <3>1, ZenonT(60) DEF Buffers
    <3>2. CASE lab \in {"ramhd_mkreq", "ramhd_req"}
      <4>1. mod.ip \in Nat
        BY DEF DriversInv, Mod
      <4> QED
        BY <1>0, <1>1, <2>1, <3>2, <4>1, SMTT(40), SMTT(60) DEF Buffers
    <3> QED
      BY <2>2, <3>1, <3>2, Zenon
  <2>5. busy' = {o \in Req : req'[o].st \in {"queued", "started"}}
    BY <1>0, <1>1, <1>2, <1>3, Zenon DEF Busy
  <2>6. Checked' = Checked /\ sdisk(req'[r].dev) = sdisk(i)
    BY <1>1, <1>2, <1>3, Zenon DEF Checked
  <2> QED
    BY <1>0, <1>1, <1>3, <2>3, <2>4, <2>5, <2>6, ZenonT(60) DEF Busy
<1>10. Copies'
  <2>1. ASSUME NEW o \in Req, NEW s \in Sector, Copied(o, s)'
        PROVE  o # r /\ Copied(o, s)
    BY <1>1, <1>2, <1>3, <1>5, <2>1, ZenonT(60) DEF Copied
  <2>2. ~req[r].write
    BY <1>0, <1>1, Zenon DEF Requests
  <2> QED
    BY <1>0, <1>1, <1>2, <1>3, <1>4, <2>1, <2>2, SubmitLemma, ZenonT(60)
<1> QED
  BY <1>6, <1>7, <1>8, <1>9, <1>10, Zenon DEF DiskInv

\* ramhd_req_func() copies a segment.
LEMMA ReqFuncLemma ==
    ASSUME DriversInv, lab \in BlockModules, lab' = lab, NEW c \in Ctx, ramhd_req_func(c)
    PROVE  DiskInv'
<1>0. IoType /\ Working /\ Requests /\ Busy /\ Copies
  BY DEF DriversInv, DiskInv
<1> DEFINE r == worker[c].rq
           k == Memcpy(c).rq
           more == Pending(req[r].dev)
<1>1. /\ lab = "ramhd_req" /\ worker[c].at = "copy" /\ sectors' = Memcpy(c).disks
      /\ UNCHANGED <<mod, held, prior>>
  BY SMTT(40), SMTT(60) DEF ramhd_req_func
<1>2. r \in Req /\ req[r].st = "started" /\ req \in [Req -> Request] /\ k \in Request
  BY <1>0, <1>1, MemcpyLemma, Zenon DEF IoType
<1>3. CASE /\ ~Last(c) /\ req' = [req EXCEPT ![r] = k]
           /\ worker' = [worker EXCEPT ![c].seg = @ + 1] /\ UNCHANGED busy
  <2> DEFINE w == [worker[c] EXCEPT !.seg = @ + 1]
  <2>1. worker' = [worker EXCEPT ![c] = w]
    BY <1>0, <1>3 DEF IoType
  <2>2. w \in Worker /\ w.rq = worker[c].rq /\ w.seg = worker[c].seg + 1 /\ w.at = "copy"
    BY <1>0, <1>1, WorkerType DEF Worker
  <2> HIDE DEF w
  <2> QED
    BY <1>1, <1>3, <2>1, <2>2, SegmentLemma, Zenon
<1>4. CASE /\ Last(c) /\ busy' = busy \ {r}
           /\ req' = [req EXCEPT ![r] = [k EXCEPT !.st = "done"]] /\ worker' = [worker EXCEPT ![c] = Out]
  <2>1. Out \in Worker /\ Out.at = "out"
    BY DEF Out, Worker
  <2>2. Finished(c, {})
    BY <1>2, <1>4, Zenon DEF Finished
  <2> QED
    BY <1>1, <1>4, <2>1, <2>2, ServedLemma, Zenon
<1>5. ASSUME Last(c), busy' = busy \ {r}, NEW n \in more,
             req' = [req EXCEPT ![r] = [k EXCEPT !.st = "done"], ![n].st = "started"],
             worker' = [worker EXCEPT ![c] = Started(c, n, 0)]
      PROVE  DiskInv'
  <2>1. n \in Req /\ req[n].st = "queued" /\ n # r
    BY <1>2, <1>5, SMTT(40), SMTT(60) DEF Pending
  <2>2. ~Beyond(req[n]) /\ n \in Int
    BY <1>0, <1>1, <2>1, Kinds, ZenonT(60) DEF Requests
  <2> DEFINE w == Started(c, n, 0)
  <2>3. w \in Worker /\ w.at = "copy" /\ w.rq = n /\ w.seg = 0
    BY <2>2 DEF Started, Worker
  <2> HIDE DEF w
  <2>4. Finished(c, {n})
    <3> DEFINE kd == [k EXCEPT !.st = "done"]
               f  == [req EXCEPT ![r] = kd]
    <3> HIDE DEF kd
    <3>1. f[n] = req[n] /\ f \in [Req -> Request \cup {kd}]
      BY <1>2, <2>1
    <3>2. req' = [f EXCEPT ![n] = [req[n] EXCEPT !.st = "started"]]
      BY <1>5, <3>1, Zenon DEF kd
    <3> QED
      BY <1>2, <2>1, <3>1, <3>2, ZenonT(60) DEF Finished, kd
  <2> QED
    BY <1>1, <1>5, <2>1, <2>3, <2>4, ServedLemma, Zenon DEF w
<1> QED
  BY <1>3, <1>4, <1>5, SMT, Zenon, SMTT(40) DEF ramhd_req_func

\* The block layer and the request functions keep the invariant.
LEMMA IoKeeps ==
    ASSUME DriversInv, IoNext, UNCHANGED <<kobjVars, pollVars>>
    PROVE  DriversInv'
<1>0. /\ lab \in LoadModules /\ mod \in Mod /\ Buffers /\ DiskInv /\ Objects /\ Stores /\ Polls
  BY DEF DriversInv
<1>1. UNCHANGED <<flag, suppress, store, fd, state, wq, call, owed>>
  BY DEF kobjVars, pollVars
<1>2. lab \in BlockModules
  BY Kinds DEF IoNext
<1>3. lab' = lab /\ held' = held /\ (mod' = mod \/ mod' = [mod EXCEPT !.at = "misuse"])
  BY ZenonT(60) DEF IoNext, submit_bio, Work, Begin, handle_io, end_request, sampleblk_return,
         req_func_enter, ramhd_req_func, Fault
<1>4. mod' \in Mod /\ (mod' = mod \/ mod'.at = "misuse") /\ mod'.failed = mod.failed
  BY <1>0, <1>3 DEF Mod
<1>5. Buffers'
  BY <1>0, <1>3, <1>4 DEF Buffers, Checked
<1>6. Objects'
  BY <1>0, <1>2, <1>3, Kinds, SMTT(40), SMTT(60) DEF Objects
<1>7. Stores'
  BY <1>0, <1>1 DEF Stores
<1>8. Polls'
  BY <1>0, <1>1, <1>3 DEF Polls, Polling
<1>9. DiskInv'
  <2>0. IoType /\ Working /\ Requests /\ Busy /\ Copies
    BY <1>0 DEF DiskInv
  <2>1. ASSUME NEW r \in Req, submit_bio(r)
        PROVE  DiskInv'
    BY <1>2, <2>1, SubmitStep
  <2>2. ASSUME NEW c \in Ctx, Begin(c) \/ req_func_enter(c)
        PROVE  DiskInv'
    <3>1. /\ ~Active(c) /\ UNCHANGED <<mod, held, busy, sectors, prior>>
          /\ \E r \in Req : Fetch(c, r)
      BY <2>2, Zenon DEF Begin, req_func_enter, Pending, Active
    <3> QED
      BY <1>2, <1>3, <3>1, FetchLemma, SMTT(40), SMTT(60)
  <2>3. ASSUME NEW c \in Ctx, handle_io(c)
        PROVE  DiskInv'
    <3> DEFINE a == IF Last(c) THEN "end" ELSE "copy"
               w == [worker[c] EXCEPT !.at = a, !.seg = @ + 1, !.rv = 0]
    <3>1. /\ worker[c].at = "copy" /\ lab # "ramhd_req" /\ sectors' = Memcpy(c).disks
          /\ req' = [req EXCEPT ![worker[c].rq] = Memcpy(c).rq]
          /\ UNCHANGED <<mod, held, busy, prior>>
      BY <2>3 DEF handle_io
    <3>2. worker' = [worker EXCEPT ![c] = w]
      BY <2>0, <2>3, Zenon DEF handle_io, IoType
    <3>3. /\ w \in Worker /\ w.rq = worker[c].rq /\ w.seg = worker[c].seg + 1 /\ w.rv = 0
          /\ w.at = a
      <4>1. a \in {"end", "copy"}
        OBVIOUS
      <4> HIDE DEF a
      <4>2. worker[c] \in Worker /\ worker[c].seg + 1 \in Nat
        BY <2>0, WorkerType
      <4> QED
        BY <4>1, <4>2, Zenon DEF Worker
    <3> HIDE DEF w
    <3> QED
      BY <1>2, <1>3, <3>1, <3>2, <3>3, SegmentLemma, Zenon
  <2>4. ASSUME NEW c \in Ctx, end_request(c)
        PROVE  DiskInv'
    BY <1>2, <2>4, EndLemma
  <2>5. ASSUME NEW c \in Ctx, sampleblk_return(c)
        PROVE  DiskInv'
    BY <2>5, LeaveLemma
  <2>6. ASSUME NEW c \in Ctx, ramhd_req_func(c)
        PROVE  DiskInv'
    BY <1>2, <1>3, <2>6, ReqFuncLemma, Zenon
  <2>7. ASSUME NEW c \in Ctx, Fault(c)
        PROVE  DiskInv'
    <3>1. UNCHANGED <<sectors, req, worker, prior, busy>> /\ mod'.at = "misuse"
      BY <1>0, <2>7 DEF Fault, ioVars, Mod
    <3>2. IoType' /\ Working' /\ Requests' /\ Copies'
      BY <1>0, <1>3, <3>1, SameDisk
    <3>3. Busy'
      BY <1>3, <1>4, <2>0, <3>1 DEF Busy, Checked
    <3> QED
      BY <3>2, <3>3 DEF DiskInv
  <2> QED
    BY <2>1, <2>2, <2>3, <2>4, <2>5, <2>6, <2>7, Zenon DEF IoNext, Work
<1> QED
  BY <1>0, <1>3, <1>4, <1>5, <1>6, <1>7, <1>8, <1>9, Zenon DEF DriversInv

-----------------------------------------------------------------------------
(* kobject-event.c and poll.c.                                             *)

\* No store is going on at first.
LEMMA NoStoreSound ==
    ASSUME NEW f, NEW u
    PROVE  NoStore \in StoreState /\ Sound(NoStore, f, u)
<1>1. NoStore \in StoreState
  BY Zenon DEF NoStore, StoreState, Value
<1>2. Sound(NoStore, f, u)
  BY Zenon DEF NoStore, Sound
<1> QED
  BY <1>1, <1>2

\* A step of one store, which leaves flag and uevent_suppress alone.
LEMMA StoreGoes ==
    ASSUME Stores, NEW c \in Ctx, NEW s \in StoreState, store' = [store EXCEPT ![c] = s],
           Sound(s, flag, suppress), UNCHANGED <<flag, suppress>>
    PROVE  Stores'
<1>1. /\ store' \in [Ctx -> StoreState] /\ store'[c] = s
      /\ \A o \in Ctx : o # c => store'[o] = store[o]
  BY Zenon DEF Stores
<1> QED
  BY <1>1, Zenon DEF Stores

\* The steps of the stores: the one that begins comes after those that have not switched, and
\* the one that sets uevent_suppress shows it to all that are going on.
LEMMA StoreSteps ==
    ASSUME Stores, NEW c \in Ctx,
           \/ att_store(c) \/ Switch(c) \/ kobject_uevent(c) \/ SendEvent(c)
           \/ SetSuppress(c) \/ StoreReturns(c)
    PROVE  Stores'
<1> DEFINE s == store[c]
<1>1. /\ flag \in Value /\ suppress \in BOOLEAN /\ store \in [Ctx -> StoreState]
      /\ s \in StoreState /\ Sound(s, flag, suppress)
      /\ \A o \in Ctx : store[o] \in StoreState /\ Sound(store[o], flag, suppress)
  BY Zenon DEF Stores
<1>2. CASE att_store(c)
  <2>1. PICK v \in Command : flag' = v /\ store' = Entered(c, v)
    BY <1>2, Zenon DEF att_store
  <2>2. suppress' = suppress /\ v \in Value
    BY <1>2, Zenon DEF att_store, Value
  <2>3. ASSUME NEW o \in Ctx
        PROVE  store'[o] \in StoreState /\ Sound(store'[o], v, suppress)
    <3>1. CASE o = c
      <4>1. store'[o] = [NoStore EXCEPT !.pc = "switch", !.want = v, !.seen = {suppress}]
        BY <2>1, <3>1, Zenon DEF Entered
      <4> DEFINE n == [NoStore EXCEPT !.pc = "switch", !.want = v, !.seen = {suppress}]
      <4>2. {suppress} \in SUBSET BOOLEAN /\ NoStore \in StoreState /\ NoStore.event = "none"
        BY <1>1, NoStoreSound, Zenon DEF NoStore
      <4>3. /\ n \in StoreState /\ n.pc = "switch" /\ n.want = v /\ n.event = "none"
            /\ n.seen = {suppress}
        BY <2>2, <4>2, Zenon DEF StoreState
      <4> HIDE DEF n
      <4>4. Sound(n, v, suppress)
        BY <4>3, Zenon DEF Sound
      <4> QED
        BY <4>1, <4>3, <4>4, Zenon DEF n
    <3>2. CASE o # c
      <4> DEFINE t == store[o]
                 l == IF t.pc = "switch" THEN t.later \cup {v} ELSE t.later
      <4>1. store'[o] = [t EXCEPT !.later = l]
        BY <2>1, <3>2, Zenon DEF Entered
      <4>2. t \in StoreState /\ l \in SUBSET Value /\ Sound(t, flag, suppress)
        BY <1>1, <2>2, Zenon DEF StoreState
      <4>3. t.later \subseteq l /\ (t.pc = "switch" => v \in l)
        BY Zenon
      <4> HIDE DEF l, t
      <4>4. /\ [t EXCEPT !.later = l] \in StoreState
            /\ [t EXCEPT !.later = l].pc = t.pc /\ [t EXCEPT !.later = l].want = t.want
            /\ [t EXCEPT !.later = l].act = t.act /\ [t EXCEPT !.later = l].event = t.event
            /\ [t EXCEPT !.later = l].seen = t.seen /\ [t EXCEPT !.later = l].later = l
        BY <4>2, Zenon DEF StoreState
      <4> QED
        BY <4>1, <4>2, <4>3, <4>4, Zenon DEF Sound
    <3> QED
      BY <3>1, <3>2, Zenon
  <2>4. store' \in [Ctx -> StoreState]
    BY <2>1, <2>3, Zenon DEF Entered
  <2> QED
    BY <1>1, <2>1, <2>2, <2>3, <2>4, Zenon DEF Stores
<1>3. CASE Switch(c)
  <2>1. PICK v \in {s.want, flag} :
           store' = [store EXCEPT ![c].act = v, ![c].later = @ \cap {v},
                                  ![c].pc = IF v \in Events THEN "uevent"
                                            ELSE IF v \in {6, 7} THEN "suppress" ELSE "return"]
    BY <1>3, Zenon DEF Switch
  <2> DEFINE at == IF v \in Events THEN "uevent" ELSE IF v \in {6, 7} THEN "suppress" ELSE "return"
             l  == s.later \cap {v}
             n  == [s EXCEPT !.act = v, !.later = l, !.pc = at]
  <2>2. store' = [store EXCEPT ![c] = n] /\ UNCHANGED <<flag, suppress>>
    BY <1>1, <1>3, <2>1, Zenon DEF Switch
  <2>3. v \in Value /\ l \in SUBSET Value /\ s.pc = "switch"
    BY <1>1, <1>3, <2>1, Zenon DEF StoreState, Switch
  <2>4. v = s.want \/ v \in l
    BY <1>1, <2>1, <2>3, Zenon DEF Sound
  <2>5. /\ at \in {"uevent", "suppress", "return"} /\ (at = "uevent" <=> v \in Events)
    BY Zenon
  <2>6. /\ n \in StoreState /\ n.pc = at /\ n.act = v /\ n.later = l /\ n.want = s.want
        /\ n.event = s.event /\ n.seen = s.seen
    BY <1>1, <2>3, <2>5, Zenon DEF StoreState
  <2> HIDE DEF n, l, at
  <2>7. Sound(n, flag, suppress)
    BY <1>1, <2>3, <2>4, <2>5, <2>6, Zenon DEF Sound
  <2> QED
    BY <2>2, <2>6, <2>7, StoreGoes, Zenon
<1>4. CASE kobject_uevent(c)
  <2> DEFINE at == IF suppress THEN "return" ELSE "send"
             e  == IF suppress THEN "dropped" ELSE s.event
             n  == [s EXCEPT !.pc = at, !.event = e]
  <2>1. store' = [store EXCEPT ![c] = n] /\ UNCHANGED <<flag, suppress>> /\ s.pc = "uevent"
    BY <1>1, <1>4, Zenon DEF kobject_uevent
  <2>2. \/ suppress = TRUE /\ at = "return" /\ e = "dropped"
        \/ suppress = FALSE /\ at = "send" /\ e = s.event
    BY <1>1, Zenon
  <2>3. /\ n \in StoreState /\ n.pc = at /\ n.act = s.act /\ n.later = s.later /\ n.want = s.want
        /\ n.event = e /\ n.seen = s.seen
    BY <1>1, <2>2, Zenon DEF StoreState
  <2> HIDE DEF n, e, at
  <2>4. Sound(n, flag, suppress)
    BY <1>1, <2>1, <2>2, <2>3, Zenon DEF Sound
  <2> QED
    BY <2>1, <2>3, <2>4, StoreGoes, Zenon
<1>5. CASE SendEvent(c)
  <2>1. PICK e \in {"sent", "no memory"} : store' = [store EXCEPT ![c].pc = "return", ![c].event = e]
    BY <1>5, Zenon DEF SendEvent
  <2> DEFINE n == [s EXCEPT !.pc = "return", !.event = e]
  <2>2. store' = [store EXCEPT ![c] = n] /\ UNCHANGED <<flag, suppress>> /\ s.pc = "send"
    BY <1>1, <1>5, <2>1, Zenon DEF SendEvent
  <2>3. /\ n \in StoreState /\ n.pc = "return" /\ n.act = s.act /\ n.later = s.later
        /\ n.want = s.want /\ n.event = e /\ n.seen = s.seen
    BY <1>1, <2>1, Zenon DEF StoreState
  <2> HIDE DEF n
  <2>4. Sound(n, flag, suppress)
    BY <1>1, <2>1, <2>2, <2>3, Zenon DEF Sound
  <2> QED
    BY <2>2, <2>3, <2>4, StoreGoes, Zenon
<1>6. CASE SetSuppress(c)
  <2> DEFINE u == s.act = 6
  <2>1. s.pc = "suppress" /\ suppress' = u /\ flag' = flag /\ u \in BOOLEAN
        /\ store' = [o \in Ctx |-> [store[o] EXCEPT !.pc = IF o = c THEN "return" ELSE @,
                                     !.seen = IF store[o].pc = "none" THEN @ ELSE @ \cup {u}]]
    BY <1>6, Zenon DEF SetSuppress
  <2> HIDE DEF u
  <2>2. ASSUME NEW o \in Ctx
        PROVE  store'[o] \in StoreState /\ Sound(store'[o], flag, u)
    <3> DEFINE t  == store[o]
               at == IF o = c THEN "return" ELSE t.pc
               w  == IF t.pc = "none" THEN t.seen ELSE t.seen \cup {u}
               n  == [t EXCEPT !.pc = at, !.seen = w]
    <3>1. store'[o] = n /\ t \in StoreState /\ Sound(t, flag, suppress) /\ (o = c => t = s)
      BY <1>1, <2>1, Zenon
    <3>2. w \in SUBSET BOOLEAN /\ at \in {"return", t.pc} /\ t.seen \subseteq w
          /\ (o # c => at = t.pc) /\ (t.pc # "none" => u \in w) /\ (o = c => at = "return")
      BY <2>1, <3>1, Zenon DEF StoreState
    <3>3. /\ n \in StoreState /\ n.pc = at /\ n.act = t.act /\ n.later = t.later
          /\ n.want = t.want /\ n.event = t.event /\ n.seen = w
      BY <3>1, <3>2, Zenon DEF StoreState
    <3> HIDE DEF n, w, at, t
    <3>4. CASE o = c
      BY <2>1, <3>1, <3>2, <3>3, <3>4, Zenon DEF Sound
    <3>5. CASE o # c
      BY <3>1, <3>2, <3>3, <3>5, Zenon DEF Sound
    <3> QED
      BY <3>4, <3>5, Zenon
  <2>3. store' \in [Ctx -> StoreState]
    BY <2>1, <2>2, Zenon
  <2> QED
    BY <1>1, <2>1, <2>2, <2>3, Zenon DEF Stores
<1>7. CASE StoreReturns(c)
  BY <1>1, <1>7, NoStoreSound, StoreGoes, Zenon DEF StoreReturns
<1> QED
  BY <1>2, <1>3, <1>4, <1>5, <1>6, <1>7, Zenon

\* The stores keep it.
LEMMA KobjKeeps ==
    ASSUME DriversInv, KobjNext, UNCHANGED <<ioVars, pollVars>>
    PROVE  DriversInv'
<1>0. /\ lab \in LoadModules /\ mod \in Mod /\ Buffers /\ DiskInv /\ Objects /\ Stores /\ Polls
  BY DEF DriversInv
<1>1. UNCHANGED <<sectors, req, worker, prior, fd, state, wq, call, owed>>
  BY DEF ioVars, pollVars
<1>2. lab = "kobject" /\ UNCHANGED <<lab, mod, held>> /\ ("attr" \notin held => busy' \subseteq busy)
  BY Zenon DEF KobjNext, att_store, Switch, kobject_uevent, SendEvent, SetSuppress, StoreReturns
<1>3. UNCHANGED <<lab, mod, held>>
  BY <1>2
<1>4. Buffers'
  BY <1>0, <1>3, Zenon DEF Buffers, Checked
<1>5. IoType' /\ Working' /\ Requests' /\ Copies'
  BY <1>0, <1>1, <1>3, SameDisk, Zenon
<1>6. Busy'
  BY <1>2, Zenon DEF Busy, BlockModules
<1>7. Objects'
  <2>1. "attr" \notin held => busy' = {}
    <3>1. "attr" \notin held => busy = {}
      BY <1>0, <1>2, Zenon DEF Objects
    <3> QED
      BY <1>2, <3>1
  <2> QED
    BY <1>0, <1>2, <2>1, Zenon DEF Objects
<1>8. Stores'
  BY <1>0, StoreSteps DEF KobjNext
<1>9. Polls'
  BY <1>0, <1>1, <1>3, Zenon DEF Polls, Polling
<1> QED
  BY <1>0, <1>3, <1>4, <1>5, <1>6, <1>7, <1>8, <1>9, Zenon DEF DriversInv, DiskInv

\* The threads that open, poll, wake and close keep it.
LEMMA PollKeeps ==
    ASSUME DriversInv, PollNext, UNCHANGED <<ioVars, kobjVars>>
    PROVE  DriversInv'
<1>0. /\ lab \in LoadModules /\ mod \in Mod /\ Buffers /\ DiskInv /\ Objects /\ Stores /\ Polls
  BY DEF DriversInv
<1>1. UNCHANGED <<sectors, req, worker, prior, flag, suppress, store>>
  BY Zenon DEF ioVars, kobjVars
<1>2. lab = "poll"
  BY DEF PollNext
<1>3. lab' = lab /\ (mod' = mod \/ mod' = [mod EXCEPT !.at = "misuse", !.failed = TRUE])
  BY Zenon DEF PollNext, kern_open, poll, poll_return, poll_schedule,
         kern_unlocked_ioctl, close
<1>4. mod' \in Mod
  BY <1>0, <1>3, Zenon DEF Mod
<1>5. Buffers' /\ Busy'
  BY <1>2, <1>3, Zenon DEF Buffers, Busy, BlockModules
<1>6. IoType' /\ Working' /\ Requests' /\ Copies'
  BY <1>0, <1>1, <1>3, SameDisk, Zenon
<1>7. Objects'
  <2>1. held' \subseteq held \cup {"pd", "lost pd"}
    BY Zenon DEF PollNext, kern_open, poll, poll_return, poll_schedule,
           kern_unlocked_ioctl, close, Fput
  <2> QED
    BY <1>0, <1>2, <1>3, <2>1, Zenon DEF Objects
<1>8. Stores'
  BY <1>0, <1>1, Zenon DEF Stores
<1>9. Polls'
  <2> DEFINE At  == {"user", "polled", "asleep", "woken"}
             Call == [at : At, triggered : BOOLEAN]
             Live == fd \/ Polling # {} => "pd" \in held
  <2>0. call \in [Ctx -> Call] /\ wq \subseteq Polling /\ Live /\ Polling \subseteq Ctx
    BY <1>0, <1>2, Zenon DEF Polls, Polling
  <2>1. ASSUME NEW c \in Ctx, NEW x \in Call, call' = [call EXCEPT ![c] = x]
        PROVE  /\ call' \in [Ctx -> Call]
               /\ x.at = "user" => Polling' = Polling \ {c}
               /\ x.at # "user" => Polling' = Polling \cup {c}
    <3>1. call' \in [Ctx -> Call] /\ call'[c] = x /\ \A o \in Ctx \ {c} : call'[o] = call[o]
      BY <2>0, <2>1, Zenon
    <3> QED
      BY <3>1 DEF Polling
  <2>2. \A c \in Ctx : /\ call[c].at # "user" <=> c \in Polling
                       /\ [call[c] EXCEPT !.at = "polled"] \in Call /\ [call[c] EXCEPT !.at = "asleep"] \in Call
                       /\ [call[c] EXCEPT !.at = "polled"].at = "polled"
                       /\ [call[c] EXCEPT !.at = "asleep"].at = "asleep"
    BY <2>0 DEF Polling
  <2>3. CASE kern_open
    <3>1. call' = call /\ held \subseteq held' /\ (fd' => fd \/ "pd" \in held') /\ (wq' = {} \/ wq' = wq)
      <4>1. CASE fd' = TRUE /\ wq' = {} /\ held' = held \cup {"pd"} /\ call' = call
        BY <4>1
      <4>2. CASE held' = held \cup {"lost pd"} /\ UNCHANGED <<fd, wq, call>>
        BY <4>2, Zenon
      <4>3. CASE held' = held /\ UNCHANGED <<fd, wq, call>>
        BY <4>3, Zenon
      <4> QED
        BY <2>3, <4>1, <4>2, <4>3, Zenon DEF kern_open, pollVars
    <3>2. Polling' = Polling
      BY <3>1 DEF Polling
    <3> QED
      BY <1>2, <1>3, <2>0, <3>1, <3>2, Zenon DEF Polls
  <2>4. ASSUME NEW c \in Ctx, poll(c)
        PROVE  Polls'
    <3>1. /\ wq' = wq \cup {c} /\ call' = [call EXCEPT ![c] = [call[c] EXCEPT !.at = "polled"]]
          /\ held' = held /\ fd' = fd /\ "pd" \in held
      BY <2>0, <2>2, <2>4, Zenon DEF poll, kern_poll
    <3>2. call' \in [Ctx -> Call] /\ Polling' = Polling \cup {c}
      BY <2>1, <2>2, <3>1, Zenon
    <3> QED
      BY <1>3, <2>0, <3>1, <3>2, Zenon DEF Polls
  <2>5. ASSUME NEW c \in Ctx, poll_return(c)
        PROVE  Polls'
    <3>1. User \in Call /\ User.at = "user"
      BY Zenon DEF User
    <3>2. /\ wq' = wq \ {c} /\ call' = [call EXCEPT ![c] = User]
          /\ fd' = fd /\ Fput(fd, Polling \ {c})
      BY <2>5 DEF poll_return
    <3>3. call' \in [Ctx -> Call] /\ Polling' = Polling \ {c}
      BY <2>1, <3>1, <3>2, Zenon
    <3>4. fd' \/ Polling' # {} => "pd" \in held'
      BY <2>0, <3>2, <3>3, Zenon DEF Fput
    <3> QED
      BY <1>3, <2>0, <3>2, <3>3, <3>4, Zenon DEF Polls
  <2>6. ASSUME NEW c \in Ctx, poll_schedule(c)
        PROVE  Polls'
    <3> DEFINE y == [at |-> "woken", triggered |-> FALSE]
               z == [call[c] EXCEPT !.at = "asleep"]
    <3>1. y \in Call /\ y.at # "user" /\ z \in Call /\ z.at # "user"
      BY <2>2, Zenon
    <3>2. /\ held' = held /\ fd' = fd /\ wq' = wq /\ c \in Polling
          /\ call' = [call EXCEPT ![c] = y] \/ call' = [call EXCEPT ![c] = z]
      BY <2>2, <2>6, Zenon DEF poll_schedule
    <3> HIDE DEF y, z
    <3>3. call' \in [Ctx -> Call] /\ Polling' = Polling
      <4>1. CASE call' = [call EXCEPT ![c] = y]
        <5>1. call' \in [Ctx -> Call] /\ Polling' = Polling \cup {c}
          BY <2>1, <3>1, <4>1, Zenon
        <5> QED
          BY <3>2, <5>1
      <4>2. CASE call' = [call EXCEPT ![c] = z]
        <5>1. call' \in [Ctx -> Call] /\ Polling' = Polling \cup {c}
          BY <2>1, <3>1, <4>2, Zenon
        <5> QED
          BY <3>2, <5>1
      <4> QED
        BY <3>2, <4>1, <4>2, Zenon
    <3> QED
      BY <1>3, <2>0, <3>2, <3>3, Zenon DEF Polls
  <2>7. ASSUME NEW c \in Ctx, kern_unlocked_ioctl(c)
        PROVE  Polls'
    <3>1. /\ held' = held /\ fd' = fd /\ wq' = wq
          /\ call' = [o \in Ctx |-> IF o \in wq THEN [call[o] EXCEPT !.triggered = TRUE] ELSE call[o]]
      BY <2>7 DEF kern_unlocked_ioctl
    <3>2. \A o \in Ctx : /\ [call[o] EXCEPT !.triggered = TRUE] \in Call
                         /\ [call[o] EXCEPT !.triggered = TRUE].at = call[o].at
      BY <2>0, Zenon
    <3>3. call' \in [Ctx -> Call] /\ \A o \in Ctx : call'[o].at = call[o].at
      BY <2>0, <3>1, <3>2, Zenon
    <3>4. Polling' = Polling
      BY <3>3 DEF Polling
    <3> QED
      BY <1>3, <2>0, <3>1, <3>3, <3>4, Zenon DEF Polls
  <2>8. ASSUME NEW c \in Ctx, close(c)
        PROVE  Polls'
    <3>1. fd' = FALSE /\ call' = call /\ wq' = wq /\ Fput(FALSE, Polling)
      BY <2>8, Zenon DEF close
    <3>2. Polling' = Polling
      BY <3>1 DEF Polling
    <3> QED
      BY <1>3, <2>0, <3>1, <3>2, Zenon DEF Polls, Fput
  <2> QED
    BY <2>3, <2>4, <2>5, <2>6, <2>7, <2>8, Zenon DEF PollNext
<1> QED
  BY <1>0, <1>3, <1>4, <1>5, <1>6, <1>7, <1>8, <1>9, Zenon DEF DriversInv, DiskInv

-----------------------------------------------------------------------------
(* The theorems.                                                           *)

\* Before anything is loaded.
LEMMA InitLemma ==
    ASSUME lab \in LoadModules, DriversInit
    PROVE  DriversInv
<1>1. mod \in Mod
  <2>1. [at |-> "init", ip |-> 1, failed |-> FALSE] \in Mod
    BY 1 \in Nat \ {0}, Zenon DEF Mod
  <2> QED
    BY <2>1 DEF DriversInit, LoadInit
<1>2. mod.at = "init" /\ mod.ip = 1 /\ held = {} /\ busy = {}
  BY Zenon DEF DriversInit, LoadInit
<1>3. Buffers /\ Objects
  BY <1>2 DEF Buffers, Objects
<1>4. /\ req = [r \in Req |-> IdleReq] /\ worker = [c \in Ctx |-> Out]
      /\ prior = [r \in Req |-> {}]
      /\ sectors = [i \in Device |-> [s \in Sector |-> IF lab = "sample_blk" THEN Junk ELSE Zero]]
  BY Zenon DEF DriversInit, IoInit
<1>5. IdleReq \in Request /\ IdleReq.st = "idle" /\ IdleReq.err = 0 /\ IdleReq.write = FALSE
  BY DEF IdleReq, Request, Blank, Zero, Device
<1>6. Out \in Worker /\ Out.at = "out"
  BY DEF Out, Worker
<1>7. \A i \in Device, s \in Sector : sectors[i][s] \in Int \ Req
  BY <1>4 DEF Junk, Zero, Req
<1>8. \A c \in Ctx : ~Active(c) /\ worker[c].at = "out"
  BY <1>4, <1>6, Zenon DEF Active
<1>9. IoType
  BY <1>4, <1>5, <1>6 DEF IoType, Junk, Zero
<1>10. \A r \in Req : req[r].st = "idle" /\ ~req[r].write /\ req[r].err = 0 /\ prior[r] = {}
  BY <1>4, <1>5, Zenon
<1>11. Working /\ Requests
  BY <1>8, <1>10, Zenon DEF Working, Requests
<1>12. Busy
  BY <1>2, <1>10, Zenon DEF Busy
<1>13. Copies
  <2>1. \A o \in Req, s \in Sector : ~Copied(o, s)
    BY <1>8, <1>10, Zenon DEF Copied
  <2> QED
    BY <1>7, <1>10, <2>1, Zenon DEF Copies
<1>14. Stores
  <2>1. store = [c \in Ctx |-> NoStore]
    BY Zenon DEF DriversInit, KobjInit
  <2>2. flag \in Value /\ suppress \in BOOLEAN
    BY Zenon DEF DriversInit, KobjInit, Value
  <2> QED
    BY <2>1, <2>2, NoStoreSound, Zenon DEF Stores
<1>15. Polls
  <2>1. fd = FALSE /\ wq = {} /\ call = [c \in Ctx |-> User]
    BY Zenon DEF DriversInit, PollInit
  <2>2. User \in [at : {"user", "polled", "asleep", "woken"}, triggered : BOOLEAN] /\ User.at = "user"
    BY DEF User
  <2>3. Polling = {}
    BY <2>1, <2>2, Zenon DEF Polling
  <2> QED
    BY <2>1, <2>2, <2>3, Zenon DEF Polls
<1> QED
  BY <1>1, <1>3, <1>9, <1>11, <1>12, <1>13, <1>14, <1>15, ZenonT(60) DEF DriversInv, DiskInv

\* Every step of the drivers keeps the invariant.
LEMMA NextLemma ==
    ASSUME DriversInv, [DriversNext]_driverVars
    PROVE  DriversInv'
<1>1. CASE UNCHANGED driverVars
  <2>1. UNCHANGED <<lab, mod, held, busy, sectors, req, worker, prior, flag, suppress, store,
                    fd, state, wq, call, owed>>
    BY <1>1, Zenon DEF driverVars, loadVars, ioVars, kobjVars, pollVars
  <2>2. IoType' /\ Working' /\ Requests' /\ Copies'
    BY <2>1, SameDisk, Zenon DEF DriversInv
  <2>3. Busy'
    BY <2>1, Zenon DEF DriversInv, DiskInv, Busy, Checked
  <2>4. Buffers' /\ Objects' /\ mod' \in Mod
    BY <2>1, ZenonT(60) DEF DriversInv, Buffers, Objects, Checked
  <2>5. Stores'
    BY <2>1, Zenon DEF DriversInv, Stores
  <2>6. Polls'
    BY <2>1 DEF DriversInv, Polls, Polling
  <2> QED
    BY <2>1, <2>2, <2>3, <2>4, <2>5, <2>6, Zenon DEF DriversInv, DiskInv
<1> QED
  BY <1>1, LoadKeeps, IoKeeps, KobjKeeps, PollKeeps, Zenon DEF DriversNext

\* The invariant holds in every behaviour.
LEMMA AlwaysLemma == DriversSpec => []DriversInv
<1>1. lab \in LoadModules /\ DriversInit => DriversInv
  BY InitLemma
<1>2. DriversInv /\ [DriversNext]_driverVars => DriversInv'
  BY NextLemma
<1> QED
  BY <1>1, <1>2, PTL DEF DriversSpec

\* ramdisk-lab, sampleblk_handle_io() and the loops of ramhd_make_request() and
\* ramhd_req_func(): with any number of CPUs and requests no segment is copied outside the
\* buffer of its disk, or when the buffer is not there (but by ramhd_req.c after a failed
\* vmalloc()), and every request ends with its own status.
THEOREM RequestSoundHolds == DriversSpec => []RequestSound
<1>1. ASSUME DriversInv
      PROVE  RequestSound
  <2>0. IoType /\ Working /\ Requests /\ Busy
    BY <1>1, Zenon DEF DriversInv, DiskInv
  <2>1. ASSUME NEW c \in Ctx, worker[c].at = "copy", ~Mapped(c)
        PROVE  lab = "ramhd_req" /\ mod.failed
    <3> DEFINE r == worker[c].rq
    <3>1. /\ r \in Req /\ req[r].st = "started" /\ Target(c) \in Sector
      BY <2>0, <2>1, MemcpyLemma, Zenon
    <3>2. Target(c) < Sectors
      BY <3>1, IoAssumption, SMTT(40), SMTT(60) DEF Sector
    <3>3. lab \in BlockModules
      BY <2>0, <2>1, Zenon DEF Working
    <3>4. r \in busy
      BY <2>0, <3>1, <3>3, Zenon DEF Busy
    <3>5. Checked => Mapped(c)
      BY <2>0, <3>2, <3>3, <3>4, Zenon DEF Busy, Mapped
    <3> QED
      BY <2>1, <3>5, SMTT(40), SMTT(60) DEF Checked
  <2>2. EndsRight
    BY <2>0, Zenon DEF Requests, EndsRight, EIO
  <2> QED
    BY <2>1, <2>2 DEF RequestSound, CopySafe
<1> QED
  BY <1>1, AlwaysLemma, PTL

\* ramdisk-lab: a read returns for each sector nothing older than the last write that had
\* ended before it was submitted, and a write stays on the disk until another one replaces
\* it, whatever is copied between two segments of either.
THEOREM DiskCoherentHolds == DriversSpec => []DiskCoherent
<1>1. ASSUME DriversInv
      PROVE  DiskCoherent
  <2>0. IoType /\ Requests /\ Copies
    BY <1>1, SMTT(40), SMTT(60) DEF DriversInv, DiskInv
  <2>1. ReadsFresh
    <3> SUFFICES ASSUME NEW r \in Req, req[r].st = "done", ~req[r].write, req[r].err = 0,
                        NEW s \in Range(req[r])
                 PROVE  /\ Fresh(req[r].buf[s], req[r].dev, s, prior[r])
                        /\ req[r].buf[s] \in Req => r \notin prior[req[r].buf[s]]
      BY ZenonT(60) DEF ReadsFresh
    <3>1. ~Beyond(req[r])
      BY <2>0 DEF Requests
    <3>2. s \in Sector
      BY <2>0, <3>1, RequestType, IoAssumption, Within, ZenonT(60) DEF Range, Beyond, Sector
    <3> QED
      BY <2>0, <3>1, <3>2, ZenonT(60) DEF Copies, Copied
  <2>2. ASSUME NEW i \in Device, NEW s \in Sector
        PROVE  Fresh(sectors[i][s], i, s, {r \in Req : req[r].st = "done"})
    <3>1. sectors[i][s] \in Req => Wrote(sectors[i][s], i, s)
      BY <2>0, Zenon DEF Copies
    <3>2. ASSUME NEW o \in Req, req[o].st = "done", Wrote(o, i, s)
          PROVE  sectors[i][s] \in Req /\ sectors[i][s] \notin prior[o]
      <4>1. Copied(o, s) /\ req[o].write /\ req[o].dev = i
        BY <3>2, Zenon DEF Copied, Wrote
      <4> QED
        BY <2>0, <4>1, Zenon DEF Copies
    <3> QED
      BY <3>1, <3>2, SMTT(40), SMTT(60) DEF Fresh
  <2> QED
    BY <2>1, <2>2 DEF DiskCoherent, WriteStays
<1> QED
  BY <1>1, AlwaysLemma, PTL

\* notifier-module.c, kobject-event.c and poll.c: a callback finds its notifier block, its
\* child and its kset at whatever point of the exit function it runs, and pd outlives every
\* poll() that uses it.
THEOREM LiveObjectsHolds == DriversSpec => []LiveObjects
<1>1. ASSUME DriversInv
      PROVE  LiveObjects
  <2>1. CallbackSafe
    BY <1>1 DEF DriversInv, Objects, CallbackSafe
  <2>2. PdLive
    BY <1>1 DEF DriversInv, Polls, PdLive
  <2> QED
    BY <2>1, <2>2, Zenon DEF LiveObjects
<1> QED
  BY <1>1, AlwaysLemma, PTL

\* att_store() of kobject-event.c, for any processes and commands: a store acts on its own command
\* or on one stored after it, and whether its event is sent or dropped follows from what
\* uevent_suppress was at some time while it ran, however the stores interleave.
THEOREM CommandObeyedHolds == DriversSpec => []CommandObeyed
<1>1. DriversInv => CommandObeyed
  BY Zenon DEF DriversInv, Stores, Sound, CommandObeyed
<1> QED
  BY <1>1, AlwaysLemma, PTL
=============================================================================
