----------------------------- MODULE ModuleLoad -----------------------------
(***************************************************************************)
(* Loading and unloading of the lab modules that acquire kernel resources:  *)
(* lab-char.c, the three RAM-disk drivers, kobject-event.c, the data         *)
(* structure labs, kprobe.c, notifier-module.c, mod_kmem_cache.c, kmalloc.c, *)
(* high_mem.c, rammap.c and poll.c.                                        *)
(*                                                                         *)
(* An init or exit function is the sequence of its calls that acquire, use  *)
(* or release something, a row for each.  Every acquisition whose result can *)
(* be an error may fail; what the code then does is part of its row.  Using  *)
(* or releasing what is not there is misuse: nothing is claimed after it.   *)
(***************************************************************************)
EXTENDS Integers, Sequences, FiniteSets

CONSTANT Ctx    \* processes and CPUs that call into a module

VARIABLES
    lab,    \* which module it is
    mod,    \* at: its state; ip: the next row; failed: an acquisition has failed
    held,   \* what it has acquired and not released
    busy    \* who holds a reference to the module or runs one of its callbacks

loadVars == <<lab, mod, held, busy>>

\* Get: on failure, undo is released and init ends in the state to; TryElse: on
\* failure, init goes on n rows further down; Do: cannot fail.  Use, Put: need what
\* they name.  Free: releases what is there, as kfree(NULL) is allowed.
Get(r, undo, to) == [op |-> "get", res |-> {r}, undo |-> undo, to |-> to, skip |-> 0]
TryElse(r, n)    == [op |-> "get", res |-> {r}, undo |-> {}, to |-> "init", skip |-> n]
Try(r)           == TryElse(r, 1)
Find(to)         == [op |-> "get", res |-> {}, undo |-> {}, to |-> to, skip |-> 0]
Do(r)            == [op |-> "do", res |-> {r}]
Use(r)           == [op |-> "use", res |-> {r}]
Put(r)           == [op |-> "put", res |-> {r}]
Free(r)          == [op |-> "free", res |-> {r}]

\* The resources of device i of the RAM disks.
Device == 0 .. 1                \* RAMHD_MAX_DEVICE
sdisk(i) == <<"sdisk0", "sdisk1">>[i + 1]
rdev(i)  == <<"rdev0", "rdev1">>[i + 1]
queue(i) == <<"queue0", "queue1">>[i + 1]
gd(i)    == <<"gd0", "gd1">>[i + 1]
disk(i)  == <<"disk0", "disk1">>[i + 1]       \* the disk add_disk() made visible
-----------------------------------------------------------------------------
(* char-device-labs/lab-char.c                                             *)

my_generic_init ==
    << Get("region", {}, "failed"), Get("cdev", {"region"}, "failed"),
       Get("ramdisk", {}, "failed"), Get("added", {"cdev", "region", "ramdisk"}, "failed"),
       TryElse("class", 2), Try("device") >>

\* device_destroy() follows the class pointer, which may be an error code.
my_generic_exit ==
    << Use("class"), Free("device"), Free("class"), Put("added"), Put("cdev"),
       Put("region"), Free("ramdisk") >>
-----------------------------------------------------------------------------
(* ramdisk-lab: a failed sampleblk_alloc() leaves a module that is loaded    *)
(* all the same; ramhd_init() looks at one result (mkreq) or at none (req). *)

sampleblk_alloc ==
    << Get("dev", {}, "loaded"), Get(sdisk(0), {"dev"}, "loaded"),
       Get(queue(0), {sdisk(0), "dev"}, "loaded"),
       Get(gd(0), {queue(0), sdisk(0), "dev"}, "loaded"), Do(disk(0)) >>

sampleblk_free ==
    << Use("dev"), Put(disk(0)), Put(queue(0)), Put(gd(0)), Put(sdisk(0)), Put("dev") >>

sampleblk_init == << Get("major", {}, "failed") >> \o sampleblk_alloc
sampleblk_exit == sampleblk_free \o << Put("major") >>

ramhd_space_init  == << Get(sdisk(0), {}, "failed"), Get(sdisk(1), {}, "failed") >>
ramhd_space_try   == << TryElse(sdisk(0), 2), Try(sdisk(1)) >>
alloc_ramdev      == << TryElse(rdev(0), 2), Try(rdev(1)) >>
clean_ramdev      == << Free(rdev(0)), Free(rdev(1)) >>
ramhd_space_clean == << Free(sdisk(0)), Free(sdisk(1)) >>

SetUpMkreq(i) ==
    << Use(rdev(i)), Try(queue(i)), Use(queue(i)), Try(gd(i)), Use(gd(i)), Do(disk(i)) >>
SetUpReq(i) ==
    << Use(rdev(i)), Try(gd(i)), Try(queue(i)), Use(gd(i)), Use(queue(i)), Do(disk(i)) >>
TakeDown(i) == << Use(rdev(i)), Put(disk(i)), Put(gd(i)), Put(queue(i)) >>

ramhd_init_mkreq ==
    ramhd_space_init \o alloc_ramdev \o << Try("major") >> \o SetUpMkreq(0) \o SetUpMkreq(1)
ramhd_exit_mkreq ==
    TakeDown(0) \o TakeDown(1) \o clean_ramdev \o ramhd_space_clean \o << Put("major") >>

ramhd_init_req ==
    ramhd_space_try \o alloc_ramdev \o << Try("major") >> \o SetUpReq(0) \o SetUpReq(1)
ramhd_exit_req ==
    TakeDown(0) \o TakeDown(1) \o << Put("major") >> \o clean_ramdev \o ramhd_space_clean
-----------------------------------------------------------------------------
(* kobject-ueveng-lab/kobject-event.c.  PTR_ERR(NULL) is 0, so a failed      *)
(* kzalloc() loads the module.  child->kset is set by hand: kset_unregister() *)
(* frees the kset, and kobject_del(child) then leaves it.                  *)

kobj_init ==
    << Try("parent"), Get("child", {}, "loaded"), Get("c_kset", {}, "failed"),
       Get("c_obj", {}, "failed"), Get("attr", {}, "failed") >>

kobj_exit ==
    << Use("child"), Put("attr"), Put("c_kset"), Use("c_kset"), Put("c_obj"), Free("parent") >>
-----------------------------------------------------------------------------
(* data-struct-labs, mm-lab, notifier-labs, kprobe-labs, mmap-root/kmalloc.c, *)
(* sync/high_mem.c, mmap-labs/rammap.c, poll-labs/poll.c                    *)

\* Mutant: the label that frees the heads is missing.
hlist_module_init_NoLabel == << Get("heads", {}, "failed"), Get("devices", {}, "failed") >>

hlist_module_init == << Get("heads", {}, "failed"), Get("devices", {"heads"}, "failed") >>
hlist_module_exit == << Free("devices"), Free("heads") >>

list_init == << Get("m1", {}, "failed"), Get("m2", {}, "failed") >>
list_exit == << Put("m1"), Put("m2") >>

\* p2 is erased from the tree by rbtree_del(), and rbtree_clear() does not find it.
rbtree_init == << Get("p1", {}, "failed"), Get("p2", {"p1"}, "failed") >>
rbtree_exit == << Put("p1") >>

jslab_init == << Get("jcache", {}, "failed"), Try("buf") >>
jslab_exit == << Put("buf"), Put("jcache") >>

hello_init == << Get("pnb", {}, "failed"), Do("notifier") >>

\* Mutant: the block is freed while the chain still holds it.
hello_exit_FreeFirst == << Free("pnb"), Put("notifier") >>

hello_exit == << Put("notifier"), Free("pnb") >>

\* The address kallsyms_lookup_name() returns is followed before it is checked.
init_kprobe_sample == << Find("misuse"), Try("kprobe") >>
cleanup_kprobe_sample == << Free("kprobe") >>

init_kmalloc == << Get("p", {}, "failed") >>
exit_kmalloc == << Use("p"), Put("p") >>

high_mem_init == << Get("page", {}, "failed"), Do("kmap"), Put("kmap"), Put("page") >>

\* ioremap() returns NULL, which IS_ERR() does not see; nothing requests the region.
rammap_init == << Try("logical") >>
rammap_exit == << Free("logical"), Put("mem_region") >>

poll_init == << Get("misc", {}, "failed") >>
poll_exit == << Put("misc") >>
-----------------------------------------------------------------------------
BlockModules == {"sample_blk", "ramhd_mkreq", "ramhd_req"}

InitRows ==
    [lab_char |-> my_generic_init, sample_blk |-> sampleblk_init,
     ramhd_mkreq |-> ramhd_init_mkreq, ramhd_req |-> ramhd_init_req,
     kobject |-> kobj_init, hlist |-> hlist_module_init, list |-> list_init,
     rbtree |-> rbtree_init, kmem_cache |-> jslab_init, notifier |-> hello_init,
     kprobe |-> init_kprobe_sample, kmalloc |-> init_kmalloc,
     high_mem |-> high_mem_init, rammap |-> rammap_init, poll |-> poll_init]

ExitRows ==
    [lab_char |-> my_generic_exit, sample_blk |-> sampleblk_exit,
     ramhd_mkreq |-> ramhd_exit_mkreq, ramhd_req |-> ramhd_exit_req,
     kobject |-> kobj_exit, hlist |-> hlist_module_exit, list |-> list_exit,
     rbtree |-> rbtree_exit, kmem_cache |-> jslab_exit, notifier |-> hello_exit,
     kprobe |-> cleanup_kprobe_sample, kmalloc |-> exit_kmalloc,
     high_mem |-> <<>>, rammap |-> rammap_exit, poll |-> poll_exit]

LoadModules == DOMAIN InitRows

\* Unregistering one of these waits for the callbacks that run.
Synchronous == {"notifier", "kprobe", "attr"}

LoadInit == mod = [at |-> "init", ip |-> 1, failed |-> FALSE] /\ held = {} /\ busy = {}

Rows(at) == IF at = "init" THEN InitRows[lab] ELSE ExitRows[lab]
Row == Rows(mod.at)[mod.ip]

\* Past the last row the function returns.
Arrive(at, ip) ==
    IF ip <= Len(Rows(at)) THEN [at |-> at, ip |-> ip]
    ELSE [at |-> IF at = "init" THEN "loaded" ELSE "gone", ip |-> 1]

Goto(dest, failed) == mod' = [at |-> dest.at, ip |-> dest.ip, failed |-> failed]

Acquired ==
    /\ Row.op \in {"get", "do"}
    /\ held' = held \cup Row.res
    /\ Goto(Arrive(mod.at, mod.ip + 1), mod.failed)

Failed ==
    /\ Row.op = "get"
    /\ held' = held \ Row.undo
    /\ Goto(IF Row.to = "init" THEN Arrive("init", mod.ip + Row.skip)
            ELSE [at |-> Row.to, ip |-> 1], TRUE)

Released ==
    /\ Row.op \in {"use", "put", "free"}
    /\ Row.op = "free" \/ Row.res \subseteq held
    /\ Row.res \cap Synchronous # {} => busy = {}
    /\ held' = IF Row.op = "use" THEN held ELSE held \ Row.res
    /\ Goto(Arrive(mod.at, mod.ip + 1), mod.failed)

Misused ==
    /\ Row.op \in {"use", "put"} /\ ~(Row.res \subseteq held)
    /\ Goto([at |-> "misuse", ip |-> 1], mod.failed)
    /\ UNCHANGED held

Step ==
    /\ mod.at \in {"init", "exit"} /\ mod.ip <= Len(Rows(mod.at))
    /\ Acquired \/ Failed \/ Released \/ Misused
    /\ UNCHANGED <<lab, busy>>

\* delete_module(): an open device holds a reference to the module.
rmmod ==
    /\ mod.at = "loaded"
    /\ lab \in BlockModules \cup {"poll"} => busy = {}
    /\ Goto(Arrive("exit", 1), mod.failed)
    /\ UNCHANGED <<lab, held, busy>>

\* The notifier chain and the probed function call the module.
get_notify(c)  == "notifier" \in held /\ c \notin busy /\ busy' = busy \cup {c}
handler_pre(c) == "kprobe" \in held /\ c \notin busy /\ busy' = busy \cup {c}
Return(c)      == lab \in {"notifier", "kprobe"} /\ c \in busy /\ busy' = busy \ {c}

Callback ==
    /\ \E c \in Ctx : get_notify(c) \/ handler_pre(c) \/ Return(c)
    /\ UNCHANGED <<lab, mod, held>>

LoadNext == lab \in LoadModules /\ (Step \/ rmmod \/ Callback)
-----------------------------------------------------------------------------
(* Properties.                                                             *)

\* An init function that returns an error has released what it had acquired, but in
\* the four modules that return without it: lab-char.c when kmalloc() fails,
\* ramhd_mkreq.c for the second disk, kobject-event.c and list.c.
FailedLoadReleases ==
    mod.at = "failed" /\ held # {} =>
        \/ lab = "lab_char" /\ held = {"region", "cdev"}
        \/ lab = "ramhd_mkreq" /\ held = {sdisk(0)}
        \/ lab = "list" /\ held = {"m1"}
        \/ lab = "kobject" /\ "child" \in held /\ "attr" \notin held

\* An exit function that runs to its end has released everything, but the product
\* rbtree.c took out of its tree and what a failed open of poll.c allocated.
UnloadReleases ==
    mod.at = "gone" =>
        \/ lab = "rbtree" /\ held = {"p2"}
        \/ lab = "poll" /\ held = {"lost pd"}
        \/ lab # "rbtree" /\ held = {}

\* A module that got everything it asked for misuses nothing while it is loaded and
\* unloaded, but kobject-event.c (kset_unregister() before kobject_del()) and
\* rammap.c (release_mem_region() without a request).
MisuseNeedsFailure == mod.at = "misuse" => mod.failed \/ lab \in {"kobject", "rammap"}

\* A callback finds its notifier block, its child and its kset, at whatever point of
\* the exit function it runs.
CallbackSafe ==
    busy # {} =>
        /\ lab = "notifier" => "pnb" \in held
        /\ lab = "kobject"  => {"child", "c_kset"} \subseteq held
=============================================================================
