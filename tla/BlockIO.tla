------------------------------ MODULE BlockIO -------------------------------
(***************************************************************************)
(* The request functions of the RAM disks (ramdisk-lab): sampleblk_request()  *)
(* drops the queue lock while it copies, ramhd_make_request() has no lock,    *)
(* ramhd_req_func() holds the queue lock throughout.  They run on several    *)
(* CPUs, beside the loading of ModuleLoad, whose buffers they copy from and    *)
(* to.                                                                     *)
(*                                                                         *)
(* A segment is one sector.  From the block layer: it hands out the queued    *)
(* requests of a disk in any order, each once; requests beyond set_capacity() *)
(* do not reach ramhd_req.c, the one driver that does not test for them.    *)
(***************************************************************************)
EXTENDS ModuleLoad

CONSTANTS
    MaxReq,     \* bound on the requests (bios); a write fills its sectors with its number
    Sectors     \* sectors of a disk

ASSUME IoAssumption == MaxReq \in Nat /\ Sectors \in Nat

VARIABLES
    sectors,    \* what the buffers of the disks hold
    req,        \* the requests
    worker,     \* the request function on each CPU
    prior       \* history: which requests had ended when a request was submitted

ioVars == <<sectors, req, worker, prior>>

Req  == 1 .. MaxReq
Zero == 0
Junk == -1
Sector == 0 .. Sectors - 1
Blank == [s \in Sector |-> Zero]
IdleReq == [st |-> "idle", dev |-> 0, write |-> FALSE, pos |-> 0, len |-> 0,
            err |-> 0, buf |-> Blank]
Out == [at |-> "out", rq |-> 0, seg |-> 0, rv |-> 0]
EIO == 5

Range(q) == q.pos .. q.pos + q.len - 1
Beyond(q) == q.pos + q.len > Sectors

\* memset() clears the disks of ramhd; vmalloc() leaves what it finds.
IoInit ==
    /\ sectors = [i \in Device |-> [s \in Sector |-> IF lab = "sample_blk" THEN Junk ELSE Zero]]
    /\ req = [r \in Req |-> IdleReq]
    /\ worker = [c \in Ctx |-> Out]
    /\ prior = [r \in Req |-> {}]

\* The CPU that holds the queue lock of disk i for the length of ramhd_req_func().
Locked(i) == lab = "ramhd_req" /\ \E c \in Ctx : worker[c].at = "copy" /\ req[worker[c].rq].dev = i

Pending(i) == {r \in Req : req[r].st = "queued" /\ req[r].dev = i}

\* The block layer accepts a request for a disk that is there.
submit_bio(r) ==
    \E i \in Device, w \in BOOLEAN, p \in Sector, n \in 1 .. Sectors :
        LET q == [IdleReq EXCEPT !.st = "queued", !.dev = i, !.write = w, !.pos = p, !.len = n]
        IN  /\ mod.at \in {"init", "loaded"} /\ disk(i) \in held /\ ~Locked(i)
            /\ req[r].st = "idle" /\ \A o \in 1 .. r - 1 : req[o].st # "idle"
            /\ lab = "ramhd_req" => ~Beyond(q)
            /\ req' = [req EXCEPT ![r] = q]
            /\ busy' = busy \cup {r}
            /\ prior' = [prior EXCEPT ![r] = {o \in Req : req[o].st = "done"}]
            /\ UNCHANGED <<lab, mod, held, sectors, worker>>

\* The request r on CPU c: the test for the end of the disk and where it leads.
Started(c, r, rv) ==
    [at |-> IF Beyond(req[r]) THEN "end" ELSE "copy", rq |-> r, seg |-> 0,
     rv |-> IF Beyond(req[r]) THEN EIO ELSE rv]

\* Mutant: a request beyond the end of the disk is dropped.
Fetch_Drop(c, r) ==
    /\ req[r].st = "queued"
    /\ req' = [req EXCEPT ![r].st = "started"]
    /\ worker' = [worker EXCEPT ![c] = IF Beyond(req[r]) THEN Out ELSE Started(c, r, worker[c].rv)]

Fetch(c, r) ==
    /\ req[r].st = "queued"
    /\ req' = [req EXCEPT ![r].st = "started"]
    /\ worker' = [worker EXCEPT ![c] = Started(c, r, worker[c].rv)]

\* Mutant: every segment goes to the first sector of the request.
Target_First(c) == req[worker[c].rq].pos

\* pos + pos of the segment
Target(c) == req[worker[c].rq].pos + worker[c].seg

\* memcpy() of the current segment: the buffer of the disk, or that of the request.
\* It must be there, and the segment inside.
Mapped(c) == sdisk(req[worker[c].rq].dev) \in held /\ Target(c) < Sectors

Memcpy(c) ==
    LET r == worker[c].rq
        q == req[r]
    IN  [disks |-> IF q.write THEN [sectors EXCEPT ![q.dev][Target(c)] = r] ELSE sectors,
         rq |-> IF q.write THEN q ELSE [q EXCEPT !.buf[Target(c)] = sectors[q.dev][Target(c)]]]

Last(c) == worker[c].seg + 1 = req[worker[c].rq].len

\* A copy from or to memory that is not there.
Fault(c) ==
    /\ worker[c].at = "copy" /\ ~Mapped(c)
    /\ mod' = [mod EXCEPT !.at = "misuse"]
    /\ UNCHANGED <<lab, held, busy, ioVars>>
-----------------------------------------------------------------------------
(* sample_blk.c and ramhd_mkreq.c: nothing is locked between two segments.   *)

\* sampleblk_request(): the loop takes the next request; rv is what the one before
\* left.  ramhd_make_request(): called with the bio, err is 0.
Begin(c) ==
    /\ lab \in {"sample_blk", "ramhd_mkreq"} /\ worker[c].at \in {"out", "loop"}
    /\ \E i \in Device : \E r \in Pending(i) : Fetch(c, r)
    /\ UNCHANGED <<lab, mod, held, busy, sectors, prior>>

\* Mutant: the status of the copy is not taken.
handle_io_NoStatus(c) ==
    /\ lab \in {"sample_blk", "ramhd_mkreq"} /\ worker[c].at = "copy" /\ Mapped(c)
    /\ sectors' = Memcpy(c).disks
    /\ req' = [req EXCEPT ![worker[c].rq] = Memcpy(c).rq]
    /\ worker' = [worker EXCEPT ![c].at = IF Last(c) THEN "end" ELSE "copy", ![c].seg = @ + 1]
    /\ UNCHANGED <<lab, mod, held, busy, prior>>

\* One segment; sampleblk_handle_io() returns 0, and so does the loop over the bio.
handle_io(c) ==
    /\ lab \in {"sample_blk", "ramhd_mkreq"} /\ worker[c].at = "copy" /\ Mapped(c)
    /\ sectors' = Memcpy(c).disks
    /\ req' = [req EXCEPT ![worker[c].rq] = Memcpy(c).rq]
    /\ worker' = [worker EXCEPT ![c].at = IF Last(c) THEN "end" ELSE "copy",
                                ![c].seg = @ + 1, ![c].rv = 0]
    /\ UNCHANGED <<lab, mod, held, busy, prior>>

\* blk_end_request_all(), bio_endio()
end_request(c) ==
    /\ worker[c].at = "end"
    /\ req' = [req EXCEPT ![worker[c].rq].st = "done", ![worker[c].rq].err = worker[c].rv]
    /\ busy' = busy \ {worker[c].rq}
    /\ worker' = [worker EXCEPT ![c] = IF lab = "sample_blk"
                                       THEN [Out EXCEPT !.at = "loop", !.rv = worker[c].rv] ELSE Out]
    /\ UNCHANGED <<lab, mod, held, sectors, prior>>

\* sampleblk_request() finds the queue empty and returns.
sampleblk_return(c) ==
    /\ worker[c].at = "loop" /\ \A i \in Device : Pending(i) = {}
    /\ worker' = [worker EXCEPT ![c] = Out]
    /\ UNCHANGED <<lab, mod, held, busy, sectors, req, prior>>
-----------------------------------------------------------------------------
(* ramhd_req.c: called with the queue lock, which it keeps.                *)

\* Mutant: the function is entered beside another that holds the lock.
req_func_enter_NoLock(c) ==
    /\ lab = "ramhd_req" /\ worker[c].at = "out"
    /\ \E i \in Device : \E r \in Pending(i) : Fetch(c, r)
    /\ UNCHANGED <<lab, mod, held, busy, sectors, prior>>

req_func_enter(c) ==
    /\ lab = "ramhd_req" /\ worker[c].at = "out"
    /\ \E i \in Device : ~Locked(i) /\ \E r \in Pending(i) : Fetch(c, r)
    /\ UNCHANGED <<lab, mod, held, busy, sectors, prior>>

\* One segment; __blk_end_request_cur() says whether the request has another, and if
\* it has none the next request is fetched or the function returns.
ramhd_req_func(c) ==
    LET r    == worker[c].rq
        new  == Memcpy(c).rq
        more == Pending(req[r].dev)
    IN  /\ lab = "ramhd_req" /\ worker[c].at = "copy" /\ Mapped(c)
        /\ sectors' = Memcpy(c).disks
        /\ \/ /\ ~Last(c)
              /\ req' = [req EXCEPT ![r] = new]
              /\ worker' = [worker EXCEPT ![c].seg = @ + 1]
              /\ UNCHANGED busy
           \/ /\ Last(c)
              /\ busy' = busy \ {r}
              /\ \/ /\ more = {}
                    /\ req' = [req EXCEPT ![r] = [new EXCEPT !.st = "done"]]
                    /\ worker' = [worker EXCEPT ![c] = Out]
                 \/ \E n \in more :
                       /\ req' = [req EXCEPT ![r] = [new EXCEPT !.st = "done"],
                                             ![n].st = "started"]
                       /\ worker' = [worker EXCEPT ![c] = Started(c, n, 0)]
        /\ UNCHANGED <<lab, mod, held, prior>>

Work(c) ==
    /\ lab \in BlockModules /\ mod.at # "misuse"
    /\ \/ Begin(c) \/ handle_io(c) \/ end_request(c) \/ sampleblk_return(c)
       \/ req_func_enter(c) \/ ramhd_req_func(c) \/ Fault(c)

IoNext == lab \in BlockModules /\ ((\E r \in Req : submit_bio(r)) \/ (\E c \in Ctx : Work(c)))

\* What fairness is assumed of: a CPU goes on with the request function, or runs a
\* queue that is not empty.
IoProgress(c) == Work(c)
-----------------------------------------------------------------------------
(* Properties.                                                             *)

\* No segment is copied outside the buffer of its disk, or before it is there or after
\* it is freed; only ramhd_req.c, which adds disks whose vmalloc() failed, does.
CopySafe ==
    \A c \in Ctx : worker[c].at = "copy" /\ ~Mapped(c) => lab = "ramhd_req" /\ mod.failed

\* A request that has ended with 0 lies within its disk, one that failed does not: the
\* status is its own and not that of the request before it.
EndsRight ==
    \A r \in Req : req[r].st = "done" => req[r].err = IF Beyond(req[r]) THEN EIO ELSE 0

\* The content v of sector s of disk i is not older than the writes in known: no write
\* among them began after the one that wrote v had ended.
Wrote(o, i, s) == req[o].write /\ req[o].dev = i /\ s \in Range(req[o]) /\ ~Beyond(req[o])
Fresh(v, i, s, known) ==
    /\ v \in Req => Wrote(v, i, s)
    /\ ~\E o \in known : Wrote(o, i, s) /\ (v \in Req => v \in prior[o])

\* A read returns for each sector what the last write before it left, or a write that
\* overlaps it, also when other requests are copied between two of its segments.
ReadsFresh ==
    \A r \in Req : req[r].st = "done" /\ ~req[r].write /\ req[r].err = 0 =>
        \A s \in Range(req[r]) :
            /\ Fresh(req[r].buf[s], req[r].dev, s, prior[r])
            /\ req[r].buf[s] \in Req => r \notin prior[req[r].buf[s]]

\* A write that has ended is on the disk until another one replaces it.
WriteStays ==
    \A i \in Device, s \in Sector : Fresh(sectors[i][s], i, s, {r \in Req : req[r].st = "done"})

\* A request that was accepted ends.
Served == \A r \in Req : req[r].st = "queued" ~> req[r].st = "done" \/ mod.at = "misuse"

\* ramhd_req.c implements the atomic disk.  A request counts as carried out with its
\* first segment: nobody sees the disk until the lock is dropped.
Current(r) == {c \in Ctx : worker[c].at = "copy" /\ worker[c].rq = r /\ worker[c].seg > 0}
Rest(r) == {s \in Range(req[r]) : \E c \in Current(r) : s >= Target(c)}

StoreBar ==
    [i \in Device |-> [s \in Sector |->
        LET w == {r \in Req : req[r].dev = i /\ req[r].write /\ s \in Rest(r)}
        IN  IF lab # "ramhd_req" THEN Zero
            ELSE IF w = {} THEN sectors[i][s] ELSE CHOOSE r \in w : TRUE]]
RqsBar ==
    [r \in Req |->
        LET q == req[r]
        IN  IF lab # "ramhd_req" THEN [st |-> "idle", dev |-> 0, write |-> FALSE, pos |-> 0, len |-> 0, buf |-> Blank]
            ELSE [st |-> IF Current(r) # {} THEN "done"
                         ELSE IF q.st = "started" THEN "queued" ELSE q.st,
                  dev |-> q.dev, write |-> q.write, pos |-> q.pos, len |-> q.len,
                  buf |-> [s \in Sector |-> IF ~q.write /\ s \in Rest(r)
                                            THEN sectors[q.dev][s] ELSE q.buf[s]]]]
=============================================================================
