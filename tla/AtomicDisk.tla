----------------------------- MODULE AtomicDisk -----------------------------
(***************************************************************************)
(* What ramhd_req.c promises with the queue lock held around its loop: a     *)
(* request is carried out at one instant between its submission and its end. *)
(***************************************************************************)
EXTENDS Integers

CONSTANTS MaxReq, Sectors, Device

VARIABLES
    store,  \* the content of the disks
    rqs     \* the requests

Req  == 1 .. MaxReq
Zero == 0
Blank == [s \in 0 .. Sectors - 1 |-> Zero]
NoRequest == [st |-> "idle", dev |-> 0, write |-> FALSE, pos |-> 0, len |-> 0, buf |-> Blank]

Range(q) == q.pos .. q.pos + q.len - 1

Init == store = [i \in Device |-> Blank] /\ rqs = [r \in Req |-> NoRequest]

Submit(r) ==
    /\ rqs[r].st = "idle" /\ \A o \in 1 .. r - 1 : rqs[o].st # "idle"
    /\ \E i \in Device, w \in BOOLEAN, p \in 0 .. Sectors - 1, n \in 1 .. Sectors :
          /\ p + n <= Sectors
          /\ rqs' = [rqs EXCEPT ![r] = [NoRequest EXCEPT !.st = "queued", !.dev = i, !.write = w,
                                                    !.pos = p, !.len = n]]
    /\ UNCHANGED store

Serve(r) ==
    LET q == rqs[r]
        Part(new, old) == [s \in 0 .. Sectors - 1 |-> IF s \in Range(q) THEN new[s] ELSE old[s]]
    IN  /\ q.st = "queued"
        /\ rqs' = [rqs EXCEPT ![r].st = "done",
                              ![r].buf = IF q.write THEN @ ELSE Part(store[q.dev], @)]
        /\ store' = IF ~q.write THEN store
                    ELSE [store EXCEPT ![q.dev] = Part([s \in 0 .. Sectors - 1 |-> r], @)]

Next == \E r \in Req : Submit(r) \/ Serve(r)

Spec == Init /\ [][Next]_<<store, rqs>>
=============================================================================
