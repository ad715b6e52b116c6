----------------------------- MODULE KobjEvent ------------------------------
(***************************************************************************)
(* The sysfs attribute of kobject-ueveng-lab/kobject-event.c: processes      *)
(* write a command to it, beside the loading and unloading of ModuleLoad.    *)
(* att_store() keeps the command in the global flag, switches on that, and   *)
(* sends an event or sets uevent_suppress.  Nothing orders two stores: the   *)
(* switch may read what another one wrote, and the suppression may change    *)
(* between the test in kobject_uevent() and the sending.                    *)
(***************************************************************************)
EXTENDS ModuleLoad

CONSTANT Command    \* what is written: 0 .. 5 an event, 6 and 7 suppress and allow them

VARIABLES
    flag,       \* the global
    suppress,   \* kobj->uevent_suppress
    store       \* per process, its att_store(): where it is, the command it was given and
                \* those stored by others before it switches, the one it acts on, what became
                \* of the event, and the values uevent_suppress has had since it began

kobjVars == <<flag, suppress, store>>

Events  == 0 .. 5       \* ADD, REMOVE, CHANGE, MOVE, ONLINE, OFFLINE
None    == -1
NoStore == [pc |-> "none", want |-> None, later |-> {}, act |-> None, event |-> "none", seen |-> {}]

KobjInit ==
    /\ flag = 1 /\ suppress = FALSE
    /\ store = [c \in Ctx |-> NoStore]
-----------------------------------------------------------------------------
\* The store of c with command v begins, under those that have not switched yet.
Entered(c, v) ==
    [o \in Ctx |->
        IF o = c THEN [NoStore EXCEPT !.pc = "switch", !.want = v, !.seen = {suppress}]
        ELSE [store[o] EXCEPT !.later = IF store[o].pc = "switch" THEN @ \cup {v} ELSE @]]

\* Mutant: a command that is no event is not stored.
att_store_EventsOnly(c) ==
    /\ lab = "kobject" /\ "attr" \in held /\ c \notin busy
    /\ \E v \in Command :
          /\ flag' = IF v \in Events THEN v ELSE flag
          /\ store' = Entered(c, v)
    /\ busy' = busy \cup {c}
    /\ UNCHANGED <<lab, mod, held, suppress>>

\* flag = buf[0] - '0'
att_store(c) ==
    /\ lab = "kobject" /\ "attr" \in held /\ c \notin busy
    /\ \E v \in Command :
          /\ flag' = v
          /\ store' = Entered(c, v)
    /\ busy' = busy \cup {c}
    /\ UNCHANGED <<lab, mod, held, suppress>>

\* switch (flag): the value is still in a register, or is read again.  Of the later commands
\* only whether it is one of them matters from here on.
Switch(c) ==
    /\ store[c].pc = "switch"
    /\ \E v \in {store[c].want, flag} :
          store' = [store EXCEPT ![c].act = v, ![c].later = @ \cap {v},
                                 ![c].pc = IF v \in Events THEN "uevent"
                                           ELSE IF v \in {6, 7} THEN "suppress" ELSE "return"]
    /\ UNCHANGED <<lab, mod, held, busy, flag, suppress>>

\* kobject_uevent(): a suppressed event is dropped.
kobject_uevent(c) ==
    /\ store[c].pc = "uevent"
    /\ store' = [store EXCEPT ![c].pc = IF suppress THEN "return" ELSE "send",
                              ![c].event = IF suppress THEN "dropped" ELSE @]
    /\ UNCHANGED <<lab, mod, held, busy, flag, suppress>>

\* The event goes out, or there is no memory for it, which att_store() does not look at.
SendEvent(c) ==
    /\ store[c].pc = "send"
    /\ \E result \in {"sent", "no memory"} :
          store' = [store EXCEPT ![c].pc = "return", ![c].event = result]
    /\ UNCHANGED <<lab, mod, held, busy, flag, suppress>>

SetSuppress(c) ==
    /\ store[c].pc = "suppress"
    /\ suppress' = (store[c].act = 6)
    /\ store' = [o \in Ctx |->
                    [store[o] EXCEPT !.pc = IF o = c THEN "return" ELSE @,
                                     !.seen = IF store[o].pc = "none" THEN @
                                              ELSE @ \cup {store[c].act = 6}]]
    /\ UNCHANGED <<lab, mod, held, busy, flag>>

StoreReturns(c) ==
    /\ store[c].pc = "return"
    /\ store' = [store EXCEPT ![c] = NoStore]
    /\ busy' = busy \ {c}
    /\ UNCHANGED <<lab, mod, held, flag, suppress>>

KobjNext ==
    /\ lab = "kobject"
    /\ \E c \in Ctx : \/ att_store(c) \/ Switch(c) \/ kobject_uevent(c) \/ SendEvent(c)
                      \/ SetSuppress(c) \/ StoreReturns(c)
-----------------------------------------------------------------------------
(* Properties.                                                             *)

\* A store acts on its own command or on one that was stored after it, so that the last of
\* those that overlap acts on its own; it sends an event only if events were allowed, and
\* drops one only if they were suppressed, at some time between its beginning and its end,
\* however the stores interleave and whether the compiler reads flag once or twice.
CommandObeyed ==
    \A c \in Ctx : LET s == store[c] IN s.pc = "return" =>
        /\ s.act = s.want \/ s.act \in s.later
        /\ s.act \in Events <=> s.event # "none"
        /\ s.event = "sent" => FALSE \in s.seen
        /\ s.event = "dropped" => TRUE \in s.seen
=============================================================================
