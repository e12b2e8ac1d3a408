------------------------------- MODULE SndCmp -------------------------------
(***************************************************************************)
(* Connections of the sound drivers to the plugs of a device                *)
(* (sound/firewire/cmp.c) and the isochronous resources they hold           *)
(* (sound/firewire/iso-resources.c).  One connection to one plug, which     *)
(* another controller uses too; a bus reset breaks connections and frees    *)
(* resources at the isochronous resource manager.                           *)
(*                                                                          *)
(* A step is one transaction.  fw_iso_resource_manage() is module           *)
(* FwIsoManage; here it succeeds, fails, or finds its generation over.      *)
(***************************************************************************)
EXTENDS Integers

CONSTANTS
    Chan,       \* isochronous channels
    CmpMaxGen,  \* bound: bus resets
    CmpMaxLost, \* bound: responses that get lost
    CmpMaxOther \* bound: what the other controller does to the plug

ASSUME CmpAssumption ==
    Chan \subseteq Nat /\ CmpMaxGen \in Nat /\ CmpMaxLost \in Nat /\ CmpMaxOther \in Nat

VARIABLES
    cmpGen,     \* generation of the bus
    plug,       \* plug control register of the device, and whose connection it has
    irmTaken,   \* channels that are allocated for the connection at the IRM
    res,        \* struct fw_iso_resources
    conn,       \* struct cmp_connection with the operation that runs
    cmpLost,    \* responses lost so far
    cmpOther    \* steps of the other controller so far

cmpvars == <<cmpGen, plug, irmTaken, res, conn, cmpLost, cmpOther>>

\* A register value: on-line, connected, channel.
Pcr(online, used, ch) == [online |-> online, used |-> used, ch |-> ch]
Unused == Pcr(TRUE, FALSE, 0)

SndCmpInit ==
    /\ cmpGen = 0
    /\ plug = [pcr |-> Unused, owner |-> "nobody"]
    /\ irmTaken = {}
    /\ res = [allocated |-> FALSE, generation |-> 0, channel |-> 0]
    /\ conn = [pc |-> "idle", connected |-> FALSE, last |-> Unused, arg |-> Unused, cut |-> FALSE,
               stolen |-> FALSE]
    /\ cmpLost = 0 /\ cmpOther = 0

SndCmpTypeOK ==
    /\ conn.pc \in {"idle", "allocate", "establish", "again", "break"}
    /\ plug.owner \in {"nobody", "us", "other"} /\ irmTaken \subseteq Chan
    /\ res.generation \in 0 .. CmpMaxGen /\ res.channel \in Chan \cup {0}

Returns == conn' = [conn EXCEPT !.pc = "idle"]
-----------------------------------------------------------------------------
(* Isochronous resources.                                                   *)

\* cmp_connection_reserve() and the first part of fw_iso_resources_allocate(), which
\* remembers the generation and waits for a second without bus reset.
cmp_connection_reserve ==
    /\ conn.pc = "idle" /\ ~res.allocated
    /\ res' = [res EXCEPT !.generation = cmpGen]
    /\ conn' = [conn EXCEPT !.pc = "allocate"]
    /\ UNCHANGED <<plug, irmTaken, cmpLost>>

\* Channels that the IRM has; the other controller too takes the one it uses from it.
Available == (Chan \ irmTaken) \ (IF plug.owner = "other" THEN {plug.pcr.ch} ELSE {})

\* fw_iso_resource_manage() finds its generation over, or gets a channel, or fails.
Managed == IF res.generation # cmpGen THEN {} ELSE Available

\* fw_iso_resources_allocate() tries again in the new generation; a signal interrupts it.
fw_iso_resources_allocate ==
    /\ conn.pc = "allocate"
    /\ \/ /\ res.generation # cmpGen
          /\ res' = [res EXCEPT !.generation = cmpGen]
          /\ UNCHANGED <<conn, irmTaken>>
       \/ \E ch \in Managed :
             /\ irmTaken' = irmTaken \cup {ch}
             /\ res' = [res EXCEPT !.allocated = TRUE, !.channel = ch]
             /\ Returns
       \/ Returns /\ UNCHANGED <<res, irmTaken>>
    /\ UNCHANGED <<plug, cmpLost>>

\* fw_iso_resources_update(): the same channel in the new generation.  Another bus reset
\* counts as success for the resources but not for the caller.  If pcr_modify() is next,
\* it starts with the value it remembers.
ResourcesUpdated(next) ==
    /\ \/ /\ res.allocated /\ res.channel \in Available
          /\ res' = [res EXCEPT !.generation = cmpGen]
          /\ irmTaken' = irmTaken \cup {res.channel}
          /\ conn' = [conn EXCEPT !.pc = next, !.arg = conn.last]
       \/ /\ res' = [res EXCEPT !.generation = IF res.allocated THEN cmpGen ELSE @, !.allocated = FALSE]
          /\ Returns /\ UNCHANGED irmTaken
    /\ UNCHANGED <<plug, cmpLost>>

\* A driver without CMP updates its resources before it starts to stream; one with CMP
\* leaves that to cmp_connection_establish().
fw_iso_resources_update ==
    /\ conn.pc = "idle" /\ ~conn.connected /\ res.allocated /\ res.generation # cmpGen
    /\ ResourcesUpdated("idle")

\* cmp_connection_release() with fw_iso_resources_free(): in a generation that is over
\* there is nothing to free.
cmp_connection_release ==
    /\ conn.pc = "idle" /\ res.allocated /\ ~conn.connected
    /\ \/ irmTaken' = IF res.generation = cmpGen THEN irmTaken \ {res.channel} ELSE irmTaken
       \/ res.generation = cmpGen /\ UNCHANGED irmTaken /\ cmpLost < CmpMaxLost
    /\ cmpLost' = IF irmTaken' = irmTaken /\ res.generation = cmpGen THEN cmpLost + 1 ELSE cmpLost
    /\ res' = [res EXCEPT !.allocated = FALSE]
    /\ UNCHANGED <<plug, conn>>

-----------------------------------------------------------------------------
(* The plug control register.                                               *)

\* ipcr_set_modify() and opcr_set_modify(); pcr_break_modify()
pcr_set_modify(old) == Pcr(old.online, TRUE, res.channel)
pcr_break_modify(old) == [old EXCEPT !.used = FALSE]

\* pcr_set_check()
pcr_set_check(old) == ~old.used /\ old.online

\* pcr_modify() starts with the value it remembers.
PcrModify(op) ==
    /\ conn.pc = "idle"
    /\ conn' = [conn EXCEPT !.pc = op, !.arg = conn.last]
    /\ UNCHANGED <<plug, irmTaken, res, cmpLost>>

cmp_connection_establish == res.allocated /\ ~conn.connected /\ PcrModify("establish")
cmp_connection_break == conn.connected /\ PcrModify("break")

\* Mutant: a value that differs is taken over without a check.
NoCheck(found) == TRUE

\* After a compare-swap that failed: pcr_set_check() of the value found.
GoesOn(found) == conn.pc = "establish" => pcr_set_check(found)

\* The next try expects the value found.
NextTry(found) == [conn EXCEPT !.arg = found]

\* One compare-swap of pcr_modify(), in the generation of the resources.
pcr_modify ==
    LET set == conn.pc = "establish"
        new == IF set THEN pcr_set_modify(conn.arg) ELSE pcr_break_modify(conn.arg)
    IN
    /\ conn.pc \in {"establish", "break"}
    /\ \/ /\ res.generation = cmpGen /\ plug.pcr = conn.arg
          /\ plug' = [pcr |-> new, owner |-> IF set THEN "us" ELSE "nobody"]
          /\ \/ /\ conn' = [conn EXCEPT !.pc = "idle", !.connected = set, !.last = new,
                                        !.stolen = set /\ plug.owner = "other" /\ ~conn.cut,
                                        !.cut = FALSE]
                /\ UNCHANGED cmpLost
             \/ \* The response is lost; snd_fw_transaction() repeats the request.
                /\ cmpLost < CmpMaxLost /\ cmpLost' = cmpLost + 1
                /\ UNCHANGED conn
       \/ /\ res.generation = cmpGen /\ plug.pcr # conn.arg
          /\ conn' = IF GoesOn(plug.pcr)
                     THEN NextTry(plug.pcr)
                     ELSE [conn EXCEPT !.pc = "idle"]
          /\ UNCHANGED <<plug, cmpLost>>
       \/ \* -EAGAIN
          /\ res.generation # cmpGen
          /\ conn' = IF set THEN [conn EXCEPT !.pc = "again"]
                     ELSE [conn EXCEPT !.pc = "idle", !.connected = FALSE, !.cut = TRUE]
          /\ UNCHANGED <<plug, cmpLost>>
    /\ UNCHANGED <<irmTaken, res>>

\* A permanent error of the transaction; a connection to be broken counts as broken.
PcrModifyFails ==
    /\ conn.pc \in {"establish", "break"}
    /\ cmpLost < CmpMaxLost /\ cmpLost' = cmpLost + 1
    /\ conn' = [conn EXCEPT !.pc = "idle", !.connected = FALSE,
                            !.cut = @ \/ conn.pc = "break"]
    /\ UNCHANGED <<plug, irmTaken, res>>

\* cmp_connection_establish() after a bus reset.
RetryAfterBusReset ==
    /\ conn.pc = "again"
    /\ \/ /\ ResourcesUpdated("establish")
       \/ /\ Returns /\ UNCHANGED <<plug, irmTaken, res, cmpLost>>

-----------------------------------------------------------------------------
(* The environment.                                                         *)

CmpBusReset ==
    /\ cmpGen < CmpMaxGen /\ (res.allocated \/ conn.pc # "idle")
    /\ cmpGen' = cmpGen + 1
    /\ plug' = [pcr |-> [plug.pcr EXCEPT !.used = FALSE], owner |-> "nobody"]
    /\ irmTaken' = {}
    /\ UNCHANGED <<res, conn, cmpLost, cmpOther>>

\* Another controller connects the plug if it is free, or breaks its connection.
OtherController ==
    /\ cmpOther < CmpMaxOther /\ cmpOther' = cmpOther + 1
    /\ (res.allocated \/ conn.pc # "idle")
    /\ \/ /\ plug.owner = "nobody" /\ ~plug.pcr.used
          /\ \E ch \in Available : plug' = [pcr |-> Pcr(TRUE, TRUE, ch), owner |-> "other"]
       \/ /\ plug.owner = "other"
          /\ plug' = [pcr |-> [plug.pcr EXCEPT !.used = FALSE], owner |-> "nobody"]
    /\ UNCHANGED <<cmpGen, irmTaken, res, conn, cmpLost>>

ConnStep ==
    /\ fw_iso_resources_allocate \/ pcr_modify \/ PcrModifyFails \/ RetryAfterBusReset
    /\ UNCHANGED <<cmpGen, cmpOther>>

SndCmpNext ==
    \/ ConnStep \/ CmpBusReset \/ OtherController
    \/ /\ \/ cmp_connection_reserve \/ cmp_connection_release \/ fw_iso_resources_update
          \/ cmp_connection_establish \/ cmp_connection_break
       /\ UNCHANGED <<cmpGen, cmpOther>>

SndCmpFairness == WF_cmpvars(ConnStep)

SndCmpSpec == SndCmpInit /\ [][SndCmpNext]_cmpvars /\ SndCmpFairness

-----------------------------------------------------------------------------
(* Plug and resources follow the driver's idea of them (cmp.c:76-110,       *)
(* 282-351, iso-resources.c:102-226), as long as no response of the device  *)
(* gets lost: in the generation of its resources a connection that counts   *)
(* as established is the one in the plug, a plug that was connected for it  *)
(* is never forgotten, and a channel taken at the IRM is the one that the   *)
(* resources hold.  A connection is not established over one of another     *)
(* controller, unless the last one was cut off by a bus reset: then         *)
(* last_pcr_value is in use, and a plug with the same value is taken over.  *)
PlugFollowsConnection ==
    /\ SndCmpTypeOK /\ ~conn.stolen
    /\ cmpLost = 0 =>
          /\ conn.connected /\ res.generation = cmpGen => plug.owner = "us"
          /\ plug.owner = "us" => conn.connected
          /\ irmTaken # {} => res.allocated /\ irmTaken = {res.channel}

(* Operations on a connection come to an end (cmp.c:76-110, 298-318,        *)
(* iso-resources.c:114-153), although pcr_modify() and the allocation retry *)
(* without a limit: each retry answers a change by somebody else.           *)
ConnectionEnds == (conn.pc # "idle") ~> (conn.pc = "idle")
=============================================================================
