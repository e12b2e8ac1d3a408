------------------------------- MODULE FwSbp2 -------------------------------
(***************************************************************************)
(* The SBP-2 initiator (drivers/firewire/sbp2.c): the life of operation     *)
(* request blocks (ORBs), login and reconnection of logical units in their  *)
(* work items, blocking of the SCSI host across bus resets, and probe,      *)
(* update and removal of a target.                                          *)
(*                                                                          *)
(* Threads are the work item of each logical unit, which also stands for    *)
(* sbp2_remove() once that has cancelled the work, and the error handler of *)
(* the SCSI midlayer.  Callbacks of transactions and of the status FIFO run *)
(* between any two of their steps.  The storage device and the midlayer are *)
(* environment: the device may answer an ORB in any way, or never.          *)
(***************************************************************************)
EXTENDS Integers, FiniteSets

CONSTANTS
    LU,             \* logical units of the target
    NOrb,           \* bound: struct sbp2_orb objects that memory holds at once
    SbpMaxGen,      \* bound: number of bus resets
    SbpRetryLimit   \* 5 in the code, of sbp2_login() and of sbp2_reconnect()

ASSUME SbpAssumption ==
    /\ IsFiniteSet(LU) /\ LU \cap {"eh", "lu", "stack", "none"} = {}
    /\ NOrb \in Nat \ {0} /\ SbpMaxGen \in Nat /\ SbpRetryLimit \in Nat

VARIABLES
    sbpBus,     \* generations of card and device, and whether an update is due
    tgt,        \* struct sbp2_target with its Scsi_Host
    lus,        \* struct sbp2_logical_unit
    orbs,       \* ORBs with their transactions
    run,        \* what each thread is doing
    command     \* the ORB of the command the midlayer has outstanding, or 0:
                \* .can_queue is 1

sbpvars == <<sbpBus, tgt, lus, orbs, run, command>>

Orb == 1 .. NOrb
SbpThread == LU \cup {"eh"}

\* list: that of the logical unit ("lu"), or the private one of a thread.  raced and
\* overtaken record the two races that sbp2.c does not exclude: the ORB was
\* cancelled between the end of its transaction and complete_transaction();
\* its status was written before its transaction ended.
NoOrb == [kind |-> "free", lu |-> "none", list |-> "none", t |-> "idle", rcode |-> "unset",
          ref |-> 0, calls |-> 0, status |-> "none", raced |-> FALSE, overtaken |-> FALSE]
NoLu == [alive |-> FALSE, gen |-> 0, login |-> FALSE, retries |-> 0, sdev |-> FALSE,
         blocked |-> FALSE, workfn |-> "login", queued |-> FALSE]
NoThread == [pc |-> "idle", fn |-> "none", after |-> "none", gen |-> 0, orb |-> 0,
             lu |-> "none", found |-> FALSE, retval |-> "ok"]

Sbp2Init ==
    /\ sbpBus = [card |-> 0, device |-> 0, due |-> FALSE, shutdown |-> FALSE]
    /\ tgt = [state |-> "absent", dont_block |-> 0, blocked |-> 0, host |-> FALSE]
    /\ lus = [l \in LU |-> NoLu]
    /\ orbs = [o \in Orb |-> NoOrb]
    /\ run = [h \in SbpThread |-> NoThread]
    /\ command = 0

Sbp2TypeOK ==
    /\ sbpBus \in [card : 0 .. SbpMaxGen, device : 0 .. SbpMaxGen, due : BOOLEAN,
                   shutdown : BOOLEAN]
    /\ tgt \in [state : {"absent", "bound", "removing", "gone"}, dont_block : Nat,
                blocked : 0 .. Cardinality(LU), host : BOOLEAN]
    /\ lus \in [LU -> [alive : BOOLEAN, gen : 0 .. SbpMaxGen, login : BOOLEAN,
                       retries : 0 .. SbpRetryLimit + 1, sdev : BOOLEAN, blocked : BOOLEAN,
                       workfn : {"login", "reconnect"}, queued : BOOLEAN]]
    /\ command \in 0 .. NOrb
    /\ \A h \in SbpThread : run[h].orb \in 0 .. NOrb
    /\ \A o \in Orb : orbs[o].list \in SbpThread \cup {"none", "lu", "stack"}

-----------------------------------------------------------------------------
(* Reference counts of an ORB and its callback.                             *)

\* kref_put(&orb->kref, free_orb).  The counter of an ORB that raced may reach 0 early: the
\* model keeps that object until nobody uses it any more.
free_orb(b, o) ==
    IF IF b.raced THEN b.t = "done" /\ \A l \in LU : run[l].orb # o ELSE b.ref = 0
    THEN NoOrb ELSE b

kref_put(b, o) == free_orb([b EXCEPT !.ref = @ - 1], o)

\* orb->callback() and the put of its reference: complete_management_orb() keeps the
\* status, complete_command_orb() ends the command.
Callback(b, o, status) ==
    kref_put([b EXCEPT !.calls = @ + 1,
                       !.status = IF b.kind = "mgmt" THEN status ELSE b.status], o)

\* What complete_command_orb() does to the command: scsi_done(), which leaves a command
\* to the error handler that has it.
complete_command_orb(o) == IF command = o /\ run["eh"].pc = "idle" THEN 0 ELSE command

\* sbp2_conditionally_block(): scsi_block_requests() is under the lock.
sbp2_conditionally_block(t, ls, l) ==
    IF t.dont_block = 0 /\ ~ls[l].blocked /\ ls[l].gen # sbpBus.card
    THEN [tgt |-> [t EXCEPT !.blocked = @ + 1, !.host = @ \/ t.blocked = 0],
          lus |-> [ls EXCEPT ![l].blocked = TRUE]]
    ELSE [tgt |-> t, lus |-> ls]

\* The callback of ORB o, now b, without a status also blocks the host if it was a command.
FailedCallback(b, o) ==
    LET block == IF b.kind = "cmd" /\ lus[b.lu].alive
                 THEN sbp2_conditionally_block(tgt, lus, b.lu) ELSE [tgt |-> tgt, lus |-> lus]
    IN /\ orbs' = [orbs EXCEPT ![o] = Callback(b, o, "none")]
       /\ command' = complete_command_orb(o)
       /\ tgt' = block.tgt
       /\ lus' = block.lus

\* sbp2_send_orb(): onto the list of the logical unit, a reference for the transaction
\* and one for the callback, and the write of the ORB pointer.
sbp2_send_orb(o, kind, l, rcode, ref) ==
    orbs' = [orbs EXCEPT ![o] = [NoOrb EXCEPT !.kind = kind, !.lu = l, !.list = "lu",
                                              !.t = "flight", !.rcode = rcode, !.ref = ref + 2]]

FreeOrbs == {o \in Orb : orbs[o].kind = "free"}
AnOrb == CHOOSE o \in FreeOrbs : TRUE

-----------------------------------------------------------------------------
(* Callbacks: the end of the ORB pointer write and the status FIFO.         *)

\* The transaction of the ORB pointer ends: it can no longer be cancelled, but
\* complete_transaction() has not run yet.
TransactionEnds(o) ==
    /\ orbs[o].t = "flight"
    /\ orbs' = [orbs EXCEPT ![o].t = "closing"]
    /\ UNCHANGED <<sbpBus, tgt, lus, run, command>>

\* Mutant: the rcode of the transaction counts even if a status came first.
RcodeOverridden(o, b, rcode) ==
    LET b1 == [b EXCEPT !.t = "done", !.rcode = rcode, !.ref = @ - 1]
    IN IF rcode # "complete"
       THEN FailedCallback([b1 EXCEPT !.list = "none"], o)
       ELSE /\ orbs' = [orbs EXCEPT ![o] = free_orb(b1, o)]
            /\ UNCHANGED <<tgt, lus, command>>

\* complete_transaction(): on failure the ORB is unlinked and its callback runs, but not
\* if a status came first.  A management ORB starts with rcode RCODE_COMPLETE, as it
\* comes from kzalloc(), so that its failed write looks like a missing status.
CompleteTransaction(o, b, rcode) ==
    LET r  == IF b.rcode = "unset" THEN rcode ELSE b.rcode
        b1 == [b EXCEPT !.t = "done", !.overtaken = FALSE, !.rcode = r, !.ref = @ - 1]
    IN IF r # "complete"
       THEN FailedCallback([b1 EXCEPT !.list = "none"], o)
       ELSE /\ orbs' = [orbs EXCEPT ![o] = free_orb(b1, o)]
            /\ UNCHANGED <<tgt, lus, command>>

complete_transaction(o, rcode) ==
    /\ orbs[o].t = "closing"
    /\ CompleteTransaction(o, orbs[o], rcode)
    /\ UNCHANGED <<sbpBus, run>>

\* sbp2_status_write(): the ORB is looked up on the list of the logical unit only.
sbp2_status_write(o, status) ==
    /\ orbs[o].kind # "free" /\ orbs[o].list = "lu"
    /\ LET b == [orbs[o] EXCEPT !.rcode = "complete", !.list = "none",
                                !.overtaken = @ \/ orbs[o].t # "done"]
       IN orbs' = [orbs EXCEPT ![o] = Callback(b, o, status)]
    /\ command' = complete_command_orb(o)
    /\ UNCHANGED <<sbpBus, tgt, lus, run>>

-----------------------------------------------------------------------------
(* sbp2_cancel_orbs() of a thread.                                          *)

\* The ORBs of the logical unit move to a list of the thread.
Splice(os, h, l) ==
    [o \in Orb |-> IF os[o].list = "lu" /\ os[o].lu = l THEN [os[o] EXCEPT !.list = h] ELSE os[o]]

Spliced(os, h) == {o \in Orb : os[o].list = h}

\* One round of the loop over the private list, without the lock.  A management ORB
\* whose transaction is cancelled keeps RCODE_COMPLETE: complete_transaction() leaves it
\* on the private list and does not call it back.
sbp2_cancel_orbs(h) ==
    /\ run[h].pc = "cancel"
    /\ \E o \in Spliced(orbs, h) :
        /\ IF orbs[o].t = "flight"                           \* fw_cancel_transaction() = 0
           THEN CompleteTransaction(o, [orbs[o] EXCEPT !.list = "stack"], "cancelled")
           ELSE FailedCallback([orbs[o] EXCEPT !.rcode = "cancelled", !.list = "none",
                                               !.raced = orbs[o].t = "closing"], o)
        /\ run' = [run EXCEPT ![h].found = TRUE]
    /\ UNCHANGED sbpBus

\* The loop is over.  The caller goes on: to the result of its management ORB, to
\* sbp2_conditionally_unblock() after a login or reconnection, or out of the abort.
CancelEnds(h) ==
    /\ run[h].pc = "cancel" /\ Spliced(orbs, h) = {}
    /\ IF h = "eh"
       THEN /\ run' = [run EXCEPT ![h] = NoThread]
            /\ command' = 0                                  \* the midlayer takes it back
       ELSE /\ run' = [run EXCEPT ![h].pc = IF run[h].orb # 0 THEN "result" ELSE "unblock"]
            /\ UNCHANGED command
    /\ UNCHANGED <<sbpBus, tgt, lus, orbs>>

\* sbp2_scsi_abort(): resets the fetch agent and cancels all ORBs of the logical unit.
sbp2_scsi_abort ==
    /\ run["eh"].pc = "idle" /\ command # 0
    /\ LET l == orbs[command].lu
       IN /\ orbs' = Splice(orbs, "eh", l)
          /\ run' = [run EXCEPT !["eh"] = [NoThread EXCEPT !.pc = "cancel", !.lu = l]]
    /\ UNCHANGED <<sbpBus, tgt, lus, command>>

-----------------------------------------------------------------------------
(* sbp2_send_management_orb() of the thread of logical unit l.              *)

\* The call: no logout of a device that is gone, and an allocation that may fail.
sbp2_send_management_orb(l) ==
    /\ run[l].pc = "send"
    /\ IF run[l].fn = "logout" /\ sbpBus.shutdown
       THEN run' = [run EXCEPT ![l].pc = "result", ![l].retval = "ok"] /\ UNCHANGED orbs
       ELSE IF FreeOrbs = {}
       THEN run' = [run EXCEPT ![l].pc = "result", ![l].retval = "error"] /\ UNCHANGED orbs
       ELSE /\ sbp2_send_orb(AnOrb, "mgmt", l, "complete", 1)
            /\ run' = [run EXCEPT ![l].pc = "wait", ![l].orb = AnOrb]
    /\ UNCHANGED <<sbpBus, tgt, lus, command>>

\* The wait ends, with the callback of the ORB or after the timeout; in both cases the
\* ORBs of the logical unit are cancelled, commands included.
WaitEnds(l) ==
    /\ run[l].pc = "wait"
    /\ orbs' = Splice(orbs, l, l)
    /\ run' = [run EXCEPT ![l].pc = "cancel", ![l].found = FALSE]
    /\ UNCHANGED <<sbpBus, tgt, lus, command>>

\* What the function returns: an error if any ORB of the logical unit had to be cancelled,
\* a command too.  The status of an ORB is zero, that is good, until one is written.
Retval(l) ==
    IF run[l].orb = 0 THEN run[l].retval
    ELSE IF ~run[l].found /\ orbs[run[l].orb].rcode = "complete"
            /\ orbs[run[l].orb].status # "error" THEN "ok" ELSE "error"

\* The put of the caller's reference; an ORB left on the private list is lost memory.
PutManagementOrb(l) ==
    LET o == run[l].orb
    IN IF o = 0 THEN orbs
       ELSE [orbs EXCEPT ![o] = IF orbs[o].list = "stack" THEN NoOrb ELSE kref_put(orbs[o], o)]

\* queue_delayed_work(): nothing if the work is queued already.
sbp2_queue_work(ls, l) == [ls EXCEPT ![l].queued = TRUE]

\* sbp2_unblock(): the counter under the lock, and the host right after it.
sbp2_unblock(t) == [t EXCEPT !.dont_block = @ + 1, !.host = FALSE]

Go(l, pc, fn, after) ==
    run' = [run EXCEPT ![l].pc = pc, ![l].fn = fn, ![l].after = after, ![l].orb = 0]
Done(l) == run' = [run EXCEPT ![l] = NoThread]

-----------------------------------------------------------------------------
(* sbp2_login() and sbp2_reconnect(), the work functions.                   *)

\* sbp2_lu_workfn(): the work starts and reads the generation of the device; a login
\* that is repeated for an existing SCSI device logs out first.
sbp2_lu_workfn(l) ==
    /\ lus[l].alive /\ lus[l].queued /\ run[l].pc = "idle"
    /\ lus' = [lus EXCEPT ![l].queued = FALSE]
    /\ IF sbpBus.shutdown THEN UNCHANGED run
       ELSE run' = [run EXCEPT ![l] = [NoThread EXCEPT
                    !.pc = "send", !.gen = sbpBus.device, !.after = lus[l].workfn,
                    !.fn = IF lus[l].workfn = "login" /\ lus[l].sdev THEN "logout"
                           ELSE lus[l].workfn]]
    /\ UNCHANGED <<sbpBus, tgt, orbs, command>>

\* A logout before a new login: its outcome does not matter.
AfterLogout(l) ==
    /\ run[l].pc = "result" /\ run[l].fn = "logout" /\ run[l].after = "login"
    /\ orbs' = PutManagementOrb(l)
    /\ Go(l, "send", "login", "login")
    /\ UNCHANGED <<sbpBus, tgt, lus, command>>

\* sbp2_login() failed: retried, or the host is unblocked to let waiting I/O fail.
LoginFails(l) ==
    /\ run[l].pc = "result" /\ run[l].fn = "login" /\ Retval(l) = "error"
    /\ orbs' = PutManagementOrb(l)
    /\ IF lus[l].retries < SbpRetryLimit
       THEN /\ lus' = sbp2_queue_work([lus EXCEPT ![l].retries = @ + 1], l)
            /\ UNCHANGED tgt
       ELSE /\ lus' = [lus EXCEPT ![l].retries = SbpRetryLimit + 1]
            /\ tgt' = sbp2_unblock(tgt)
    /\ Done(l)
    /\ UNCHANGED <<sbpBus, command>>

\* sbp2_login() succeeded: generation, login ID, workfn; then either the ORBs are
\* cancelled (a re-login) or the SCSI device is added.
LoginSucceeds(l) ==
    /\ run[l].pc = "result" /\ run[l].fn = "login" /\ Retval(l) = "ok"
    /\ lus' = [lus EXCEPT ![l].gen = run[l].gen, ![l].login = TRUE, ![l].workfn = "reconnect"]
    /\ IF lus[l].sdev
       THEN /\ orbs' = Splice(PutManagementOrb(l), l, l)
            /\ Go(l, "cancel", "none", "login")
       ELSE /\ orbs' = PutManagementOrb(l)
            /\ Go(l, "adding", "none", "login")
    /\ UNCHANGED <<sbpBus, tgt, command>>

\* __scsi_add_device() returned, and no bus reset happened meanwhile.
DeviceAdded(l) ==
    /\ run[l].pc = "adding" /\ run[l].gen = sbpBus.card /\ command = 0
    /\ lus' = [lus EXCEPT ![l].sdev = TRUE]
    /\ tgt' = [tgt EXCEPT !.dont_block = @ - 1]              \* sbp2_allow_block()
    /\ Done(l)
    /\ UNCHANGED <<sbpBus, orbs, command>>

\* out_logout_login: the device was not added, or is removed after a bus reset.
DeviceNotAdded(l) ==
    /\ run[l].pc = "adding" /\ command = 0
    /\ run' = [run EXCEPT ![l].pc = "send", ![l].fn = "logout", ![l].after = "logout",
                          ![l].gen = sbpBus.device]
    /\ UNCHANGED <<sbpBus, tgt, lus, orbs, command>>

ResetToLogin(l) ==
    /\ run[l].pc = "result" /\ run[l].fn = "logout" /\ run[l].after = "logout"
    /\ orbs' = PutManagementOrb(l)
    /\ lus' = [lus EXCEPT ![l].workfn = "login"]
    /\ Done(l)
    /\ UNCHANGED <<sbpBus, tgt, command>>

\* sbp2_reconnect() failed: a new login if the generation is still that one, or after
\* too many retries.
ReconnectFails(l) ==
    /\ run[l].pc = "result" /\ run[l].fn = "reconnect" /\ Retval(l) = "error"
    /\ orbs' = PutManagementOrb(l)
    /\ lus' = sbp2_queue_work(
         IF run[l].gen = sbpBus.card \/ lus[l].retries >= SbpRetryLimit
         THEN [lus EXCEPT ![l].retries = 0, ![l].workfn = "login"]
         ELSE [lus EXCEPT ![l].retries = @ + 1], l)
    /\ Done(l)
    /\ UNCHANGED <<sbpBus, tgt, command>>

ReconnectSucceeds(l) ==
    /\ run[l].pc = "result" /\ run[l].fn = "reconnect" /\ Retval(l) = "ok"
    /\ lus' = [lus EXCEPT ![l].gen = run[l].gen]
    /\ orbs' = Splice(PutManagementOrb(l), l, l)
    /\ Go(l, "cancel", "none", "reconnect")
    /\ UNCHANGED <<sbpBus, tgt, command>>

\* sbp2_conditionally_unblock(), under the lock.
sbp2_conditionally_unblock(l) ==
    /\ run[l].pc = "unblock"
    /\ IF lus[l].blocked /\ lus[l].gen = sbpBus.card
       THEN /\ lus' = [lus EXCEPT ![l].blocked = FALSE]
            /\ tgt' = [tgt EXCEPT !.blocked = @ - 1]
            /\ IF tgt.blocked = 1 THEN run' = [run EXCEPT ![l].pc = "unblocking"] ELSE Done(l)
       ELSE Done(l) /\ UNCHANGED <<lus, tgt>>
    /\ UNCHANGED <<sbpBus, orbs, command>>

\* scsi_unblock_requests() outside the lock.
scsi_unblock_requests(l) ==
    /\ run[l].pc = "unblocking"
    /\ tgt' = [tgt EXCEPT !.host = FALSE]
    /\ Done(l)
    /\ UNCHANGED <<sbpBus, lus, orbs, command>>

-----------------------------------------------------------------------------
(* Commands, bus resets, probe, update and removal.                         *)

\* sbp2_scsi_queuecommand(): the midlayer sends one command at a time, to a device that
\* was added or is being added, unless the host is blocked.
sbp2_scsi_queuecommand(l) ==
    /\ tgt.state \in {"bound", "removing"} /\ ~tgt.host /\ command = 0
    /\ lus[l].alive /\ (lus[l].sdev \/ run[l].pc = "adding")
    /\ FreeOrbs # {} /\ run["eh"].pc = "idle"
    /\ sbp2_send_orb(AnOrb, "cmd", l, "unset", 0)
    /\ command' = AnOrb
    /\ UNCHANGED <<sbpBus, tgt, lus, run>>

\* A bus reset changes the generation of the card, then that of the device; or the
\* device is gone.
SbpBusReset ==
    /\ sbpBus.card < SbpMaxGen /\ ~sbpBus.shutdown
    /\ sbpBus' = [sbpBus EXCEPT !.card = @ + 1]
    /\ UNCHANGED <<tgt, lus, orbs, run, command>>

SbpNodeEvent ==
    /\ sbpBus.device # sbpBus.card /\ ~sbpBus.shutdown
    /\ \/ sbpBus' = [sbpBus EXCEPT !.device = sbpBus.card, !.due = TRUE]
       \/ sbpBus' = [sbpBus EXCEPT !.shutdown = TRUE, !.due = FALSE]
    /\ UNCHANGED <<tgt, lus, orbs, run, command>>

\* sbp2_add_logical_unit(), for an entry of the unit directory or of a directory of
\* logical units in it; memory may run out after some of the entries.
sbp2_add_logical_unit == [NoLu EXCEPT !.alive = TRUE]

sbp2_scan_unit_dir(added) == [l \in LU |-> IF l \in added THEN sbp2_add_logical_unit ELSE NoLu]

\* sbp2_probe() scans the directory and queues a login for each logical unit.  A failure
\* after some logical units were added ends in sbp2_remove().
sbp2_probe ==
    /\ tgt.state = "absent"
    /\ \/ \E ok \in BOOLEAN, S \in SUBSET LU :
            /\ ok => S = LU
            /\ lus' = [l \in LU |-> [sbp2_scan_unit_dir(S)[l] EXCEPT !.queued = ok]]
            /\ tgt' = [tgt EXCEPT !.state = IF ok THEN "bound" ELSE "removing",
                                  !.dont_block = Cardinality(S) + (IF ok THEN 0 ELSE 1)]
       \/ tgt' = [tgt EXCEPT !.state = "gone"] /\ UNCHANGED lus
    /\ UNCHANGED <<sbpBus, orbs, run, command>>

\* Mutant: the update blocks the host before the login is over, when dont_block is set.
UpdateAlwaysBlocks ==
    /\ tgt.state = "bound" /\ sbpBus.due
    /\ sbpBus' = [sbpBus EXCEPT !.due = FALSE]
    /\ LET stale == {l \in LU : lus[l].alive /\ ~lus[l].blocked /\ lus[l].gen # sbpBus.card}
       IN /\ lus' = [l \in LU |-> [lus[l] EXCEPT !.blocked = @ \/ l \in stale, !.retries = 0,
                                                 !.queued = lus[l].alive]]
          /\ tgt' = [tgt EXCEPT !.blocked = @ + Cardinality(stale),
                                !.host = @ \/ (stale # {} /\ tgt.blocked = 0)]
    /\ UNCHANGED <<orbs, run, command>>

\* sbp2_update() after a bus reset; the loop meets each logical unit once.
sbp2_update ==
    /\ tgt.state = "bound" /\ sbpBus.due
    /\ sbpBus' = [sbpBus EXCEPT !.due = FALSE]
    /\ LET stale == {l \in LU : lus[l].alive /\ ~lus[l].blocked /\ tgt.dont_block = 0
                                /\ lus[l].gen # sbpBus.card}
       IN /\ lus' = [l \in LU |-> [lus[l] EXCEPT !.blocked = @ \/ l \in stale, !.retries = 0,
                                                 !.queued = lus[l].alive]]
          /\ tgt' = [tgt EXCEPT !.blocked = @ + Cardinality(stale),
                                !.host = @ \/ (stale # {} /\ tgt.blocked = 0)]
    /\ UNCHANGED <<orbs, run, command>>

\* sbp2_remove() unblocks the target first.
sbp2_remove ==
    /\ tgt.state = "bound"
    /\ tgt' = [sbp2_unblock(tgt) EXCEPT !.state = "removing"]
    /\ sbpBus' = [sbpBus EXCEPT !.due = FALSE]
    /\ UNCHANGED <<lus, orbs, run, command>>

\* Its loop: the work is cancelled, which waits for it; the SCSI device is removed,
\* which waits for its commands; and a logical unit that logged in is logged out.
RemoveLogicalUnit(l) ==
    /\ tgt.state = "removing" /\ lus[l].alive /\ run[l].pc = "idle" /\ command = 0
    /\ \A k \in LU : run[k].after # "remove"
    /\ lus' = [lus EXCEPT ![l].queued = FALSE, ![l].sdev = FALSE]
    /\ run' = [run EXCEPT ![l] = [NoThread EXCEPT !.pc = IF lus[l].login THEN "send" ELSE "result",
                    !.fn = "logout", !.after = "remove", !.gen = sbpBus.device]]
    /\ UNCHANGED <<sbpBus, tgt, orbs, command>>

\* The status FIFO and the logical unit are freed.
FreeLogicalUnit(l) ==
    /\ run[l].pc = "result" /\ run[l].after = "remove"
    /\ orbs' = PutManagementOrb(l)
    /\ lus' = [lus EXCEPT ![l] = NoLu]
    /\ Done(l)
    /\ UNCHANGED <<sbpBus, tgt, command>>

TargetReleased ==
    /\ tgt.state = "removing" /\ \A l \in LU : ~lus[l].alive
    /\ tgt' = [tgt EXCEPT !.state = "gone"]
    /\ UNCHANGED <<sbpBus, lus, orbs, run, command>>

-----------------------------------------------------------------------------
ThreadStep(l) ==
    \/ sbp2_send_management_orb(l) \/ WaitEnds(l) \/ AfterLogout(l)
    \/ LoginFails(l) \/ LoginSucceeds(l) \/ ResetToLogin(l)
    \/ DeviceAdded(l) \/ DeviceNotAdded(l)
    \/ ReconnectFails(l) \/ ReconnectSucceeds(l)
    \/ sbp2_conditionally_unblock(l) \/ scsi_unblock_requests(l)
    \/ FreeLogicalUnit(l)

CancelStep(h) == sbp2_cancel_orbs(h) \/ CancelEnds(h)

CallbackStep(o) ==
    TransactionEnds(o) \/ (\E r \in {"complete", "failed"} : complete_transaction(o, r))

Sbp2Next ==
    \/ \E l \in LU : ThreadStep(l) \/ sbp2_lu_workfn(l) \/ RemoveLogicalUnit(l)
                     \/ sbp2_scsi_queuecommand(l)
    \/ \E h \in SbpThread : CancelStep(h)
    \/ \E o \in Orb : CallbackStep(o)
    \/ \E o \in Orb, s \in {"ok", "error"} : sbp2_status_write(o, s)
    \/ sbp2_scsi_abort \/ SbpBusReset \/ SbpNodeEvent
    \/ sbp2_probe \/ sbp2_update \/ sbp2_remove \/ TargetReleased

Sbp2Fairness ==
    /\ \A l \in LU : /\ WF_sbpvars(ThreadStep(l)) /\ WF_sbpvars(sbp2_lu_workfn(l))
    /\ \A h \in SbpThread : WF_sbpvars(CancelStep(h))
    /\ \A o \in Orb : WF_sbpvars(CallbackStep(o))
    /\ WF_sbpvars(sbp2_update) /\ WF_sbpvars(SbpNodeEvent)
    /\ WF_sbpvars(sbpBus.shutdown /\ sbp2_remove)

Sbp2Spec == Sbp2Init /\ [][Sbp2Next]_sbpvars /\ Sbp2Fairness

-----------------------------------------------------------------------------
(* A logical unit is freed only when nothing refers to it: the callbacks of *)
(* its ORBs read orb->lu (sbp2.c:475).  The exceptions are an ORB whose     *)
(* status overtook the end of its transaction, and the race below.          *)
LogicalUnitOutlivesOrbs ==
    \A o \in Orb :
        orbs[o].t \in {"flight", "closing"} =>
            lus[orbs[o].lu].alive \/ orbs[o].overtaken \/ orbs[o].raced

(* An ORB is called back exactly once and its memory is freed with its last *)
(* user: its references are those of its sender, of the transaction in      *)
(* flight and of the callback to come (sbp2.c:383, 406-536).  The one       *)
(* exception is an ORB that is cancelled after its transaction ended but    *)
(* before complete_transaction() took the lock.  A command of the midlayer  *)
(* has an ORB pending until it is done, except while a work item cancels    *)
(* that ORB: then sbp2_scsi_abort() does not find it.  Nor is its logical   *)
(* unit freed before it.                                                    *)
OrbReferencesExact ==
    /\ Sbp2TypeOK
    /\ LogicalUnitOutlivesOrbs
    /\ \A o \in Orb : LET b == orbs[o] IN
        \/ b.raced
        \/ /\ b.calls <= 1
           /\ b.ref = Cardinality({l \in LU : run[l].orb = o})
                      + (IF b.t \in {"flight", "closing"} THEN 1 ELSE 0)
                      + (IF b.kind # "free" /\ b.calls = 0 THEN 1 ELSE 0)
           /\ b.kind = "cmd" /\ b.calls = 0 => command = o \/ b.list \in LU

(* A blocked SCSI host is unblocked in the end: by a login or reconnection  *)
(* in the current generation, by the last failed retry, or by the removal   *)
(* of the target (sbp2.c:687-756, 797-956).                                 *)
HostUnblocked == tgt.host ~> ~tgt.host
=============================================================================
