---------------------------- MODULE FwCdevEvents ----------------------------
(***************************************************************************)
(* A client of /dev/fw*: the events that are queued for it and read by its *)
(* threads, the requests and PHY packets it sends, the bus resets and PHY  *)
(* packets it is told of, its address handlers and descriptors, its        *)
(* isochronous context and the buffer that is mapped into its memory, and  *)
(* the release of the file.  FwCdevIso has its isochronous resources.      *)
(*                                                                         *)
(* A step is what happens under client->lock, iso_context_mutex,           *)
(* client_list_mutex or phy_receiver_list_lock.  External: the device, the *)
(* transactions, the isochronous context and the user.                     *)
(***************************************************************************)
EXTENDS Integers, Sequences, FiniteSets

CONSTANTS CdevThread,      \* threads that use the file
          Outbound,        \* requests and PHY packets of the client
          CdevHandle,      \* address handlers and descriptors of the client
          CdevMaxGen,      \* bound: bus resets
          CdevMaxArrival,  \* bound: PHY packets received and isochronous interrupts
          CdevMaxNoMem,    \* bound: allocations that fail
          CdevUses         \* sets of uses, of "iso", "phy", "requests", "handles"; a
                           \* client keeps to one of them

ASSUME CdevAssumption ==
  /\ IsFiniteSet(Outbound) /\ IsFiniteSet(CdevHandle)
  /\ \A o \in Outbound : o \notin Int

VARIABLES cl,     \* struct client
          evs,    \* event_list
          cth,    \* the threads: [op, pc, obj]
          outb,   \* outbound operations: [kind, pc]
          hnd,    \* other resources: "none", "added", "listed", "erased"
          iso,    \* iso_context, its worker, and the buffer
          dv,     \* the device: [gen, update, st, remove]
          seen    \* ghosts and counters: [odd, gen, arrivals, nomem, events]

cdevvars == <<cl, evs, cth, outb, hnd, iso, dv, seen>>

Resting == [op |-> "none", pc |-> "idle", obj |-> "none"]
NoOut == [kind |-> "none", pc |-> "none"]
NoContext == [ctx |-> "none", work |-> "idle", pages |-> FALSE, maps |-> 0]

CdevInit ==
  /\ cl = [pc |-> "none", uses |-> {}, in_shutdown |-> FALSE, kref |-> 0, listed |-> FALSE, phy |-> FALSE,
           closure |-> 0]
  /\ evs = <<>>
  /\ cth = [t \in CdevThread |-> Resting]
  /\ outb = [o \in Outbound |-> NoOut]
  /\ hnd = [h \in CdevHandle |-> "none"]
  /\ iso = NoContext
  /\ dv = [gen |-> 0, update |-> FALSE, st |-> "running", remove |-> FALSE]
  /\ seen = [odd |-> {}, gen |-> 0, arrivals |-> 0, nomem |-> 0, events |-> {}]

\* fw_device_op_open()
CdevOpen ==
  /\ cl.pc = "none" /\ dv.st # "shutdown"
  /\ \E uses \in CdevUses : cl' = [cl EXCEPT !.pc = "open", !.kref = 1, !.uses = uses]
  /\ UNCHANGED <<evs, cth, outb, hnd, iso, dv, seen>>

-----------------------------------------------------------------------------
(* Events.                                                                 *)
Awake == [t \in CdevThread |-> IF cth[t].pc = "sleeps" THEN [cth[t] EXCEPT !.pc = "checks"] ELSE cth[t]]
\* Mutant: the reader is not woken.
AddsOnly(e) == evs' = (IF cl.in_shutdown THEN evs ELSE Append(evs, e)) /\ UNCHANGED cth
queue_event(e) == evs' = (IF cl.in_shutdown THEN evs ELSE Append(evs, e)) /\ cth' = Awake
OutOfMemory == seen.nomem < CdevMaxNoMem /\ seen' = [seen EXCEPT !.nomem = @ + 1]

Using == cl.pc = "open" /\ dv.st # "shutdown"
Begins(t, op, pc, obj) == cth' = [cth EXCEPT ![t] = [op |-> op, pc |-> pc, obj |-> obj]]
Returns(t) == cth' = [cth EXCEPT ![t] = Resting]

\* dequeue_event(): a blocking read.
fw_device_op_read(t) ==
  /\ cl.pc = "open" /\ cth[t] = Resting
  /\ Begins(t, "read", "checks", "none")
  /\ UNCHANGED <<cl, evs, outb, hnd, iso, dv, seen>>
WaitsForEvent(t) ==
  /\ cth[t].pc = "checks"
  /\ cth' = IF evs # <<>> THEN [cth EXCEPT ![t].pc = "takes"]
            ELSE IF dv.st = "shutdown" THEN [cth EXCEPT ![t] = Resting] \* -ENODEV
            ELSE [cth EXCEPT ![t].pc = "sleeps"]
  /\ UNCHANGED <<cl, evs, outb, hnd, iso, dv, seen>>
ReadInterrupted(t) ==
  /\ cth[t].pc = "sleeps" /\ Returns(t)
  /\ UNCHANGED <<cl, evs, outb, hnd, iso, dv, seen>>
\* The list is not looked at again under the lock.
dequeue_event(t) ==
  /\ cth[t].pc = "takes"
  /\ Returns(t)
  /\ IF evs = <<>> THEN seen' = [seen EXCEPT !.odd = @ \cup {"emptied"}] /\ UNCHANGED evs
     ELSE evs' = Tail(evs) /\ UNCHANGED seen
  /\ UNCHANGED <<cl, outb, hnd, iso, dv>>

-----------------------------------------------------------------------------
(* Bus resets, and the end of the device.                                  *)
DeviceUpdated ==
  /\ dv.gen < CdevMaxGen /\ dv.st = "running"
  /\ dv' = [dv EXCEPT !.gen = @ + 1, !.update = TRUE]
  /\ UNCHANGED <<cl, evs, cth, outb, hnd, iso, seen>>
\* queue_bus_reset_event() for the client, if it is listed.
fw_device_cdev_update ==
  /\ dv.update
  /\ dv' = [dv EXCEPT !.update = FALSE]
  /\ \/ /\ cl.listed
        /\ queue_event([type |-> "bus reset", of |-> dv.gen])
        /\ seen' = [seen EXCEPT !.gen = dv.gen]
     \/ cl.listed /\ OutOfMemory /\ UNCHANGED <<evs, cth>>
     \/ ~cl.listed /\ UNCHANGED <<evs, cth, seen>>
  /\ UNCHANGED <<cl, outb, hnd, iso>>
DeviceGone ==
  /\ dv.st = "running" /\ ~dv.update
  /\ dv' = [dv EXCEPT !.st = "shutdown", !.remove = TRUE]
  /\ UNCHANGED <<cl, evs, cth, outb, hnd, iso, seen>>
\* wake_up_client(), for a client that is listed.
fw_device_cdev_remove ==
  /\ dv.remove
  /\ dv' = [dv EXCEPT !.remove = FALSE]
  /\ IF cl.listed THEN cth' = Awake /\ UNCHANGED seen
     ELSE seen' = [seen EXCEPT !.odd = @ \cup {"unlisted"}] /\ UNCHANGED cth
  /\ UNCHANGED <<cl, evs, outb, hnd, iso>>

\* The bus is described and the client listed in one critical section.
ioctl_get_info(t) ==
  /\ Using /\ cth[t] = Resting
  /\ cl' = [cl EXCEPT !.listed = TRUE]
  /\ seen' = [seen EXCEPT !.gen = dv.gen]
  /\ UNCHANGED <<evs, cth, outb, hnd, iso, dv>>

-----------------------------------------------------------------------------
(* Requests and PHY packets of the client.                                 *)

\* The transaction is a resource of the client, a PHY packet only a reference.
init_request(t, o) ==
  /\ "requests" \in cl.uses /\ Using /\ cth[t] = Resting /\ outb[o] = NoOut
  /\ outb' = [outb EXCEPT ![o] = [kind |-> "request", pc |-> "sent"]]
  /\ cl' = [cl EXCEPT !.kref = @ + 1]
  /\ UNCHANGED <<evs, cth, hnd, iso, dv, seen>>
ioctl_send_phy_packet(t, o) ==
  /\ "phy" \in cl.uses /\ Using /\ cth[t] = Resting /\ outb[o] = NoOut
  /\ outb' = [outb EXCEPT ![o] = [kind |-> "phy", pc |-> "erased"]]
  /\ cl' = [cl EXCEPT !.kref = @ + 1]
  /\ UNCHANGED <<evs, cth, hnd, iso, dv, seen>>

\* complete_transaction(): a release that waits is woken by it.
complete_transaction(o) ==
  /\ outb[o].pc = "sent"
  /\ outb' = [outb EXCEPT ![o].pc = "erased"]
  /\ UNCHANGED <<cl, evs, cth, hnd, iso, dv, seen>>
\* Also outbound_phy_packet_callback().
ResponseQueued(o) ==
  /\ outb[o].pc = "erased"
  /\ outb' = [outb EXCEPT ![o].pc = "queued"]
  /\ queue_event([type |-> outb[o].kind, of |-> o])
  /\ seen' = [seen EXCEPT !.odd = IF cl.kref = 0 THEN @ \cup {"late"} ELSE @,
                          !.events = IF cl.in_shutdown THEN @ ELSE @ \cup {o}]
  /\ UNCHANGED <<cl, hnd, iso, dv>>
ResponsePuts(o) ==
  /\ outb[o].pc = "queued"
  /\ outb' = [outb EXCEPT ![o].pc = "done"]
  /\ cl' = [cl EXCEPT !.kref = @ - 1]
  /\ UNCHANGED <<evs, cth, hnd, iso, dv, seen>>

\* The closure is stored after the client was put on the list.
ioctl_receive_phy_packets(t) ==
  /\ "phy" \in cl.uses /\ Using /\ cth[t] = Resting /\ ~cl.phy
  /\ cl' = [cl EXCEPT !.phy = TRUE]
  /\ Begins(t, "receive phy", "closure", "none")
  /\ UNCHANGED <<evs, outb, hnd, iso, dv, seen>>
StoresClosure(t) ==
  /\ cth[t].pc = "closure"
  /\ cl' = [cl EXCEPT !.closure = 1]
  /\ Returns(t)
  /\ UNCHANGED <<evs, outb, hnd, iso, dv, seen>>
fw_cdev_handle_phy_packet ==
  /\ cl.phy /\ seen.arrivals < CdevMaxArrival
  /\ \/ /\ queue_event([type |-> "phy received", of |-> cl.closure])
        /\ seen' = [seen EXCEPT !.arrivals = @ + 1,
                                !.odd = IF cl.closure = 0 THEN @ \cup {"closure"} ELSE @]
     \/ OutOfMemory /\ UNCHANGED <<evs, cth>>
  /\ UNCHANGED <<cl, outb, hnd, iso, dv>>

-----------------------------------------------------------------------------
(* Address handlers and configuration ROM descriptors.                     *)

\* ioctl_allocate(), ioctl_add_descriptor(): added to the core first.
AddsToCore(t, h) ==
  /\ "handles" \in cl.uses /\ Using /\ cth[t] = Resting /\ hnd[h] = "none"
  /\ hnd' = [hnd EXCEPT ![h] = "added"]
  /\ Begins(t, "add", "adds", h)
  /\ UNCHANGED <<cl, evs, outb, iso, dv, seen>>
add_client_resource(t) ==
  /\ cth[t].pc = "adds"
  /\ Returns(t)
  /\ \/ /\ hnd' = [hnd EXCEPT ![cth[t].obj] = "listed"]
        /\ cl' = [cl EXCEPT !.kref = @ + 1]
        /\ UNCHANGED seen
     \/ OutOfMemory /\ hnd' = [hnd EXCEPT ![cth[t].obj] = "none"] /\ UNCHANGED cl
  /\ UNCHANGED <<evs, outb, iso, dv>>
\* ioctl_deallocate(), ioctl_remove_descriptor(): one thread finds the handle.
release_client_resource(t, h) ==
  /\ Using /\ cth[t] = Resting /\ hnd[h] = "listed"
  /\ hnd' = [hnd EXCEPT ![h] = "erased"]
  /\ Begins(t, "remove", "releases", h)
  /\ UNCHANGED <<cl, evs, outb, iso, dv, seen>>
release_resource(t) ==
  /\ cth[t].pc = "releases"
  /\ hnd' = [hnd EXCEPT ![cth[t].obj] = "none"]
  /\ cl' = [cl EXCEPT !.kref = @ - 1]
  /\ Returns(t)
  /\ UNCHANGED <<evs, outb, iso, dv, seen>>

-----------------------------------------------------------------------------
(* The isochronous context and its buffer.                                 *)
IsoUser(t) == "iso" \in cl.uses /\ Using /\ cth[t] = Resting
fw_iso_buffer_destroy(i) == [i EXCEPT !.pages = FALSE, !.maps = 0]
Odd(o, when) == seen' = [seen EXCEPT !.odd = IF when THEN @ \cup {o} ELSE @]

\* The context is created first, and destroyed if the client has one.
CreatesContext(t) ==
  /\ IsoUser(t)
  /\ Begins(t, "create", "created", "none")
  /\ UNCHANGED <<cl, evs, outb, hnd, iso, dv, seen>>
ioctl_create_iso_context(t) ==
  /\ cth[t].pc = "created"
  /\ Returns(t)
  /\ \/ iso.ctx = "none" /\ UNCHANGED seen
        /\ iso' = [iso EXCEPT !.ctx = "idle", !.maps = IF iso.pages /\ @ = 0 THEN 1 ELSE @]
     \/ iso.ctx # "none" /\ UNCHANGED <<iso, seen>>                \* -EBUSY
     \/ iso.ctx = "none" /\ iso.pages /\ iso.maps = 0 /\ OutOfMemory /\ UNCHANGED iso
  /\ UNCHANGED <<cl, evs, outb, hnd, dv>>
\* The memory map of the process is locked for the whole call.
fw_device_op_mmap(t) ==
  /\ IsoUser(t) /\ ~iso.pages /\ \A u \in CdevThread : cth[u].op # "mmap"
  /\ iso' = [iso EXCEPT !.pages = TRUE]
  /\ Begins(t, "mmap", "pages", "none")
  /\ UNCHANGED <<cl, evs, outb, hnd, dv, seen>>
MapsBuffer(t) ==
  /\ cth[t].pc = "pages"
  /\ \/ iso.ctx = "none" /\ UNCHANGED <<iso, seen>>
     \/ iso.ctx # "none" /\ iso' = [iso EXCEPT !.maps = @ + 1] /\ Odd("mapped twice", iso.maps = 1)
  /\ cth' = [cth EXCEPT ![t].pc = "mapped"]
  /\ UNCHANGED <<cl, evs, outb, hnd, dv>>
MapsIntoProcess(t) ==
  /\ cth[t].pc = "mapped"
  /\ Returns(t)
  /\ \/ UNCHANGED <<iso, seen>>
     \/ /\ seen.nomem < CdevMaxNoMem /\ iso' = fw_iso_buffer_destroy(iso)
        /\ seen' = [seen EXCEPT !.nomem = @ + 1,
                                !.odd = IF iso.ctx \in {"queued", "runs"} THEN @ \cup {"unmapped"} ELSE @]
  /\ UNCHANGED <<cl, evs, outb, hnd, dv>>

\* Packets whose payload is in the buffer need its addresses.  If a packet
\* is refused, the ones before it are queued and the user does not hear of it.
ioctl_queue_iso(t) ==
  /\ IsoUser(t) /\ iso.ctx # "none" /\ iso.pages
  /\ iso' = [iso EXCEPT !.ctx = IF @ = "idle" THEN "queued" ELSE @]
  /\ \/ Odd("unmapped", iso.maps = 0)
     \/ iso.maps # 0 /\ Odd("untold", TRUE)
  /\ UNCHANGED <<cl, evs, cth, outb, hnd, dv>>
ioctl_start_iso(t) ==
  /\ IsoUser(t) /\ iso.ctx = "queued"
  /\ iso' = [iso EXCEPT !.ctx = "runs"]
  /\ UNCHANGED <<cl, evs, cth, outb, hnd, dv, seen>>
ioctl_stop_iso(t) ==
  /\ IsoUser(t) /\ iso.ctx = "runs" /\ iso.work = "idle"
  /\ iso' = [iso EXCEPT !.ctx = "queued"]
  /\ UNCHANGED <<cl, evs, cth, outb, hnd, dv, seen>>

IsoInterrupts ==
  /\ iso.ctx = "runs" /\ iso.work = "idle" /\ seen.arrivals < CdevMaxArrival
  /\ iso' = [iso EXCEPT !.work = "due"]
  /\ seen' = [seen EXCEPT !.arrivals = @ + 1]
  /\ UNCHANGED <<cl, evs, cth, outb, hnd, dv>>
\* iso_callback(), iso_mc_callback(); the file may have been released.
iso_callback ==
  /\ iso.work = "due"
  /\ iso' = [iso EXCEPT !.work = "idle"]
  /\ IF iso.ctx = "none" THEN Odd("late", TRUE) /\ UNCHANGED <<evs, cth>>
     ELSE \/ queue_event([type |-> "iso", of |-> 0]) /\ UNCHANGED seen
          \/ OutOfMemory /\ UNCHANGED <<evs, cth>>
  /\ UNCHANGED <<cl, outb, hnd, dv>>
ioctl_flush_iso(t) ==
  /\ IsoUser(t) /\ iso.ctx = "runs" /\ iso.work = "due"
  /\ iso_callback

-----------------------------------------------------------------------------
(* The release of the file.                                                *)
Pending(pc) == \E o \in Outbound : outb[o].pc = pc /\ outb[o].kind = "request"
Releases(from, to) == cl.pc = from /\ cl' = [cl EXCEPT !.pc = to]

fw_device_op_release ==
  /\ cl.pc = "open" /\ \A t \in CdevThread : cth[t] = Resting
  /\ cl' = [cl EXCEPT !.pc = "unlist", !.phy = FALSE]
  /\ UNCHANGED <<evs, cth, outb, hnd, iso, dv, seen>>
ReleaseUnlists ==
  /\ cl.pc = "unlist"
  /\ cl' = [cl EXCEPT !.pc = "iso", !.listed = FALSE]
  /\ UNCHANGED <<evs, cth, outb, hnd, iso, dv, seen>>
ReleaseDestroysIso ==
  /\ Releases("iso", "shut")
  /\ iso' = [NoContext EXCEPT !.work = iso.work]
  /\ UNCHANGED <<evs, cth, outb, hnd, dv, seen>>
ReleaseFreezes ==
  /\ cl.pc = "shut"
  /\ cl' = [cl EXCEPT !.pc = "waits", !.in_shutdown = TRUE]
  /\ UNCHANGED <<evs, cth, outb, hnd, iso, dv, seen>>
no_outbound_transactions == ~Pending("sent")
Listed == {h \in CdevHandle : hnd[h] = "listed"}
ReleaseEnds ==
  /\ cl.pc = "waits" /\ no_outbound_transactions
  /\ cl' = [cl EXCEPT !.pc = "closed", !.kref = @ - Cardinality(Listed) - 1]
  /\ hnd' = [h \in CdevHandle |-> IF h \in Listed THEN "none" ELSE hnd[h]]
  /\ evs' = <<>>
  /\ UNCHANGED <<cth, outb, iso, dv, seen>>

CdevRelease == ReleaseUnlists \/ ReleaseDestroysIso \/ ReleaseFreezes \/ ReleaseEnds

-----------------------------------------------------------------------------
\* What comes after these is memory that is used wrongly.
CdevSane == seen.odd \cap {"emptied", "late", "unmapped", "mapped twice"} = {}

ThreadStarts(t) ==
  \/ fw_device_op_read(t) \/ ioctl_get_info(t) \/ ioctl_receive_phy_packets(t)
  \/ \E o \in Outbound : init_request(t, o) \/ ioctl_send_phy_packet(t, o)
  \/ \E h \in CdevHandle : AddsToCore(t, h) \/ release_client_resource(t, h)
  \/ CreatesContext(t) \/ fw_device_op_mmap(t)
  \/ ioctl_queue_iso(t) \/ ioctl_start_iso(t) \/ ioctl_stop_iso(t) \/ ioctl_flush_iso(t)
ThreadGoesOn(t) ==
  \/ WaitsForEvent(t) \/ dequeue_event(t) \/ StoresClosure(t)
  \/ add_client_resource(t) \/ release_resource(t)
  \/ ioctl_create_iso_context(t) \/ MapsBuffer(t) \/ MapsIntoProcess(t)
Completes(o) == complete_transaction(o) \/ ResponseQueued(o) \/ ResponsePuts(o)

CdevNext ==
  /\ CdevSane
  /\ \/ CdevOpen \/ fw_device_op_release \/ CdevRelease
     \/ \E t \in CdevThread : ThreadStarts(t) \/ ThreadGoesOn(t) \/ ReadInterrupted(t)
     \/ \E o \in Outbound : Completes(o)
     \/ DeviceUpdated \/ fw_device_cdev_update \/ DeviceGone \/ fw_device_cdev_remove
     \/ fw_cdev_handle_phy_packet \/ IsoInterrupts \/ iso_callback

\* Calls and callbacks go on; every transaction comes to an end.
CdevFairness ==
  /\ WF_cdevvars(CdevSane /\ CdevRelease)
  /\ \A o \in Outbound : WF_cdevvars(CdevSane /\ Completes(o))

CdevSpec == CdevInit /\ [][CdevNext]_cdevvars /\ CdevFairness

-----------------------------------------------------------------------------
CdevEvent == [type : {"bus reset", "phy received", "iso"}, of : Nat]
             \cup [type : {"request", "phy"}, of : Outbound]
ClientType == [pc : {"none", "open", "unlist", "iso", "shut", "waits", "closed"},
               uses : CdevUses \cup {{}}, in_shutdown : BOOLEAN, kref : Nat, listed : BOOLEAN,
               phy : BOOLEAN, closure : {0, 1}]
ThreadType == [op : {"none", "read", "receive phy", "add", "remove", "create", "mmap"},
               pc : {"idle", "checks", "sleeps", "takes", "closure", "adds", "releases",
                     "created", "pages", "mapped"},
               obj : CdevHandle \cup {"none"}]
OutType == {NoOut} \cup [kind : {"request", "phy"}, pc : {"sent", "erased", "queued", "done"}]
IsoType == [ctx : {"none", "idle", "queued", "runs"}, work : {"idle", "due"}, pages : BOOLEAN,
            maps : 0..2]
DeviceType == [gen : Nat, update : BOOLEAN, st : {"running", "shutdown"}, remove : BOOLEAN]
Oddity == {"emptied", "unlisted", "late", "closure", "mapped twice", "unmapped", "untold"}
SeenType == [odd : SUBSET Oddity, gen : Nat, arrivals : Nat, nomem : Nat, events : SUBSET Outbound]

CdevTypeOK ==
  /\ cl \in ClientType /\ cl.kref <= 1 + Cardinality(Outbound) + Cardinality(CdevHandle)
  /\ evs \in Seq(CdevEvent) /\ cth \in [CdevThread -> ThreadType]
  /\ outb \in [Outbound -> OutType] /\ hnd \in [CdevHandle -> {"none", "added", "listed", "erased"}]
  /\ iso \in IsoType /\ dv \in DeviceType /\ seen \in SeenType

OutHolds == {o \in Outbound : outb[o].pc \in {"sent", "erased", "queued"}}
HandleHolds == {h \in CdevHandle : hnd[h] \in {"listed", "erased"}}
Holders == Cardinality(OutHolds) + Cardinality(HandleHolds)
           + (IF cl.pc \in {"none", "closed"} THEN 0 ELSE 1)

(* The client is kept as long as the file is open or a resource or a       *)
(* packet refers to it, and no longer; each request and PHY packet that is *)
(* sent gives one event, unless the file is being released; the events of  *)
(* a listed client tell of the latest bus reset; a reader does not sleep   *)
(* while there is an event or the device is gone; when the file is         *)
(* released everything has been given back, and callbacks that come later  *)
(* leave no event.                                                         *)
ClientExact ==
  CdevSane =>
    /\ CdevTypeOK
    /\ cl.kref = Holders
    /\ \A o \in Outbound :
         /\ Cardinality({n \in 1..Len(evs) : evs[n].of = o}) <= (IF o \in seen.events THEN 1 ELSE 0)
         /\ outb[o].pc = "done" /\ ~cl.in_shutdown => o \in seen.events
    /\ cl.listed /\ ~dv.update => seen.gen = dv.gen \/ seen.nomem > 0
    /\ \A t \in CdevThread :
         cth[t].pc = "sleeps" => evs = <<>> /\ (dv.st = "running" \/ dv.remove \/ "unlisted" \in seen.odd)
    /\ cl.pc = "closed" => /\ evs = <<>> /\ iso.maps = 0 /\ ~iso.pages /\ ~cl.listed /\ ~cl.phy
                           /\ \A h \in CdevHandle : hnd[h] = "none"
                           /\ ~Pending("sent")

(* The release of the file returns once the transactions of the client     *)
(* have come to an end.                                                    *)
ReleaseReturns == (cl.pc = "unlist") ~> (cl.pc = "closed" \/ ~CdevSane)

(* None of the races the code leaves open happens.                         *)
NothingOdd == seen.odd = {}
=============================================================================
