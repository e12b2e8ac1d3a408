----------------------------- MODULE FwCdevIso -----------------------------
(***************************************************************************)
(* Isochronous resources of a userspace client                              *)
(* (drivers/firewire/core-cdev.c): the ioctls that allocate and deallocate, *)
(* the work item that allocates, reallocates after bus resets and           *)
(* deallocates, the bus reset event, and the release of the file.  One step *)
(* is one section under client->lock, one access without it to a resource   *)
(* that others can reach, or one call of fw_iso_resource_manage(), which    *)
(* FwIsoManage models in detail.                                            *)
(***************************************************************************)
EXTENDS Integers, FiniteSetsExt

CONSTANTS
    Res,        \* struct iso_resource_auto objects
    Channel,    \* isochronous channels, all of which a client accepts
    Initial,    \* BANDWIDTH_AVAILABLE_INITIAL
    Units,      \* bandwidth of a resource
    MaxGenerations, \* bound: number of bus resets in any environment
    MaxOther,   \* bound: number of operations of other nodes
    MaxOnce,    \* bound: number of (de)allocations without handle
    Environments \* what may happen: whether the IRM is contended, that is, others
                \* take resources from it and it may refuse; and whether the client
                \* is careful, that is, deallocates and closes the file only when it
                \* was told of the allocation and the last bus reset is handled;
                \* and a bound on the number of bus resets

NoChannel == -1

ASSUME CdevIsoAssumption ==
    /\ IsFiniteSet(Res)
    /\ Channel \subseteq Nat /\ IsFiniteSet(Channel)
    /\ Initial \in Nat /\ Units \in 1 .. Initial
    /\ MaxGenerations \in Nat /\ MaxOther \in Nat /\ MaxOnce \in Nat
    /\ Environments \subseteq [contended : BOOLEAN, careful : BOOLEAN,
                                     resets : 0 .. MaxGenerations]

\* Of a resource, call is how far ioctl_allocate_iso_resource() is with it, and two ghosts
\* record that somebody else queued its work item before that ioctl did (early), and that
\* it was used after it was freed (used).
VARIABLES
    irm,        \* generation, grace period, and the IRM with the owners it cannot see
    device,     \* generation of the device, and whether its clients are to be told
    res,        \* the resources
    work,       \* their work items: whether queued, and the run in progress
    user,       \* progress of a deallocating ioctl or of the release of the file
    client,     \* struct client: in_shutdown, kref, whether it is closed or freed
    events,     \* events queued for each resource so far
    once,       \* iso_resource_once_work()
    count,      \* operations of others and once so far
    env         \* the environment, which does not change

isoresvars == <<irm, device, res, work, user, client, events, once, count, env>>

NoRes == [state |-> "none", listed |-> FALSE, todo |-> "alloc", gen |-> -1, mask |-> Channel,
          e_alloc |-> TRUE, e_dealloc |-> TRUE, call |-> "no", early |-> FALSE, used |-> FALSE]
NoRun == [pc |-> "idle", gen |-> -1, todo |-> "alloc", channel |-> NoChannel, again |-> FALSE,
          free |-> FALSE, event |-> "none"]

Owner == Res \cup {"other", "once"}

IrmType == [gen : 0 .. MaxGenerations, grace : BOOLEAN, avail : SUBSET Channel, bw : 0 .. Initial,
            owner : [Channel -> Owner \cup {"free"}], units : [Owner -> Nat]]
ResType == [state : {"none", "live", "freed"}, listed : BOOLEAN,
            todo : {"alloc", "realloc", "dealloc"}, gen : -1 .. MaxGenerations,
            mask : SUBSET Channel, e_alloc : BOOLEAN, e_dealloc : BOOLEAN,
            call : {"no", "added", "told"}, early : BOOLEAN, used : BOOLEAN]
RunType == [pc : {"idle", "start", "manage", "erase", "todo", "event", "free"},
            gen : -1 .. MaxGenerations, todo : {"alloc", "realloc", "dealloc"},
            channel : Channel \cup {NoChannel}, again : BOOLEAN, free : BOOLEAN,
            event : {"none", "null", "alloc", "dealloc"}]
WorkItemType == [queued : {"no", "delayed", "yes"}, run : RunType]

CdevIsoTypeOK ==
    /\ irm \in IrmType
    /\ device \in [gen : 0 .. MaxGenerations, told : BOOLEAN]
    /\ res \in [Res -> ResType]
    /\ work \in [Res -> WorkItemType]
    /\ user \in [pc : {"idle", "release", "closing"}, res : SUBSET Res]
    /\ client \in [in_shutdown : BOOLEAN, kref : Nat, freed : BOOLEAN]
    /\ events \in [Res -> [alloc : 0 .. 1, dealloc : 0 .. 1, null : BOOLEAN]]
    /\ once \in [pc : {"idle", "queued", "manage"}, gen : 0 .. MaxGenerations, allocate : BOOLEAN]
    /\ count \in [other : 0 .. MaxOther, once : 0 .. MaxOnce]
    /\ env \in Environments

CdevIsoInit ==
    /\ irm = [gen |-> 0, grace |-> FALSE, avail |-> Channel, bw |-> Initial,
              owner |-> [c \in Channel |-> "free"],
              units |-> [o \in Owner |-> 0]]
    /\ device = [gen |-> 0, told |-> TRUE]
    /\ res = [r \in Res |-> NoRes]
    /\ work = [r \in Res |-> [queued |-> "no", run |-> NoRun]]
    /\ user = [pc |-> "idle", res |-> {}]
    /\ client = [in_shutdown |-> FALSE, kref |-> 1, freed |-> FALSE]
    /\ events = [r \in Res |-> [alloc |-> 0, dealloc |-> 0, null |-> FALSE]]
    /\ once = [pc |-> "idle", gen |-> 0, allocate |-> TRUE]
    /\ count = [other |-> 0, once |-> 0]
    /\ env \in Environments

-----------------------------------------------------------------------------
(* The bus, the IRM and other nodes (external).                            *)

IrmReset ==
    /\ irm.gen < env.resets
    /\ irm' = [gen |-> irm.gen + 1, grace |-> TRUE, avail |-> Channel, bw |-> Initial,
               owner |-> [c \in Channel |-> "free"],
               units |-> [o \in Owner |-> 0]]
    /\ UNCHANGED <<device, res, work, user, client, events, once, count, env>>

\* One second has passed since the bus reset.
GraceEnds ==
    /\ irm.grace
    /\ irm' = [irm EXCEPT !.grace = FALSE]
    /\ UNCHANGED <<device, res, work, user, client, events, once, count, env>>

\* The IRM after owner o took channel c, and n units of bandwidth.
Taken(o, c, n) ==
    [irm EXCEPT !.avail = @ \ {c}, !.owner[c] = o, !.bw = @ - n, !.units[o] = @ + n]

OtherTakes ==
    /\ env.contended /\ count.other < MaxOther /\ irm.bw >= Units
    /\ \E c \in irm.avail : irm' = Taken("other", c, Units)
    /\ count' = [count EXCEPT !.other = @ + 1]
    /\ UNCHANGED <<device, res, work, user, client, events, once, env>>

\* fw_node_event(): the device learns of the generation; its update work is to come.
DeviceGeneration ==
    /\ device.gen # irm.gen
    /\ device' = [gen |-> irm.gen, told |-> FALSE]
    /\ UNCHANGED <<irm, res, work, user, client, events, once, count, env>>

-----------------------------------------------------------------------------
(* schedule_iso_resource_auto()                                            *)

\* Mutant: a reference is taken although the work item is queued already.
QueuedAnyway(w, s) == {r \in s : TRUE}

\* The resources of s whose work item was not queued.
NewlyQueued(w, s) == {r \in s : w[r].queued = "no"}

\* The work items w after those of the resources in s were scheduled.
Scheduled(w, s, delay) ==
    [r \in Res |-> IF r \in s /\ w[r].queued = "no" THEN [w[r] EXCEPT !.queued = delay] ELSE w[r]]

\* A resource whose work item is queued by others while it is being allocated.
Overtaken(x) == [x EXCEPT !.early = @ \/ x.call # "no"]

\* client_get(), n times, and client_put()
Get(n) == [client EXCEPT !.kref = @ + n]
Put == [client EXCEPT !.kref = @ - 1, !.freed = client.kref = 1]

-----------------------------------------------------------------------------
(* queue_bus_reset_event()                                                 *)

\* The resources in the xarray of the client.
Listed == {r \in Res : res[r].listed}

CdevUpdate ==
    /\ ~device.told
    /\ device' = [device EXCEPT !.told = TRUE]
    /\ IF client.in_shutdown THEN UNCHANGED <<res, work, client>>
       ELSE /\ work' = Scheduled(work, Listed, "yes")
            /\ client' = Get(Cardinality(NewlyQueued(work, Listed)))
            /\ res' = [r \in Res |-> IF r \in Listed THEN Overtaken(res[r]) ELSE res[r]]
    /\ UNCHANGED <<irm, user, events, once, count, env>>

-----------------------------------------------------------------------------
(* The client's calls.                                                     *)

MayCall == user.pc = "idle" /\ ~client.in_shutdown

\* The resource is allocated, and the work item has nothing to do.
Settled(r) ==
    /\ res[r].call = "no" /\ events[r].alloc = 1 /\ work[r].queued = "no" /\ work[r].run.pc = "idle"
    /\ device.told /\ device.gen = irm.gen /\ res[r].gen = irm.gen

\* ioctl_allocate_iso_resource() in one of the client's threads.  add_client_resource()
\* puts the resource into the xarray, which keeps the client.
IoctlAllocate(r) ==
    /\ ~client.in_shutdown /\ res[r].state = "none"
    /\ res' = [res EXCEPT ![r] = [NoRes EXCEPT !.state = "live", !.listed = TRUE,
                                               !.call = "added"]]
    /\ client' = Get(1)
    /\ UNCHANGED <<irm, device, work, user, events, once, count, env>>

\* Without client->lock it reads the handle of the resource, which bus reset events and
\* other threads, if they guess the handle, reach already.
HandleRead(r) ==
    /\ res[r].call = "added"
    /\ res' = [res EXCEPT ![r].call = "told", ![r].used = @ \/ res[r].state = "freed"]
    /\ UNCHANGED <<irm, device, work, user, client, events, once, count, env>>

\* And schedules the work item, which keeps the client, too.  What this does to a resource
\* that was freed is undefined.
AllocationScheduled(r) ==
    /\ res[r].call = "told"
    /\ res' = [res EXCEPT ![r].call = "no", ![r].used = @ \/ res[r].state = "freed"]
    /\ IF res[r].state = "freed" THEN UNCHANGED <<work, client>>
       ELSE /\ work' = Scheduled(work, {r}, "yes")
            /\ client' = Get(Cardinality(NewlyQueued(work, {r})))
    /\ UNCHANGED <<irm, device, user, events, once, count, env>>

\* ioctl_deallocate_iso_resource(): the resource is taken out of the xarray first.
IoctlDeallocate(r) ==
    /\ MayCall /\ res[r].listed
    /\ env.careful => Settled(r)
    /\ res' = [res EXCEPT ![r].listed = FALSE]
    /\ user' = [pc |-> "release", res |-> {r}]
    /\ UNCHANGED <<irm, device, work, client, events, once, count, env>>

\* fw_device_op_release(), when no ioctl is under way any more, which keep the file: no more
\* bus reset events, events or new resources.
Close ==
    /\ MayCall /\ \A r \in Res : res[r].call = "no"
    /\ env.careful => \A r \in Listed : Settled(r)
    /\ client' = [client EXCEPT !.in_shutdown = TRUE]
    /\ user' = [pc |-> "closing", res |-> Listed]
    /\ UNCHANGED <<irm, device, res, work, events, once, count, env>>

\* Mutant: the work item is not told to deallocate.
TodoKept(r) == res

\* What release_iso_resource_auto() wants done.
TodoDealloc(r) == [res EXCEPT ![r] = [Overtaken(res[r]) EXCEPT !.todo = "dealloc"]]

\* release_iso_resource_auto(); the reference of the xarray is dropped.
Release(r) ==
    /\ user.pc \in {"release", "closing"} /\ r \in user.res
    /\ res' = TodoDealloc(r)
    /\ work' = Scheduled(work, {r}, "yes")
    /\ client' = [client EXCEPT !.kref = @ + Cardinality(NewlyQueued(work, {r})) - 1]
    /\ user' = IF user.pc = "release" THEN [pc |-> "idle", res |-> {}]
               ELSE [user EXCEPT !.res = @ \ {r}]
    /\ UNCHANGED <<irm, device, events, once, count, env>>

\* The last reference of the file.
CloseEnds ==
    /\ user.pc = "closing" /\ user.res = {}
    /\ user' = [user EXCEPT !.pc = "idle"]
    /\ client' = Put
    /\ UNCHANGED <<irm, device, res, work, events, once, count, env>>

-----------------------------------------------------------------------------
(* fw_iso_resource_manage(), as FwIsoManage has it: all or nothing, and      *)
(* nothing for an old generation.                                           *)

Allocatable(mask) == mask \cap irm.avail # {} /\ irm.bw >= Units

\* Deallocation frees the first channel of the mask that is taken, by whomever, and
\* bandwidth if the register has room for it.
Freed(o, mask) ==
    LET taken == mask \ irm.avail
        c == Min(taken)
        n == IF irm.bw + Units <= Initial THEN Units ELSE 0
    IN [irm EXCEPT !.avail = @ \cup (IF taken = {} THEN {} ELSE {c}),
                   !.owner = [d \in Channel |-> IF taken # {} /\ d = c /\ irm.owner[d] = o
                                                THEN "free" ELSE irm.owner[d]],
                   !.bw = @ + n,
                   !.units[o] = IF @ >= n THEN @ - n ELSE @]

-----------------------------------------------------------------------------
(* iso_resource_auto_work()                                                *)

Run(r, f) == work' = [work EXCEPT ![r].run = f]

\* The work item is dequeued: from now on it can be queued again.
WorkStart(r) ==
    /\ work[r].queued = "yes" /\ work[r].run.pc = "idle"
    /\ work' = [work EXCEPT ![r] = [queued |-> "no", run |-> [NoRun EXCEPT !.pc = "start"]]]
    /\ UNCHANGED <<irm, device, res, user, client, events, once, count, env>>

\* 333 ms have passed.
DelayEnds(r) ==
    /\ work[r].queued = "delayed"
    /\ work' = [work EXCEPT ![r].queued = "yes"]
    /\ UNCHANGED <<irm, device, res, user, client, events, once, count, env>>

\* The work item was run for this generation already.
SameGeneration(r) == res[r].todo = "realloc" /\ res[r].gen = device.gen

WorkLook(r) ==
    /\ work[r].run.pc = "start"
    /\ res' = [res EXCEPT ![r].gen = device.gen]
    /\ IF res[r].todo = "alloc" /\ irm.grace
       THEN \* Allow a grace period for other reallocations.
            /\ work' = [Scheduled(work, {r}, "delayed") EXCEPT ![r].run = NoRun]
            /\ client' = [client EXCEPT !.kref = @ + Cardinality(NewlyQueued(work, {r})) - 1]
       ELSE IF SameGeneration(r)
       THEN Run(r, NoRun) /\ client' = Put
       ELSE /\ Run(r, [work[r].run EXCEPT !.pc = "manage", !.gen = device.gen,
                                          !.todo = res[r].todo])
            /\ UNCHANGED client
    /\ UNCHANGED <<irm, device, user, events, once, count, env>>

\* fw_iso_resource_manage()
WorkManage(r) ==
    LET w == work[r].run
        stale == w.gen # irm.gen
    IN /\ w.pc = "manage"
       /\ \/ /\ w.todo = "dealloc"
             /\ irm' = IF stale THEN irm ELSE Freed(r, res[r].mask)
             /\ Run(r, [w EXCEPT !.pc = "event", !.free = TRUE,
                                 !.event = IF res[r].e_dealloc THEN "dealloc" ELSE "null"])
             /\ res' = [res EXCEPT ![r].e_dealloc = FALSE]
          \/ \* A newer generation: the work item is scheduled again.
             /\ w.todo # "dealloc" /\ stale
             /\ Run(r, [w EXCEPT !.pc = "event", !.again = TRUE])
             /\ UNCHANGED <<irm, res>>
          \/ /\ w.todo # "dealloc" /\ ~stale /\ Allocatable(res[r].mask)
             /\ \E c \in res[r].mask \cap irm.avail :
                   /\ \A d \in res[r].mask \cap irm.avail : c <= d
                   /\ irm' = Taken(r, c, Units)
                   /\ Run(r, [w EXCEPT !.pc = IF w.todo = "alloc" THEN "todo" ELSE "event",
                                       !.channel = c])
             /\ UNCHANGED res
          \/ /\ w.todo # "dealloc" /\ ~stale /\ (env.contended \/ ~Allocatable(res[r].mask))
             /\ Run(r, [w EXCEPT !.pc = "erase"])
             /\ UNCHANGED <<irm, res>>
    /\ UNCHANGED <<device, user, client, events, once, count, env>>

\* Mutant: the resource is deleted even if somebody else took it out of the xarray.
ErasedAnyway(r) == ~client.in_shutdown

\* Only who takes the resource out of the xarray may delete it.
Erased(r) == ~client.in_shutdown /\ res[r].listed

\* (Re)allocation failed: prepare for deletion, unless the client is doing that.
WorkErase(r) ==
    LET w == work[r].run IN
    /\ w.pc = "erase"
    /\ IF Erased(r) THEN client' = Put ELSE UNCHANGED client
    /\ Run(r, [w EXCEPT !.free = Erased(r),
                        !.pc = IF w.todo = "alloc" THEN "todo" ELSE "event",
                        !.event = IF w.todo = "alloc" THEN "none"
                                  ELSE IF res[r].e_dealloc THEN "dealloc" ELSE "null"])
    /\ res' = [res EXCEPT ![r].listed = IF Erased(r) THEN FALSE ELSE @,
                          ![r].e_dealloc = @ /\ w.todo = "alloc"]
    /\ UNCHANGED <<irm, device, user, events, once, count, env>>

\* From allocation to reallocation, whatever todo has become meanwhile.
NextTodo(r) == "realloc"

WorkTodo(r) ==
    LET w == work[r].run IN
    /\ w.pc = "todo"
    /\ res' = [res EXCEPT ![r].todo = NextTodo(r), ![r].e_alloc = FALSE,
                          ![r].mask = IF w.channel = NoChannel THEN @ ELSE {w.channel}]
    /\ Run(r, [w EXCEPT !.pc = "event", !.event = IF res[r].e_alloc THEN "alloc" ELSE "null"])
    /\ UNCHANGED <<irm, device, user, client, events, once, count, env>>

\* queue_event(), which drops the event of a client in shutdown.  A resource that is to be
\* freed has its work item cancelled; otherwise the reference of this run is dropped.
WorkEvent(r) ==
    LET w == work[r].run IN
    /\ w.pc = "event"
    /\ events' = [events EXCEPT
          ![r].alloc = IF w.event = "alloc" /\ ~client.in_shutdown THEN @ + 1 ELSE @,
          ![r].dealloc = IF w.event = "dealloc" /\ ~client.in_shutdown THEN @ + 1 ELSE @,
          ![r].null = @ \/ w.event = "null"]
    /\ IF w.free
       THEN /\ work' = [work EXCEPT ![r] = [queued |-> "no", run |-> [NoRun EXCEPT !.pc = "free", !.free = TRUE]]]
            /\ UNCHANGED client
       ELSE Run(r, NoRun) /\ client' = Put
    /\ UNCHANGED <<irm, device, res, user, once, count, env>>

\* kfree(), after which a work item that was queued again is used nevertheless.
WorkFree(r) ==
    /\ work[r].run.pc = "free"
    /\ res' = [res EXCEPT ![r].state = "freed", ![r].used = @ \/ work[r].queued # "no"]
    /\ work' = [work EXCEPT ![r] = [queued |-> "no", run |-> NoRun]]
    /\ client' = Put
    /\ UNCHANGED <<irm, device, user, events, once, count, env>>

-----------------------------------------------------------------------------
(* (De)allocation without handle: init_iso_resource_once() and its work.   *)

IoctlOnce ==
    /\ env.contended /\ MayCall /\ count.once < MaxOnce /\ once.pc = "idle"
    /\ count' = [count EXCEPT !.once = @ + 1]
    /\ \E allocate \in BOOLEAN :
          /\ allocate \/ irm.units["once"] > 0
          /\ once' = [pc |-> "queued", gen |-> 0, allocate |-> allocate]
    /\ client' = Get(1)
    /\ UNCHANGED <<irm, device, res, work, user, events, env>>
OnceStart ==
    /\ once.pc = "queued"
    /\ once' = [once EXCEPT !.pc = "manage", !.gen = device.gen]
    /\ UNCHANGED <<irm, device, res, work, user, client, events, count, env>>
OnceManage ==
    /\ once.pc = "manage"
    /\ once' = [once EXCEPT !.pc = "idle"]
    /\ LET mask == {c \in Channel : once.allocate \/ irm.owner[c] = "once"}
       IN irm' = IF once.gen # irm.gen \/ (once.allocate /\ ~Allocatable(mask)) THEN irm
                 ELSE IF once.allocate THEN Taken("once", Min(mask \cap irm.avail), Units)
                 ELSE Freed("once", mask)
    /\ client' = Put
    /\ UNCHANGED <<device, res, work, user, events, count, env>>

-----------------------------------------------------------------------------
Work(r) ==
    \/ WorkStart(r) \/ WorkLook(r) \/ WorkManage(r) \/ WorkErase(r) \/ WorkTodo(r)
    \/ WorkEvent(r) \/ WorkFree(r)
IoctlReturns(r) == HandleRead(r) \/ AllocationScheduled(r)
Calls(r) == IoctlAllocate(r) \/ IoctlDeallocate(r)
Kernel == DeviceGeneration \/ CdevUpdate \/ CloseEnds \/ OnceStart \/ OnceManage \/ GraceEnds

CdevIsoNext ==
    \/ IrmReset \/ OtherTakes \/ Close \/ IoctlOnce \/ Kernel
    \/ \E r \in Res : Calls(r) \/ IoctlReturns(r) \/ Release(r) \/ DelayEnds(r) \/ Work(r)

CdevIsoSpec == CdevIsoInit /\ [][CdevIsoNext]_isoresvars

(* Work items are run, timers expire and system calls return; the client's  *)
(* own decisions and what other nodes do are not fair.                       *)
CdevIsoFairness ==
    /\ WF_isoresvars(DeviceGeneration) /\ WF_isoresvars(CdevUpdate)
    /\ WF_isoresvars(CloseEnds) /\ WF_isoresvars(GraceEnds)
    /\ WF_isoresvars(OnceStart) /\ WF_isoresvars(OnceManage)
    /\ \A r \in Res :
          /\ WF_isoresvars(IoctlReturns(r)) /\ WF_isoresvars(Release(r))
          /\ WF_isoresvars(DelayEnds(r)) /\ WF_isoresvars(Work(r))
CdevIsoFairSpec == CdevIsoSpec /\ CdevIsoFairness

-----------------------------------------------------------------------------
(* Properties.                                                             *)

\* Nobody uses a resource that the work item has freed: it is not in the xarray of
\* an open client, not in the hands of an ioctl, and its work item is not to run.  Only
\* the ioctl that allocates it may still hold it, if others queued the work item first.
NoUseAfterFree ==
    \A r \in Res : res[r].state = "freed" =>
        /\ res[r].listed => client.in_shutdown
        /\ r \notin user.res
        /\ work[r] = [queued |-> "no", run |-> NoRun]
        /\ res[r].call # "no" => res[r].early

\* Who needs the client: the file, the resources in its xarray or in the hands of an
\* ioctl or of the release of the file, and its work items, queued or running.
Held == {r \in Res : res[r].listed /\ ~client.in_shutdown} \cup user.res
Queued == {r \in Res : work[r].queued # "no"}
Running == {r \in Res : work[r].run.pc # "idle"}
References ==
    (IF client.in_shutdown /\ user.pc = "idle" THEN 0 ELSE 1) + (IF once.pc = "idle" THEN 0 ELSE 1)
        + Cardinality(Held) + Cardinality(Queued) + Cardinality(Running)

\* The client is not freed while somebody needs it.
KrefCovers == client.kref >= References /\ (client.freed <=> client.kref = 0)

\* A resource was used after it was freed.
Misused == \E r \in Res : res[r].used

\* Neither a resource nor its client is freed too early, whatever the order of work items,
\* ioctls, bus resets, refusals of the IRM and the release of the file (client_get() and
\* client_put() against iso_resource_auto_work()).  The exception is a race: between
\* add_client_resource() (core-cdev.c:1465) and schedule_iso_resource_auto() (1472) of
\* ioctl_allocate_iso_resource(), a bus reset event or another thread's deallocation queues
\* the work item, which frees the resource (1418-1422) that the ioctl goes on to use.  Only
\* this makes anybody use a resource that was freed; what happens then is left open.
NotFreedEarly ==
    /\ CdevIsoTypeOK
    /\ \A r \in Res : res[r].used => res[r].early
    /\ Misused \/ (NoUseAfterFree /\ KrefCovers)

\* A careful client is not kept when nobody needs it any more.  (A work item that deletes its
\* resource after a refusal may drop a queued run without its reference.)
KrefCounts == env.careful => client.kref = References

\* The uapi header: an allocation, and a deallocation, is concluded by one event.  An
\* event object is used once.
EventsOnce == \A r \in Res : ~events[r].null

\* The uapi header: the ioctl deallocates resources which were allocated by this
\* client.  The registers of the IRM agree with what their owners know.
OnlyOwnFreed ==
    /\ \A c \in Channel : c \in irm.avail <=> irm.owner[c] = "free"
    /\ irm.bw + MapThenSumSet(LAMBDA o : irm.units[o], Owner) = Initial

\* The uapi header: the kernel reallocates after bus resets.  A resource of a careful
\* client that is open ends up allocated in the last generation, once and for all, or is gone.
KeptAcrossResets ==
    \A r \in Res : <>[](env.careful /\ res[r].state = "live" /\ res[r].listed /\ ~client.in_shutdown =>
                           irm.units[r] = Units /\ \E c \in Channel : irm.owner[c] = r)

\* The uapi header: a deallocation is concluded by an event.
DeallocationEnds ==
    \A r \in Res : user.pc = "release" /\ r \in user.res ~>
                       events[r].dealloc = 1 \/ client.in_shutdown

\* The same for a careful client.
CarefulDeallocationEnds ==
    \A r \in Res : env.careful /\ user.pc = "release" /\ r \in user.res ~>
                       events[r].dealloc = 1 \/ client.in_shutdown

\* The uapi header: resources are deallocated when the file is closed, and then the
\* client is freed, if it is a careful one.
ClosedClientGone ==
    env.careful /\ client.in_shutdown ~> client.freed /\ \A r \in Res : res[r].state # "live" /\ irm.units[r] = 0

\* What the uapi header promises, to a careful client: reallocation after bus resets,
\* an event that concludes a deallocation, and deallocation when the file is closed.
CarefulClientServed == KeptAcrossResets /\ CarefulDeallocationEnds /\ ClosedClientGone
=============================================================================
