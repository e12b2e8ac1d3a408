---------------------------- MODULE FwIsoManage ----------------------------
(***************************************************************************)
(* Isochronous resource management, client side                             *)
(* (drivers/firewire/core-iso.c): users allocate and deallocate a channel   *)
(* and bandwidth with compare-swap transactions on the registers of the     *)
(* isochronous resource manager (IRM), which a bus reset re-initialises.    *)
(* One step is one transaction.                                             *)
(***************************************************************************)
EXTENDS Integers, FiniteSetsExt

CONSTANTS
    User,       \* callers of fw_iso_resource_manage(), on this or another node
    Hi, Lo,     \* channels of CHANNELS_AVAILABLE_HI and _LO
    Initial,    \* BANDWIDTH_AVAILABLE_INITIAL
    Masks,      \* values of channels_mask that are asked for
    Units,      \* values of bandwidth that are asked for
    Tries,      \* tries of manage_bandwidth(), and retries of manage_channel()
    IrmMaxGen,  \* bound: number of bus resets
    MaxOps      \* bound: number of operations and of transactions that fail

Channel == Hi \cup Lo

Failure == -1   \* no channel: the operation failed
Again == -2     \* -EAGAIN

ASSUME IsoAssumption ==
    /\ Channel \subseteq Nat /\ Hi \cap Lo = {} /\ IsFiniteSet(Channel)
    /\ Initial \in Nat /\ Units \subseteq Nat /\ Masks \subseteq SUBSET Channel
    /\ Tries \in Nat \ {0} /\ IrmMaxGen \in Nat /\ MaxOps \in Nat

VARIABLES
    irmgen,     \* generation of the bus
    avail,      \* CHANNELS_AVAILABLE of the IRM
    bw,         \* BANDWIDTH_AVAILABLE of the IRM
    held,       \* channels that transactions of each user took
    heldbw,     \* bandwidth that transactions of each user took
    job,        \* the running fw_iso_resource_manage() of each user
    hold,       \* what the last allocation of each user returned
    ops,        \* operations, and transactions that failed, so far
    failed,     \* a transaction failed in this generation, other than for being stale
    spent       \* users that used up their tries in this generation to give back a
                \* channel or bandwidth

irmvars == <<irmgen, avail, bw, held, heldbw, job, hold, ops, failed, spent>>

NoJob == [pc |-> "idle"]
Nothing == [channel |-> Failure, bandwidth |-> 0, generation |-> 0]

Outcome == Channel \cup {Failure, Again}

JobType ==
    [pc : {"hi", "lo", "bandwidth", "undo"}, allocate : BOOLEAN, mask : SUBSET Channel,
     bandwidth : Nat, generation : 0 .. IrmMaxGen, from : Nat, old : SUBSET Channel,
     retry : 0 .. Tries, units : 0 .. Initial, channel : Outcome]

IrmTypeOK ==
    /\ irmgen \in 0 .. IrmMaxGen
    /\ avail \subseteq Channel
    /\ bw \in 0 .. Initial
    /\ held \in [User -> SUBSET Channel]
    /\ heldbw \in [User -> Nat]
    /\ job \in [User -> JobType \cup {NoJob}]
    /\ hold \in [User -> [channel : Outcome, bandwidth : Nat, generation : 0 .. IrmMaxGen]]
    /\ ops \in 0 .. MaxOps
    /\ failed \in BOOLEAN
    /\ spent \subseteq User

IrmInit ==
    /\ irmgen = 0
    /\ avail = Channel /\ bw = Initial
    /\ held = [u \in User |-> {}] /\ heldbw = [u \in User |-> 0]
    /\ job = [u \in User |-> NoJob]
    /\ hold = [u \in User |-> Nothing]
    /\ ops = 0
    /\ failed = FALSE
    /\ spent = {}

\* A bus reset: the IRM starts with all channels and all bandwidth.
IrmReset ==
    /\ irmgen < IrmMaxGen
    /\ irmgen' = irmgen + 1
    /\ avail' = Channel /\ bw' = Initial
    /\ held' = [u \in User |-> {}] /\ heldbw' = [u \in User |-> 0]
    /\ failed' = FALSE
    /\ spent' = {}
    /\ UNCHANGED <<job, hold, ops>>

-----------------------------------------------------------------------------
(* The loops of manage_channel() and manage_bandwidth().                   *)

Register(pc, mask) ==
    IF pc = "hi" THEN Hi ELSE IF pc = "lo" THEN Lo
    ELSE IF mask \subseteq Hi THEN Hi ELSE Lo

\* manage_channel() starts with the value it expects in an idle register.
Loop(j, pc) ==
    [j EXCEPT !.pc = pc, !.from = 0, !.retry = Tries,
              !.old = IF j.allocate /\ pc # "undo" THEN Register(pc, j.mask) ELSE {}]

\* manage_bandwidth(), likewise.
BwLoop(j) == [j EXCEPT !.pc = "bandwidth", !.retry = Tries,
                       !.units = IF j.allocate THEN Initial ELSE 0]

\* Whether channels are being allocated, which they are not when an allocation is
\* undone.
Taking(j) == j.allocate /\ j.pc # "undo"

\* Channels that are still to be tried: those the register, as known, has in the
\* state to change from.
Candidates(j) ==
    {c \in j.mask \cap Register(j.pc, j.mask) : c >= j.from /\ (c \in j.old <=> Taking(j))}

\* The new value of the register is in range.
Fits(j) == IF j.allocate THEN j.units >= j.bandwidth ELSE j.units + j.bandwidth <= Initial

-----------------------------------------------------------------------------
(* fw_iso_resource_manage()                                                *)

Set(u, j) == job' = [job EXCEPT ![u] = j]

\* The operation returns: the caller keeps an allocation with its generation, and
\* forgets what it deallocated, whether that succeeded or not.
OperationReturns(u, j, channel, bandwidth) ==
    /\ Set(u, NoJob)
    /\ hold' = [hold EXCEPT ![u] =
                   IF ~j.allocate THEN Nothing
                   ELSE [channel |-> channel, bandwidth |-> bandwidth,
                         generation |-> j.generation]]

StartOperation(u, allocate, mask, bandwidth, generation) ==
    LET j == [pc |-> "hi", allocate |-> allocate, mask |-> mask, bandwidth |-> bandwidth,
              generation |-> generation, from |-> 0, old |-> {}, retry |-> 0, units |-> 0,
              channel |-> Failure]
    IN Set(u, IF mask \cap Hi # {} THEN Loop(j, "hi")
              ELSE IF mask # {} THEN Loop(j, "lo") ELSE BwLoop(j))

AllocateResource(u) ==
    /\ job[u] = NoJob /\ hold[u].channel < 0 /\ hold[u].bandwidth = 0
    /\ ops < MaxOps /\ ops' = ops + 1
    /\ \E mask \in Masks, n \in Units :
          (mask # {} \/ n > 0) /\ StartOperation(u, TRUE, mask, n, irmgen)
    /\ UNCHANGED <<irmgen, avail, bw, held, heldbw, hold, failed, spent>>

\* fw_iso_resources_free(): with the generation of the allocation.
DeallocateResource(u) ==
    /\ job[u] = NoJob /\ (hold[u].channel >= 0 \/ hold[u].bandwidth > 0)
    /\ ops < MaxOps /\ ops' = ops + 1
    /\ StartOperation(u, FALSE, {hold[u].channel} \cap Channel, hold[u].bandwidth,
             hold[u].generation)
    /\ UNCHANGED <<irmgen, avail, bw, held, heldbw, hold, failed, spent>>

\* What follows manage_channel(): the other register, bandwidth, or the end.
AfterChannel(u, j, c) ==
    IF j.pc = "undo" THEN OperationReturns(u, j, j.channel, 0)
    ELSE IF j.pc = "hi" /\ c < 0 /\ j.mask \cap Lo # {}
         THEN Set(u, Loop([j EXCEPT !.channel = c], "lo")) /\ UNCHANGED hold
    ELSE IF (j.allocate /\ c < 0) \/ j.bandwidth = 0 THEN OperationReturns(u, j, c, 0)
    ELSE Set(u, BwLoop([j EXCEPT !.channel = c])) /\ UNCHANGED hold

\* Mutant: the channel of a failed allocation is not given back.
KeepChannel(u, j, ret) == OperationReturns(u, j, ret, 0)

\* What follows manage_bandwidth() when it failed: the channel is given back.
BandwidthFailed(u, j, ret) ==
    IF j.allocate /\ j.channel >= 0
    THEN Set(u, Loop([j EXCEPT !.channel = ret, !.mask = {j.channel}], "undo")) /\ UNCHANGED hold
    ELSE OperationReturns(u, j, IF j.allocate THEN ret ELSE j.channel, 0)

\* After a failed try: the same channel again, or the next one.
Retry(j, c) == IF j.retry > 0 THEN [j EXCEPT !.retry = @ - 1] ELSE [j EXCEPT !.from = c + 1]

\* The IRM swaps channel c on behalf of user u.
Swap(u, j, c) ==
    /\ avail' = IF Taking(j) THEN avail \ {c} ELSE avail \cup {c}
    /\ held' = IF Taking(j) THEN [held EXCEPT ![u] = @ \cup {c}]
              ELSE [v \in User |-> held[v] \ {c}]

\* Mutant: the value that was read is not compared.
SwapAnyway(j) == TRUE

\* The compare of a compare-swap transaction on a channel register.
SwapMatches(j) == j.old = avail \cap Register(j.pc, j.mask)

\* RCODE_GENERATION: the transaction is for an earlier generation.
Stale(j) == j.generation # irmgen

\* Ghost: a loop ends that should give something back, for want of tries.
GivesUp(u, giving) ==
    spent' = IF giving /\ ~Stale(job[u]) /\ job[u].retry = 0 THEN spent \cup {u} ELSE spent

InChannel(u) == job[u] # NoJob /\ job[u].pc \in {"hi", "lo", "undo"}

\* No channel of the mask is left.
ChannelExhausted(u) ==
    /\ InChannel(u) /\ Candidates(job[u]) = {}
    /\ AfterChannel(u, job[u], Failure)
    /\ GivesUp(u, ~Taking(job[u]))
    /\ UNCHANGED <<irmgen, avail, bw, held, heldbw, ops, failed>>

\* A generation change frees all channels.
ChannelStale(u) ==
    LET j == job[u] IN
    /\ InChannel(u) /\ Candidates(j) # {} /\ Stale(j)
    /\ AfterChannel(u, j, IF Taking(j) THEN Again ELSE Min(Candidates(j)))
    /\ UNCHANGED <<irmgen, avail, bw, held, heldbw, ops, failed, spent>>

\* RCODE_COMPLETE: the register was swapped, or its value becomes known.
ChannelLock(u) ==
    LET j == job[u]
        c == Min(Candidates(j))
        now == avail \cap Register(j.pc, j.mask)
        seen == [j EXCEPT !.old = now]
    IN /\ InChannel(u) /\ Candidates(j) # {} /\ ~Stale(j)
       /\ IF SwapMatches(j)
          THEN Swap(u, j, c) /\ AfterChannel(u, j, c)
          ELSE /\ Set(u, IF c \in now <=> Taking(j) THEN Retry(seen, c)
                         ELSE [seen EXCEPT !.from = c + 1])
               /\ UNCHANGED <<avail, held, hold>>
       /\ UNCHANGED <<irmgen, bw, heldbw, ops, failed, spent>>

\* Any other response code, or none; the IRM may have done the swap.
ChannelFails(u) ==
    LET j == job[u]
        c == Min(Candidates(j))
    IN /\ ops < MaxOps /\ ops' = ops + 1
       /\ InChannel(u) /\ Candidates(j) # {} /\ ~Stale(j)
       /\ \/ SwapMatches(j) /\ Swap(u, j, c)
          \/ UNCHANGED <<avail, held>>
       /\ Set(u, Retry(j, c))
       /\ failed' = TRUE
       /\ UNCHANGED <<irmgen, bw, heldbw, hold, spent>>

InBandwidth(u) == job[u] # NoJob /\ job[u].pc = "bandwidth"
MayTry(j) == j.retry > 0 /\ Fits(j)

BandwidthExhausted(u) ==
    /\ InBandwidth(u) /\ ~MayTry(job[u])
    /\ BandwidthFailed(u, job[u], Failure)
    /\ GivesUp(u, ~job[u].allocate)
    /\ UNCHANGED <<irmgen, avail, bw, held, heldbw, ops, failed>>

BandwidthStale(u) ==
    LET j == job[u] IN
    /\ InBandwidth(u) /\ MayTry(j) /\ Stale(j)
    /\ IF j.allocate THEN BandwidthFailed(u, j, Again)
                     ELSE OperationReturns(u, j, j.channel, j.bandwidth)
    /\ UNCHANGED <<irmgen, avail, bw, held, heldbw, ops, failed, spent>>

\* The IRM swaps its bandwidth register on behalf of user u.
SwapBandwidth(u, j) ==
    /\ bw' = IF j.allocate THEN bw - j.bandwidth ELSE bw + j.bandwidth
    /\ heldbw' = [heldbw EXCEPT ![u] = IF j.allocate THEN @ + j.bandwidth
                                     ELSE IF @ >= j.bandwidth THEN @ - j.bandwidth ELSE 0]

BandwidthLock(u) ==
    LET j == job[u] IN
    /\ InBandwidth(u) /\ MayTry(j) /\ ~Stale(j)
    /\ IF j.units = bw
       THEN SwapBandwidth(u, j) /\ OperationReturns(u, j, j.channel, j.bandwidth)
       ELSE /\ Set(u, [j EXCEPT !.units = bw, !.retry = @ - 1])
            /\ UNCHANGED <<bw, heldbw, hold>>
    /\ UNCHANGED <<irmgen, avail, held, ops, failed, spent>>

BandwidthFails(u) ==
    LET j == job[u] IN
    /\ ops < MaxOps /\ ops' = ops + 1
    /\ InBandwidth(u) /\ MayTry(j) /\ ~Stale(j)
    /\ \/ j.units = bw /\ SwapBandwidth(u, j)
       \/ UNCHANGED <<bw, heldbw>>
    /\ Set(u, [j EXCEPT !.retry = @ - 1])
    /\ failed' = TRUE
    /\ UNCHANGED <<irmgen, avail, held, hold, spent>>

-----------------------------------------------------------------------------
Manage(u) ==
    \/ ChannelExhausted(u) \/ ChannelStale(u) \/ ChannelLock(u) \/ ChannelFails(u)
    \/ BandwidthExhausted(u) \/ BandwidthStale(u) \/ BandwidthLock(u) \/ BandwidthFails(u)

IrmNext == IrmReset \/ \E u \in User : AllocateResource(u) \/ DeallocateResource(u) \/ Manage(u)

IrmSpec == IrmInit /\ [][IrmNext]_irmvars

(* Every transaction ends, with a response or with a timeout.               *)
IrmFairSpec == IrmSpec /\ \A u \in User : WF_irmvars(Manage(u))

-----------------------------------------------------------------------------
(* Properties.                                                             *)

\* The bandwidth that transactions of the users took, unit by unit.
Taken == UNION {{u} \X (1 .. heldbw[u]) : u \in User}

\* The registers of the IRM agree with what the users took, and a channel has one
\* owner.  After a transaction failed, bandwidth may be given back twice.
RegistersAgree ==
    /\ IrmTypeOK
    /\ avail = Channel \ UNION {held[u] : u \in User}
    /\ \A u, v \in User : u # v => held[u] \cap held[v] = {}
    /\ failed \/ bw + Cardinality(Taken) = Initial

\* What the last allocation of a user returned, unless a bus reset took it back.
Told(u) == IF hold[u].generation = irmgen THEN hold[u] ELSE Nothing

\* The kernel-doc of fw_iso_resource_manage(): at most one channel is allocated, if
\* channel allocation fails, no bandwidth is allocated, and if bandwidth allocation
\* fails, no channel is.  An idle user has at the IRM what it was told, and no more,
\* unless others changed the registers each time when it tried to give something back.
BothOrNeither ==
    \A u \in User : job[u] = NoJob =>
        LET channels == {Told(u).channel} \cap Channel
        IN /\ channels \subseteq held[u] /\ Told(u).bandwidth <= heldbw[u]
           /\ u \notin spent => held[u] = channels /\ heldbw[u] = Told(u).bandwidth

\* The same, as long as every transaction in this generation got its response.
NothingLeaks == failed \/ BothOrNeither

\* What the users of fw_iso_resource_manage() rely on: a channel has one owner, the
\* registers tell what is left, and an operation does all or nothing.
ResourcesExact == RegistersAgree /\ NothingLeaks

\* Every operation comes to an end, whatever transactions fail and whatever others
\* do to the registers.
OperationsEnd == \A u \in User : []<>(job[u] = NoJob)

\* Seen from the IRM, users take and give what is theirs, as long as every
\* transaction gets its response.
Ledger == INSTANCE IsoLedger WITH channels <- held, units <- heldbw, lost <- failed
ImplementsLedger == Ledger!Spec
=============================================================================
