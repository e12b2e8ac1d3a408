---------------------------- MODULE FwBusManager ----------------------------
(***************************************************************************)
(* Bus manager and bus reset work items of firewire-core                   *)
(* (drivers/firewire/core-card.c) on several nodes of one bus that all run *)
(* this code: contention for the role of bus manager, choice of root node  *)
(* and gap count, allocation of the broadcast channel, and the bus resets  *)
(* which these decisions cause.  One step is one section under card->lock  *)
(* or one transaction on the bus.  The set of nodes and their physical IDs *)
(* do not change.                                                          *)
(***************************************************************************)
EXTENDS Integers, FiniteSets

CONSTANTS
    Host,           \* nodes that run this code
    Passive,        \* other nodes
    PhyId,          \* physical ID of each node
    Cmc,            \* cycle master capable nodes
    NoRom,          \* passive nodes whose configuration ROM cannot be read
    LinkOff,        \* passive nodes with the link off, whose ROM cannot be read
    OldIrm,         \* nodes with FW_DEVICE_QUIRK_IRM_IS_1394_1995_ONLY
    ExpectedGap,    \* the gap count for root_node->max_hops
    Phys,           \* the PHYs: "obedient" to PHY configuration packets,
                    \* "stubborn", or "any"
    Prompt,         \* whether a bus reset is handled before bm_work() starts again
    MaxRetries,     \* 5 in the code
    MaxResets,         \* bound: number of bus resets
    MaxExternal,    \* bound: resets not caused by the work items, and requests
                    \* made with fw_schedule_bus_reset()
    Abdicate,       \* values of bm_abdicate, which other nodes write
    LockFailures    \* rcodes, other than complete and generation, of the lock
                    \* request: subset of {"send_error", "other"}

Node == Host \cup Passive
NoNode == 65535             \* 0xffff
NotRegistered == 63         \* BUS_MANAGER_ID_NOT_REGISTERED
Mismatched == 0             \* GAP_COUNT_MISMATCHED
NodeIdOf(n) == 65472 + PhyId[n]     \* 0xffc0 | phy ID

ASSUME BusAssumption ==
    /\ Host # {} /\ Host \cap Passive = {}
    /\ PhyId \in [Node -> 0 .. 62]
    /\ \A m, n \in Node : PhyId[m] = PhyId[n] => m = n
    /\ Cmc \subseteq Node /\ NoRom \subseteq Passive /\ OldIrm \subseteq Passive
    /\ LinkOff \subseteq Passive /\ Abdicate \subseteq BOOLEAN /\ Abdicate # {}
    /\ ExpectedGap \in 1 .. 63 /\ Phys \in {"obedient", "stubborn", "any"} /\ Prompt \in BOOLEAN
    /\ MaxRetries \in Nat /\ MaxResets \in Nat \ {0} /\ MaxExternal \in Nat
    /\ LockFailures \subseteq {"send_error", "other"}

VARIABLES
    bus,        \* the bus: generation, root, IRM, gap count, the IRM's registers
    fwcard,       \* struct fw_card of each host
    dev,        \* dev[n][p]: state of n's fw_device for node p
    bm, br,     \* bm_work() and br_work() of each host
    external,   \* resets and reset requests from elsewhere so far
    manager     \* history: hosts that won the contention in this generation

bmvars == <<bus, fwcard, dev, bm, br, external, manager>>

Gen == 0 .. MaxResets
Gap == {Mismatched, ExpectedGap, 63}
NoCfg == [root |-> NoNode, gap |-> Mismatched]

BmTypeOK ==
    /\ bus \in [gen : Gen, initiator : Node, root : Node, irm : Node, gap : Gap, reg : 0 .. 63,
                chan31 : BOOLEAN, cfg : [root : Node \cup {NoNode}, gap : Gap],
                cmstr : BOOLEAN]
    /\ fwcard \in [Host ->
          [gen : Gen, tree : BOOLEAN, root : Node, irm : Node, gap : Gap, bm_gen : Gen,
           bm_node_id : 0 .. NoNode, retries : 0 .. MaxRetries, bcast : BOOLEAN,
           late : BOOLEAN, grace : BOOLEAN, abdicate : BOOLEAN, kref : Nat \ {0},
           bm_pending : BOOLEAN, br_pending : BOOLEAN]]
    /\ dev \in [Host -> [Node -> {"none", "probing", "running"}]]
    /\ bm \in [Host -> [pc : {"idle", "lock", "only_irm", "only_irm_store", "config", "reset",
                              "cmstr", "bcast", "bcast_store"},
                        gen : Gen, root : Node, irm : Node, old : 0 .. 63 \cup {-1},
                        new_root : Node]]
    /\ br \in [Host -> {"idle", "config", "reset"}]
    /\ external \in 0 .. MaxExternal
    /\ manager \subseteq Host

\* The IRM is the contender with the largest ID; hosts are contenders.
IrmFor(r) == IF r \in Host \cup OldIrm \cup LinkOff THEN {r} ELSE Host

\* Devices of newly created nodes are probed, whether the link is on or not.
FreshDevices == [p \in Node |-> "probing"]

\* bm_work() between its runs.
Idle(n) == [pc |-> "idle", gen |-> 0, root |-> n, irm |-> n, old |-> -1, new_root |-> n]

\* No bus reset has been yet.
BmInit ==
    /\ LET n == CHOOSE n \in Host : TRUE
       IN bus = [gen |-> 0, initiator |-> n, root |-> n, irm |-> n, gap |-> 63, reg |-> NotRegistered,
                 chan31 |-> FALSE, cfg |-> NoCfg, cmstr |-> FALSE]
    /\ fwcard = [n \in Host |->
                 [gen |-> 0, tree |-> FALSE, root |-> n, irm |-> n, gap |-> 63, bm_gen |-> 0,
                  bm_node_id |-> NoNode, retries |-> 0, bcast |-> FALSE, late |-> FALSE,
                  grace |-> FALSE, abdicate |-> FALSE, kref |-> 1, bm_pending |-> FALSE, br_pending |-> FALSE]]
    /\ dev = [n \in Host |-> FreshDevices]
    /\ bm = [n \in Host |-> Idle(n)]
    /\ br = [n \in Host |-> "idle"]
    /\ external = 0
    /\ manager = {}

-----------------------------------------------------------------------------
(* The bus (external).                                                     *)

FirstReset ==
    /\ bus.gen = 0
    /\ \E r \in Node, g \in Gap : \E i \in IrmFor(r) :
          bus' = [bus EXCEPT !.gen = 1, !.initiator = r, !.root = r, !.irm = i, !.gap = g]
    /\ UNCHANGED <<fwcard, dev, bm, br, external, manager>>

\* A bus reset initiated by p: registers of the IRM are initialised; the PHYs take over root
\* and gap count from the last PHY configuration packet, if they do.
BusReset(p) ==
    /\ bus.gen \in 1 .. MaxResets - 1
    /\ \E r \in Node, g \in Gap : \E i \in IrmFor(r) :
          /\ Phys = "stubborn" => r = bus.root /\ g = bus.gap
          /\ Phys = "obedient" =>
                /\ r = (IF bus.cfg.root = NoNode THEN bus.root ELSE bus.cfg.root)
                /\ g \in IF bus.cfg.gap = Mismatched THEN {bus.gap, 63} ELSE {bus.cfg.gap}
          /\ bus' = [bus EXCEPT !.gen = @ + 1, !.initiator = p, !.root = r, !.irm = i, !.gap = g,
                                !.reg = NotRegistered, !.chan31 = FALSE, !.cfg = NoCfg,
                                !.cmstr = @ /\ r = bus.root]
    /\ manager' = {}

ExternalReset ==
    /\ external < MaxExternal
    /\ external' = external + 1
    /\ \E p \in Node : BusReset(p)
    /\ UNCHANGED <<fwcard, dev, bm, br>>

-----------------------------------------------------------------------------
(* Scheduling of the work items; each holds a reference to the card.       *)

\* fw_schedule_bm_work()
ScheduleBm(c) ==
    IF c.bm_pending THEN c ELSE [c EXCEPT !.bm_pending = TRUE, !.kref = @ + 1]

\* fw_schedule_bus_reset()
ScheduleBusReset(n) ==
    /\ external < MaxExternal /\ bus.gen > 0
    /\ external' = external + 1
    /\ fwcard' = IF fwcard[n].br_pending THEN fwcard
                 ELSE [fwcard EXCEPT ![n].br_pending = TRUE, ![n].kref = @ + 1]
    /\ UNCHANGED <<bus, dev, bm, br, manager>>

\* The card after a bus reset.  A topology which is not the successor of the last
\* one known counts as a new one.
NewGeneration(c, abdicate, skipped) ==
    [c EXCEPT !.gen = bus.gen, !.tree = TRUE, !.root = bus.root, !.irm = bus.irm,
              !.gap = bus.gap, !.bm_node_id = NoNode, !.grace = FALSE,
              !.bcast = FALSE, !.late = FALSE, !.abdicate = abdicate,
              !.retries = IF skipped \/ ~c.tree THEN 0 ELSE @]

\* fw_core_handle_bus_reset(), as far as it concerns the work items.  It may
\* run late and skip generations.  The device of the node that initiated the
\* reset is refreshed, or created if there is none.
HandleBusReset(n) ==
    /\ fwcard[n].gen # bus.gen
    /\ \E abdicate \in Abdicate :
       LET skipped == fwcard[n].tree /\ bus.gen # fwcard[n].gen + 1
       IN /\ fwcard' = [fwcard EXCEPT ![n] = ScheduleBm(NewGeneration(@, abdicate, skipped))]
          /\ dev' = IF skipped THEN [dev EXCEPT ![n] = FreshDevices]
                    ELSE IF bus.initiator \in LinkOff THEN dev
                    ELSE [dev EXCEPT ![n][bus.initiator] = "probing"]
    /\ UNCHANGED <<bus, bm, br, external, manager>>

\* 125 ms have passed since the last reset.
GraceExpires(n) ==
    /\ fwcard[n].tree /\ ~fwcard[n].grace
    /\ fwcard' = [fwcard EXCEPT ![n].grace = TRUE]
    /\ UNCHANGED <<bus, dev, bm, br, external, manager>>

\* The device for node p is probed, or given up; see fw_device_init().
Probe(n, p) ==
    /\ fwcard[n].tree /\ fwcard[n].gen = bus.gen /\ dev[n][p] = "probing"
    /\ dev' = [dev EXCEPT ![n][p] = IF p \in NoRom \cup LinkOff THEN "none" ELSE "running"]
    /\ fwcard' = [fwcard EXCEPT ![n] = IF p = @.root THEN ScheduleBm(@) ELSE @]
    /\ UNCHANGED <<bus, bm, br, external, manager>>

-----------------------------------------------------------------------------
(* br_work()                                                               *)

\* The work item queues itself again, with the reference it has, until 2 s after
\* the last reset; the 125 ms of contend_for_bm() are then over, too.
BrStart(n) ==
    /\ br[n] = "idle" /\ fwcard[n].br_pending
    /\ fwcard[n].tree => fwcard[n].grace
    /\ fwcard' = [fwcard EXCEPT ![n].br_pending = FALSE]
    /\ br' = [br EXCEPT ![n] = "config"]
    /\ UNCHANGED <<bus, dev, bm, external, manager>>

\* fw_send_phy_config(): sent in the given generation or not at all.
SendPhyConfig(gen, root, gap) ==
    IF gen = bus.gen THEN [bus EXCEPT !.cfg = [root |-> root, gap |-> gap]] ELSE bus

BrConfig(n) ==
    /\ br[n] = "config"
    /\ \E own \in IF bus.gap = Mismatched THEN Gap \ {Mismatched} ELSE {bus.gap} :
          bus' = IF own = 63 THEN bus ELSE SendPhyConfig(fwcard[n].gen, NoNode, own)
    /\ br' = [br EXCEPT ![n] = "reset"]
    /\ UNCHANGED <<fwcard, dev, bm, external, manager>>

BrReset(n) ==
    /\ br[n] = "reset"
    /\ BusReset(n)
    /\ br' = [br EXCEPT ![n] = "idle"]
    /\ fwcard' = [fwcard EXCEPT ![n].kref = @ - 1]
    /\ UNCHANGED <<dev, bm, external>>

-----------------------------------------------------------------------------
(* bm_work()                                                               *)

\* The end of the work item, with its reference, from a card state c.
Done(n, c) ==
    /\ fwcard' = [fwcard EXCEPT ![n] = [c EXCEPT !.kref = @ - 1]]
    /\ bm' = [bm EXCEPT ![n] = Idle(n)]

\* A node that cannot be cycle master, as far as n knows.
Unfit(n, root) == dev[n][root] = "none" \/ root \notin Cmc

\* What follows the contention: w are the locals of bm_work(), c the card, and
\* stand is stand_for_root so far.  Only retries < MaxRetries is ever asked, so
\* the counter stops there.
Investigate(n, w, c, stand) ==
    LET mismatch  == ~stand /\ c.gap = Mismatched
        inquire   == ~stand /\ ~mismatch
        st        == stand \/ mismatch \/ (inquire /\ Unfit(n, w.root))
        new_root  == IF st THEN n ELSE w.root
        retries   == IF mismatch THEN 0 ELSE c.retries
        tried     == [c EXCEPT !.retries = IF retries < MaxRetries THEN retries + 1 ELSE retries]
    IN \/ /\ inquire /\ dev[n][w.root] = "probing"
          /\ Done(n, c)
       \/ /\ ~(inquire /\ dev[n][w.root] = "probing")
          /\ fwcard' = [fwcard EXCEPT ![n] = tried]
          /\ bm' = [bm EXCEPT ![n] =
                      [w EXCEPT !.new_root = new_root, !.old = -1,
                                !.pc = IF retries < MaxRetries
                                          /\ (c.gap # ExpectedGap \/ new_root # w.root)
                                       THEN "config" ELSE "cmstr"]]

\* contend_for_bm(): an IRM that cannot keep the register of the bus manager.
UnusableIrm(n, irm) == irm \in LinkOff \/ (irm \in OldIrm /\ dev[n][irm] = "running")

\* Mutant: the window seen the wrong way round.
WithinWindowAfterwards(c) == c.grace

\* contend_for_bm(): within the window a host that was not bus manager before
\* leaves the race to the incumbent.
WithinWindow(c) == ~c.grace /\ (c.gen # c.bm_gen + 1 \/ c.abdicate)

BmStart(n) ==
    /\ bm[n].pc = "idle" /\ fwcard[n].bm_pending
    /\ Prompt => fwcard[n].gen = bus.gen
    /\ LET c == [fwcard[n] EXCEPT !.bm_pending = FALSE]
           w == [bm[n] EXCEPT !.gen = c.gen, !.root = c.root, !.irm = c.irm]
       IN \/ /\ ~c.tree
             /\ Done(n, c)
          \/ /\ c.tree /\ c.bm_gen # c.gen /\ WithinWindow(c)
             /\ Done(n, ScheduleBm(c))
          \/ /\ c.tree /\ c.bm_gen # c.gen /\ ~WithinWindow(c)
             /\ UnusableIrm(n, c.irm)
             /\ Investigate(n, w, c, TRUE)
          \/ /\ c.tree /\ c.bm_gen # c.gen /\ ~WithinWindow(c)
             /\ ~UnusableIrm(n, c.irm)
             /\ fwcard' = [fwcard EXCEPT ![n] = c]
             /\ bm' = [bm EXCEPT ![n] = [w EXCEPT !.pc = "lock"]]
          \/ /\ c.tree /\ c.bm_gen = c.gen
             /\ Investigate(n, w, c, FALSE)
    /\ UNCHANGED <<bus, dev, br, external, manager>>

\* Mutant: the swap is made whatever the register holds.
SwapUnconditionally(old, n) == PhyId[n]

\* handle_local_lock(): the register has 6 bits.
CompareSwap(old, n) == IF old = NotRegistered THEN NodeIdOf(n) % 64 ELSE old

LockAtIrm(n) ==
    /\ bm[n].pc = "lock" /\ bm[n].old = -1
    /\ bm[n].gen = bus.gen /\ bm[n].irm \notin OldIrm
    /\ bus' = [bus EXCEPT !.reg = CompareSwap(@, n)]
    /\ bm' = [bm EXCEPT ![n].old = bus.reg]
    /\ manager' = IF bus.reg = NotRegistered THEN manager \cup {n} ELSE manager
    /\ UNCHANGED <<fwcard, dev, br, external>>

\* card->bm_node_id = 0xffc0 & bm_id, or local_id
BmNodeId(n, bm_id) == IF bm_id # NotRegistered THEN (bm_id \div 64) * 64 ELSE NodeIdOf(n)

LockComplete(n) ==
    /\ bm[n].pc = "lock" /\ bm[n].old # -1
    /\ LET won == bm[n].old = NotRegistered
           c   == [fwcard[n] EXCEPT !.bm_node_id = BmNodeId(n, bm[n].old)]
       IN \/ /\ ~won /\ bm[n].irm = n
             /\ fwcard' = [fwcard EXCEPT ![n] = c]
             /\ bm' = [bm EXCEPT ![n].pc = "only_irm", ![n].old = -1]
          \/ /\ won \/ bm[n].irm # n
             /\ Investigate(n, bm[n], [c EXCEPT !.bm_gen = bm[n].gen], FALSE)
    /\ UNCHANGED <<bus, dev, br, external, manager>>

\* The other outcomes of the lock request.
LockFails(n) ==
    /\ bm[n].pc = "lock"
    /\ \/ /\ bm[n].gen # bus.gen                    \* RCODE_GENERATION
          /\ Done(n, fwcard[n])
       \/ /\ "send_error" \in LockFailures
          /\ bm[n].old = -1
          /\ Done(n, ScheduleBm(fwcard[n]))
       \/ /\ "other" \in LockFailures \/ bm[n].irm \in OldIrm
          /\ Investigate(n, bm[n], fwcard[n], TRUE)
    /\ UNCHANGED <<bus, dev, br, external, manager>>

\* allocate_broadcast_channel(): the transactions with the IRM.
Allocate(n, from, to) ==
    /\ bm[n].pc = from /\ ~fwcard[n].bcast
    /\ bm[n].gen = bus.gen
    /\ bus' = [bus EXCEPT !.chan31 = TRUE]
    /\ bm' = [bm EXCEPT ![n].pc = to]
    /\ UNCHANGED <<fwcard, dev, br, external, manager>>
OnlyIrmAllocate(n) == Allocate(n, "only_irm", "only_irm_store")
BcastAllocate(n)   == Allocate(n, "bcast", "bcast_store")

\* card->broadcast_channel_allocated = true, if the channel was allocated.
NoteChannel(n, c) ==
    IF bm[n].pc \in {"only_irm_store", "bcast_store"}
    THEN [c EXCEPT !.bcast = TRUE, !.late = c.gen # bm[n].gen] ELSE c

\* After allocate_broadcast_channel(): back to bm_work() which takes the lock.
OnlyIrmDone(n) ==
    /\ \/ bm[n].pc = "only_irm_store"
       \/ bm[n].pc = "only_irm" /\ (fwcard[n].bcast \/ bm[n].gen # bus.gen)
    /\ Investigate(n, bm[n], NoteChannel(n, [fwcard[n] EXCEPT !.bm_gen = bm[n].gen]), FALSE)
    /\ UNCHANGED <<bus, dev, br, external, manager>>

BmConfig(n) ==
    /\ bm[n].pc = "config"
    /\ bus' = SendPhyConfig(bm[n].gen, bm[n].new_root, ExpectedGap)
    /\ bm' = [bm EXCEPT ![n].pc = "reset"]
    /\ UNCHANGED <<fwcard, dev, br, external, manager>>

BmReset(n) ==
    /\ bm[n].pc = "reset"
    /\ BusReset(n)
    /\ Done(n, fwcard[n])
    /\ UNCHANGED <<dev, br, external>>

\* STATE_SET.cmstr of the root, then the broadcast channel if the host is IRM.
BmCmstr(n) ==
    /\ bm[n].pc = "cmstr"
    /\ LET write == dev[n][bm[n].root] = "running" /\ bm[n].root \in Cmc
           stale == bm[n].gen # bus.gen
       IN /\ bus' = IF write /\ ~stale THEN [bus EXCEPT !.cmstr = TRUE] ELSE bus
          /\ IF (write /\ stale) \/ bm[n].irm # n
             THEN Done(n, fwcard[n])
             ELSE /\ bm' = [bm EXCEPT ![n].pc = "bcast"]
                  /\ UNCHANGED fwcard
    /\ UNCHANGED <<dev, br, external, manager>>

BcastDone(n) ==
    /\ \/ bm[n].pc = "bcast_store"
       \/ bm[n].pc = "bcast" /\ (fwcard[n].bcast \/ bm[n].gen # bus.gen)
    /\ Done(n, NoteChannel(n, fwcard[n]))
    /\ UNCHANGED <<bus, dev, br, external, manager>>

-----------------------------------------------------------------------------
BmWork(n) ==
    \/ BmStart(n) \/ LockAtIrm(n) \/ LockComplete(n) \/ LockFails(n)
    \/ OnlyIrmAllocate(n) \/ OnlyIrmDone(n)
    \/ BmConfig(n) \/ BmReset(n) \/ BmCmstr(n) \/ BcastAllocate(n) \/ BcastDone(n)
BrWork(n) == BrStart(n) \/ BrConfig(n) \/ BrReset(n)

BmNext ==
    \/ FirstReset \/ ExternalReset
    \/ \E n \in Host :
          \/ ScheduleBusReset(n) \/ HandleBusReset(n) \/ GraceExpires(n)
          \/ \E p \in Node : Probe(n, p)
          \/ BrWork(n) \/ BmWork(n)

BmSpec == BmInit /\ [][BmNext]_bmvars

(* Work items and interrupt handlers run, time passes, probing ends.       *)
BmFairness ==
    \A n \in Host :
          /\ WF_bmvars(HandleBusReset(n)) /\ WF_bmvars(GraceExpires(n))
          /\ WF_bmvars(BrWork(n)) /\ WF_bmvars(BmWork(n))
          /\ \A p \in Node : WF_bmvars(Probe(n, p))
BmFairSpec == BmSpec /\ BmFairness

-----------------------------------------------------------------------------
(* Properties.                                                             *)

\* The register of the IRM decides: in one generation at most one host takes
\* itself for the bus manager, and the IRM holds its ID while that generation
\* lasts (contend_for_bm(), handle_local_lock()).
OneManagerPerGeneration ==
    /\ BmTypeOK
    /\ Cardinality(manager) <= 1
    /\ \A n \in manager : bus.reg = PhyId[n]

\* The comment in bm_work() ahead of root selection and gap count optimization:
\* whoever gets there without a contention failure is the bus manager.
OnlyManagerConfigures ==
    \A n \in Host :
        /\ bm[n].pc = "config" /\ bm[n].gen = bus.gen
        /\ fwcard[n].bm_gen = bus.gen     \* the contention has not failed
        => n \in manager

\* struct fw_cdev_event_bus_reset: @bm_node_id is the node ID of the bus manager.
BmNodeIdNamesManager ==
    \A n \in Host : fwcard[n].bm_node_id # NoNode =>
                        \E m \in Node : fwcard[n].bm_node_id = NodeIdOf(m)

\* A reference to the card is held for each queued and for each running work
\* item, and for nothing else (fw_schedule_bm_work(), fw_schedule_bus_reset(),
\* br_work(), bm_work()).
KrefCountsWork ==
    \A n \in Host :
        fwcard[n].kref = 1 + (IF fwcard[n].bm_pending THEN 1 ELSE 0)
                         + (IF fwcard[n].br_pending THEN 1 ELSE 0)
                         + (IF bm[n].pc # "idle" THEN 1 ELSE 0)
                         + (IF br[n] # "idle" THEN 1 ELSE 0)

\* A card that notes the broadcast channel as allocated can rely on the IRM
\* having it in this generation, unless a bus reset was handled between the
\* allocation and the note.
BroadcastChannelHeld ==
    \A n \in Host : fwcard[n].bcast /\ fwcard[n].gen = bus.gen => bus.chan31 \/ fwcard[n].late

\* The limit on bus resets made with the same physical topology, which is the
\* only one here: at most MaxRetries by each host, one more after a mismatched
\* gap count, which clears the counter, and the ones that came from elsewhere.
ResetsLimited ==
    bus.gap # Mismatched =>
        bus.gen - 1 <= external + (MaxRetries + 1) * Cardinality(Host)

\* The bus manager is one, and the records of each card on bus and work items hold
\* whatever bus reset overtakes its work items.
BusManagerExact == OneManagerPerGeneration /\ BroadcastChannelHeld /\ KrefCountsWork

\* The work items do not reset the bus for ever.
BusSettles == <>[](\A n \in Host : bm[n].pc = "idle" /\ br[n] = "idle" /\ ~fwcard[n].bm_pending)

\* In the end the root is cycle master capable and told to send cycle starts.
CycleMasterInTheEnd == <>[](bus.gen > 0 => bus.root \in Cmc /\ bus.cmstr)

\* With hosts that run this code the bus comes to rest, and with a cycle master
\* (bm_work()).
BusComesToRest == BusSettles /\ CycleMasterInTheEnd
=============================================================================
