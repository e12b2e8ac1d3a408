# Verification of the Linux FireWire subsystem (linux-firewire-dkms)

TLA+ modules, TLC configurations and TLAPS proofs for the IEEE 1394 stack in this
repository: the core and its bus services (`drivers/firewire`), the unit drivers
on top of it (`drivers/firewire`, `drivers/media/firewire`, `drivers/target/sbp`)
and the ALSA drivers (`sound/firewire`). All paths below are relative to `src/`.

## 1. Inventory

### firewire-core (`drivers/firewire/core-*.c`)

| component | state | operations | hard behaviour |
|---|---|---|---|
| outbound transactions (`core-transaction.c`) | `card->transactions` (list, label mask, label counter), `struct fw_transaction` with its packet and split timeout timer | `__fw_send_request`, `transmit_complete_callback`, `fw_core_handle_response`, `fw_cancel_transaction`, split timeout, `fw_cancel_pending_transactions` | six contexts complete the same object; late responses; label reuse; card removal |
| inbound requests (`core-transaction.c`) | address handler list, RCU/kref of a handler, refcounted `struct fw_request` | `fw_core_add/remove_address_handler`, `fw_core_handle_request`, `fw_send_response`, CSR registers, topology map | handler removed while it runs; one response per request; FCP fan-out |
| card and bus manager (`core-card.c`) | config ROM image, `br_work`, `bm_work`, bus manager id, gap count, retries, broadcast channel | config ROM generation, bus reset scheduling, contention for bus manager, root and gap-count selection, card registration and removal | lock/compare-swap race between nodes, resets in the middle of the work item, repeated resets |
| topology (`core-topology.c`) | tree of `struct fw_node`, colours, root/irm/local node, topology map | `build_tree`, `update_tree`, `fw_core_handle_bus_reset` | self-ID sequences that do not form a tree, tree changes between two resets |
| devices (`core-device.c`) | device state machine, config ROM cache, unit list, delayed work | node events, `fw_device_init/refresh/update/shutdown` | work items scheduled while others run, reset in the middle of ROM reads |
| isochronous resources (`core-iso.c`) | bandwidth and channel CSRs of the IRM | `fw_iso_resource_manage` | compare-swap races, generation change, bandwidth taken without channel |
| character device (`core-cdev.c`) | client, resource IDR, event list, iso resource work | ioctls, events, release | events after release, resource life cycle across resets |

### firewire-ohci (`drivers/firewire/ohci.c`)

Controller driver: asynchronous transmit (AT) and receive (AR) DMA contexts,
isochronous contexts, self-ID handling (bus reset), config ROM register shadowing,
CSR registers, suspend/resume. Interrupts queue work items; the self-ID thread
stops and flushes the AT contexts while requests are submitted and cancelled
elsewhere.

### Unit drivers and protocol layers

- `net.c` (firewire-net, RFC 2734): fragmentation and reassembly, ARP peers, broadcast context.
- `sbp2.c` (firewire-sbp2): login/reconnect/logout work, management and command ORBs, status FIFO.
- `drivers/target/sbp/sbp_target.c`: SBP-2 target: sessions, logins, command and management agents.
- `drivers/media/firewire` (firedtv): AV/C commands, CA, iso reception of a transport stream.
- `sound/firewire` library: AMDTP streams (`amdtp-stream.c`), CMP plugs (`cmp.c`), FCP transactions
  (`fcp.c`), iso resources (`iso-resources.c`), packet buffers.
- `sound/firewire/{bebob,dice,digi00x,fireface,fireworks,motu,oxfw,tascam}`, `isight.c`: device drivers:
  stream setup, hwdep lock, asynchronous notifications, MIDI.
- `nosy.c`: packet sniffer with its own ring buffer; `init_ohci1394_dma.c`: early debugging aid.
- KUnit tests, `tools/firewire`: off-line packet dump and decode.

## 2. How the parts interact

The controller driver (`ohci.c`) turns interrupts into work items and a thread. Its bus
reset thread reads the self IDs and calls `fw_core_handle_bus_reset()`, which builds the
topology, reports node events to the device code and queues `bm_work()`. Its AT contexts
transmit the packets of `core-transaction.c` and call back from a work item; its AR contexts
deliver responses and requests. Device work items, `bm_work()`, the resource functions of
`core-iso.c` and the character device use transactions and compare the *generation* they
were given with the current one. What every component has to survive is a bus reset between
any two of its steps.

| module | models | refines or uses |
|---|---|---|
| `FwTransaction` | outbound transactions and the AT request context | |
| `FwTransactionProofs` | theorems about `FwTransaction` | extends it |
| `FwInbound` | address handlers, requests, responses, inbound resources of clients | |
| `FwInboundProofs` | theorems about `FwInbound` and `FwCdevEvents` | extends them |
| `FwBusManager` | `br_work()`, `bm_work()` on several hosts of one bus | bus resets as one step |
| `FwBusManagerProofs` | theorems about `FwBusManager` and `FwCdevIso` | extends them |
| `FwTopology` | `build_tree()`, `update_tree()` over all small trees | |
| `FwDevice` | life cycle of devices and their one work item | node events of `FwTopology` as input |
| `FwDeviceProofs` | theorem about `FwDevice` | extends it |
| `IsoLedger` | abstract: who owns channels and bandwidth | |
| `FwIsoManage` | `fw_iso_resource_manage()` per compare-swap | implements `IsoLedger` |
| `FwIsoManageProofs` | theorems about `FwIsoManage`, with the refinement | extends it |
| `FwCdevIso` | isochronous resources of a userspace client | calls of `FwIsoManage` as one step |
| `FwCdevEvents` | the rest of a client: events, requests, PHY packets, mapping, contexts, release | |
| `OhciBusReset` | self ID thread, generation, configuration ROM buffers | |
| `OhciAr` | the ring of pages for received asynchronous packets | |
| `OhciIso` | descriptors, queueing, retirement and completion of isochronous contexts | `core-iso.c` on top |
| `OhciIsoAlloc` | which context and channel belongs to whom | |
| `OhciProofs` | theorems about `OhciBusReset` and `OhciIsoAlloc` | extends them |
| `FwNetRx`, `FwNetTx` | firewire-net: reassembly; transmission and the interface | requests as start and completion |
| `FwSbp2` | firewire-sbp2: ORBs, login work, SCSI host | requests as start and completion |
| `SbpTarget`, `SbpAgent` | SBP-2 target: management agent; command block agent of a login | `SbpAgent` extends `SbpTarget` |
| `StorageProofs` | theorems about `FwSbp2`, `SbpTarget`, `SbpAgent` | extends them |
| `SndFcp`, `SndCmp` | FCP transactions; CMP connections with their resources | `FwIsoManage` as one step |
| `DriverProofs` | theorems about `SndFcp`, `SndCmp`, `FwNetTx` and `SndHwdep` | extends them |
| `AmdtpSequence`, `AmdtpDomain` | packet sequences as pure arithmetic; start and stepping of a domain | contexts of `OhciIso` as callbacks |
| `SndDuplex`, `SndHwdep`, `SndMidiOut` | the eight families of sound drivers: streams shared by PCM and MIDI; hwdep devices; MIDI output by requests | `SndCmp`, `AmdtpDomain` as steps |

One step of a model is one critical section (a lock held), one register or memory access that
no lock covers, or one bus transaction.

A module `MC<module>` only gives names to constants. The other `MC` modules
(`MCCoreLive`, `MCCoreRaces`, `MCResetsLive`, `MCOhci`, `MCStorageNet`, `MCDriversLive`,
`MCStreaming`, `MCUserInterface`) put instances of several components *side by side*: a
variable `part`, chosen initially, says which of them leaves its initial state. The components
of one run do not interact, their state spaces add up instead of multiplying, and each
property is about one of them. In the initial state of a component no fair action is enabled,
so the conjunction of their fairness conditions constrains only the part that runs.

## 3. Modules and code

**FwTransaction.** `list`, `tlabel_mask`, `current_tlabel` are `card->transactions`;
`send_pc[t]` is the sender in `__fw_send_request()`, `at` the loop of `handle_at_packet()`
run by the work item or, with `flushing`, by `at_context_flush()`; `rsp` are the AR context
and a local responder in `fw_core_handle_response()`; `timer[t]` the split timeout; `user` a
caller of `fw_cancel_transaction()`; `card`, `rm_list` the removal of the card. `calls`,
`rcode`, `acked`, `hazard` and `at_lost` are history: how often the callback ran, with what,
whether a responder acknowledged, and which of four known races a transaction went through.

**FwInbound.** `handler[h]` goes from absent to listed, unlinked (`list_del_rcu`), the grace
period (`grace`: readers that `synchronize_rcu()` waits for), the release of its first
reference and the wait for its completion. `request[r]` is a context in
`fw_core_handle_request()` with the handlers it still has to call; `held[r]` are clients with
an inbound resource. `Searched` are the offsets that the loop of
`fw_core_add_address_handler()` looks at, as the smallest set closed under a step of it, so
that no recursion is needed.

**FwBusManager.** `bus` is the wire: generation, root, gap count, the IRM's registers and the
last PHY configuration packet. `card[n]`, `bm[n]`, `br[n]` are `struct fw_card` and the two
work items of host `n`; `dev[n][p]` what `n` knows about the ROM of `p`.

**OhciBusReset.** `hw` is the controller with its event bits and the shadowed
`ConfigROMmap`; `buffer` the self ID DMA buffer with the generation each quadlet comes from;
`thread` is `handle_selfid_complete_event()` register by register. The controller writes the
header quadlet of a bus reset after its self IDs; the code relies on this order when it
re-reads the header (external behaviour, OHCI 1.1 section 11). `ohci_set_config_rom()` may come
at any place of that, and `updating` separates its locked section from the bus reset it
schedules afterwards; `early` records that the thread took an earlier bus reset for that one.

**FwIsoManage / IsoLedger.** `avail`, `bw` are the registers of the IRM, `job[u]` the loop of
a caller, `held`, `heldbw` what its swaps took. A step is one lock transaction which may be
stale, fail before or after the swap (`failed`), or find another value. The refinement maps
`held`, `heldbw`, `failed` to the ledger; `IsoLedger` weakens its promise only after a lost
answer. `spent` are users who gave up giving something back because others changed the register
each time (`Tries`): they keep at the IRM more than they know of, which is the second exception
of `NothingLeaks`.

**FwCdevIso.** `res`, `work`, `user`, `client`, `events`, `once` follow `core-cdev.c`: ioctl,
work item, `fw_device_cdev_update()`, release. `irm.owner` records owners the IRM cannot see.
`ioctl_allocate_iso_resource()` takes three steps: it puts the resource into the xarray, reads
its handle and schedules its work item, the last two without `client->lock` (`res.call`).

**FwDevice.** `node` are the slots of `struct fw_node`, `dev` those of `struct fw_device`
with state, work function, queued bit and the place of the running work item. `Rebuild` is
a bus reset at which nodes may be swapped (non-successor generation). The workqueue takes an
item (`WorkPicked`) in one step and looks up `device->workfn` in the next, and a revival is two
steps, `InitRevives` and `InitSwaps`; bus resets, the removal of the card and other work items
come at any place. What they meet there is recorded in `races`.

**FwTopology.** `wiring` are cables between ports; self IDs are computed from them in PHY ID
order, `BuildTree` is the stack loop of `build_tree()`, `Merge` is `update_tree()`. Recursive
operators; not used by any proof.

**FwCdevEvents.** `cl`, `evs`, `iso` are `struct client`, its event list, its context and
buffer; `cth[t]` a thread in an ioctl, `read()`, `mmap()` or `release()`; `outb` requests and
PHY packets between submission and callback; `hnd` handles in the resource array; `dv` the
device with pending updates and removal. `seen.odd` names races that the code leaves open.

**OhciAr.** `ring` are the descriptors (`res_count`) and the data of the pages, `dma` the
controller, `wk` the work item in `ar_search_last_active_buffer()` (descriptor by descriptor),
`handle_ar_packets()` and `ar_recycle_buffers()`. Data are units tagged with their packet.

**OhciIso, OhciIsoAlloc.** `ic` is the list of descriptor pages with `last`/`prev`, `dm` the
controller that runs it, `iw` the work item in `context_retire_descriptors()`, `fl` callers
of `fw_iso_context_flush_completions()`, `us` the user who queues, starts and stops. `rep` has
the header buffer and what callbacks have reported. `alloc` are the bit masks of free
contexts and channels in `struct fw_ohci`.

**FwNetRx, FwNetTx.** `rxPeer.pd_list` are partial datagrams with `fi_list`, translated entry
by entry from `fwnet_frag_new()`; the reference is the set of units that arrived. `ptask[t]`
is a packet task with its senders, its request in flight and a completion that `looks` at it
after it left the lock (net.c:848); `netdev` the interface with queue state, datagram counter and broadcast context.

**FwSbp2.** `orbs` are ORBs with reference count, list membership and transaction; `lus`,
`tgt` logical units and the target with block counts; `run[l]` the work item of a logical unit
or the SCSI error handler in its management ORB, cancellation and retry.

**SbpTarget, SbpAgent.** `mgt`, `sess`, `login` follow the management agent with the session's
maintenance work; `mgt.status` is what the status block will say of the login, `told` what each
initiator was last told and can still rely on. `agent`, `agReq` are the fetch work with the tags
of its requests (`work = "oops"` is a worker that died in it), `agOrbs` the
initiator's linked list. `tgtRace`, `agRace` stop a behaviour that ran into one of the races
of section 7.

**SndFcp, SndCmp.** `fcp[c]` is `struct fcp_transaction` with the loop of its caller, `frames`
response frames under way. `rx` is `fcp_response()` under `transactions_lock`, which reads
generation and node ID of the device in two steps (fcp.c:350, 353); `fcpDev` is the device, whose
node ID and generation `fw_node_event()` writes in two steps, without that lock. `plug` is the plug register with its owner, `conn`, `res`
`struct cmp_connection` and `struct fw_iso_resources`.

**AmdtpSequence, AmdtpDomain.** `calculate_syt_offset()`, `pool_ideal_*`, counters and their
checks as operators, stepped cycle by cycle for each sampling rate and compared with the
exact time of each sample. `amStr[s]` is a stream with its queue and replay cache, `amDom` the
domain; `irq_target_callback` is the interrupt of the target stream with the processing of all
others.

**SndDuplex.** The functions of a driver are sequences of steps with the effects of their
error paths; `Program(kind)` names the functions of each driver. One interpreter (`Step`)
takes them step by step, so the shape of every driver's `*_stream.c`, `*_pcm.c` and
`*_midi.c` is data of the same machine. **SndHwdep** is a driver's hwdep device with its ring
or word for messages and a reader; **SndMidiOut** a MIDI port whose bytes go out in requests
(fireface former and latter, tascam, oxfw's SCS.1x).

## 4. Runs

All of a run's constants are in its `.cfg`; deadlock is not checked because every model ends
when its bounded inputs (bus resets, operations) are used up.

| run | components and instance | checks |
|---|---|---|
| `txn_races` | `FwTransaction`: two requests to the local or a remote node that use one label in turn, one bus reset, cancellation, removal | `LabelsExact`, `CompletedOnce`, `GivenBackForGood`, `AnswersAreTrue` |
| `core_live` | `FwTransaction`: overlapping local and remote requests, two labels, one bus reset; `FwInbound`: a driver, two clients | `CompletesUnlessAtWorkLost`, `RequestsAndRemovalsEnd` |
| `core_races` | `FwBusManager`: two hosts, two further generations, failing locks; `FwInbound`: two drivers, two clients, allocation failures; `FwTopology`: four PHYs with one to three ports, any root, missed bus resets | `BusManagerExact`, `HandlersAndRequestsExact`, `TopologyExact` |
| `resets_live` | `FwBusManager`: a host, two other nodes, all five retries; `FwCdevIso`: a careful client with four bus resets, any client with a contended IRM | `BusComesToRest`, `NotFreedEarly`, `KrefCounts`, `CarefulClientServed` |
| `device` | `FwDevice`: one unit with two ROM versions, two nodes and devices, three bus resets at any place, one failing read, once in orderly and once in rough environments | `DevicesConsistent`, `DevicesFollowBus` |
| `ohci` | `OhciBusReset`: three bus resets, two ROM updates at any time, one garbled self ID phase; `OhciAr`: four pages, packets over up to three of them; `OhciIso`: three kinds of contexts, two pages, a flushing process; `OhciIsoAlloc`: four contexts, two channels | `ResetExact`, `ResetSettles`, `ArInOrder`, `ReceivedIsHandled`, `IsoInOrder`, `IsoReported`, `ContextsExact` |
| `storage_net` | `FwSbp2`: two ORBs, a bus reset, a retry; `FwNetRx`: three datagrams of which two fit, fragments lost, doubled and in any order; `SbpTarget`: two initiators, three management requests; `SbpAgent`: three ORBs, two tags | `OrbReferencesExact`, `HostUnblocked`, `ReassemblyExact`, `TargetExact` |
| `drivers_live` | `FwNetTx`: two datagrams at a time, two peers; `SndFcp`: two callers, one frame under way, one bus reset; `SndCmp`: two bus resets, a lost response, another controller; `SndMidiOut`: four texts, a failed request | `TasksCounted`, `QueueWoken`, `ResponseFromUnit`, `UndisturbedReturns`, `PlugFollowsConnection`, `MidiInOrder` |
| `streaming` | `AmdtpSequence`: 700 cycles of all rates and modes; `AmdtpDomain`: domains of one to three streams, late interrupts, a fault; `FwIsoManage`: two users, a channel in each register, a bus reset, lost answers | `SequenceExact`, `StreamsKeepStep`, `DomainGetsReady`, `ResourcesExact`, `ImplementsLedger` |
| `user_interface` | `SndDuplex`: all drivers (the latter Fireface models take the steps of the FF400, which is in the run), PCM in both directions and MIDI, a bus reset, a failing step; `SndHwdep`: all kinds, rings of four; `FwCdevEvents`: two threads, a request of its own and one that arrives | `DuplexExact`, `HwdepTellsTruth`, `ClientExact` |
| `fcp_return` | `SndFcp`: one call, one bus reset | `TransactionReturns` is violated, see section 7 |
| `cdev_lostdealloc` | `FwCdevIso`: an uncontended IRM, a client that does not wait | `DeallocationEnds` is violated, see section 7 |

A property called `...Exact` or `...Consistent` is the conjunction of what the component's
state has to be, given by name in the module: for example `HandlersAndRequestsExact` is
`RegionsExclusive`, `HandlerOutlivesCallbacks`, `RequestFreedInTime` and `AnsweredOnce`. The
type invariant of each module is one of the conjuncts. Further liveness properties are stated in the
modules: `OperationsEnd` holds with `FwIsoManage_irm.cfg` on `FwIsoManage`, which also covers
channel-only allocations; `ConnectionEnds` and `MidiDelivered` hold with `DriversLive.cfg`;
`ReaderWoken`, `TargetRecovers` and `ReleaseReturns` with the specification of their module
and the constants of its run.

*Why the bounds are enough.* A race of two completions needs one transaction and a second one
only to share a label or the AT queue; one bus reset is enough to flush and to make a
generation stale. Contention needs two hosts; the retry counter of `FwBusManager` has the
code's limit of 5. A region conflict needs two handlers per kind. Self IDs of two generations
mix with two quadlets; three bus resets allow a bad one between good ones. One user can disturb
another's compare-swap with one operation. Revival needs a second node and a second device
for one unit. Trees of four PHYs contain lines, stars and every position of the local node.
Four pages hold a packet over three of them and one more; three blocks need both pages of
descriptors and recycle the first. A second ORB can be sent while the first is cancelled. Four
units make lists of three fragments, which is where `fwnet_frag_new()` stops joining them. The
sequence of 44100 Hz, the longest, repeats after 640 cycles. A replay cache of six entries
wraps several times before a domain is ready, and starting at cycle 9 of 20 the domain
crosses the wrap of the cycle count. Two threads inside a sound driver and one fault reach
every error path with another operation between its steps.

## 5. Fairness and environments

Weak fairness is on what the kernel or the hardware does by itself: a queued work item runs, a
running context goes on, a timer expires, a transaction ends with a response or a timeout, the
controller ends the self ID phase, a grace period ends. Users, other nodes, bus resets and
card removal are never fair. `FwInbound` assumes in addition that a client closes its file
some day: the kernel answers for it then. The reset of the bus by `br_work()` in
`OhciBusReset` is fair because it is a work item. The drivers add the same kind of fairness:
requests end with an answer or a timeout, callbacks and work items run, a controller that has
descriptors executes them (`OhciIso`, `AmdtpDomain`), a device that streams goes on
(`OtherSide`), and a unit that is shut down is removed (`FwSbp2`). Callers of ALSA, the SCSI
midlayer, network users, initiators and other controllers on the bus are never fair.

Some properties hold only in a part of the environments; the part is a constant or a variable
`env` that is chosen initially and does not change, so it is explicit in the property or cfg:

- `FwBusManager.Prompt` (`resets_live`): a bus reset's interrupt is handled before `bm_work()`
  starts again, and `Phys = "obedient"`: PHYs follow PHY configuration packets.
- `FwCdevIso.env.careful`: the client waits for the allocation event and the last bus reset
  before it deallocates or closes.
- `FwDevice.env`: a `Quiet` environment has no changes of link layers, no lack of memory and no
  unit that returns to an earlier ROM (`Orderly`), `Rough` has all of that. Bus resets come
  everywhere in both. `DevicesConsistent` holds in both; of `DevicesFollowBus` the removal of a
  card does, the rest is about `Orderly` environments.
- `FwTopology.Garbled = FALSE`: cables do not change at a bus reset with unusable self IDs.

- `AmdtpDomain.DomainAssumption`: interrupts are served before a quarter of the replay cache
  has passed, and the start of all contexts takes less than an interrupt interval.

Section 7 shows for each of these what happens without it. Modules that run into a race which
the code leaves open record it in a history variable (`early`, `hazard`, `raced`, `races`, `txRaced`, `tgtRace`,
`agRace`, `torn`, `odd`, `mghost`, `spent`), and their properties say what still holds then; each
such exception is named in the comment of the property and in section 7.

## 6. Proofs

Every theorem below is about the specification of a module, for every value of the constants
its assumption admits (any number of nodes, users, requests, tasks and bus resets), and is
checked by TLAPS to the last leaf. For each property an inductive invariant was first checked
with TLC on the instance of the property's run; the proof then has one lemma or step per
action. Assumptions on constants are types, finiteness, and that sets of names are not empty or disjoint.

| theorem | states | assumption |
|---|---|---|
| `TypeCorrect`, `LabelsOwned`, `CallbackAtMostOnce` | `TypeOK`, `LabelsExact` (with `TlabelOwned`), `CompletedOnce` of `FwTransaction` | `TxnAssumption` |
| `GivenBack`, `AnswersTrue` | `GivenBackForGood`, `AnswersAreTrue` of `FwTransaction` | `TxnAssumption` |
| `HandlersAndRequestsCorrect` | `HandlersAndRequestsExact` of `FwInbound` | `InboundAssumption` |
| `BusManagerCorrect` | `BusManagerExact` of `FwBusManager` | `BusAssumption` |
| `DevicesCorrect` | `DevicesConsistent` of `FwDevice` | `DeviceAssumption` |
| `ResetCorrect` | `ResetExact` of `OhciBusReset` | `ResetAssumption` |
| `ContextsCorrect` | `ContextsExact` of `OhciIsoAlloc` | `AllocAssumption` |
| `ResourcesCorrect`, `LoopsImplementLedger` | `ResourcesExact`, `ImplementsLedger` of `FwIsoManage` | `IsoAssumption` |
| `ClientCorrect` | `ClientExact` of `FwCdevEvents` | `CdevAssumption` |
| `NothingFreedEarly` | `NotFreedEarly` of `FwCdevIso`, with `NoUseAfterFree` | `CdevIsoAssumption` |
| `OrbReferencesCorrect` | `OrbReferencesExact` of `FwSbp2`, with `LogicalUnitOutlivesOrbs` | `SbpAssumption` |
| `TargetCorrect` | `TargetExact`: `LoginsExact` of `SbpTarget`, `OrbsServedOnce` of `SbpAgent` | `TgtAssumption`, `AgAssumption` |
| `ResponsesFromUnit` | `ResponseFromUnit` of `SndFcp` | `FcpAssumption` |
| `ConnectionsFollowed` | `PlugFollowsConnection` of `SndCmp` | `CmpAssumption` |
| `TasksAlwaysCounted` | `TasksCounted` of `FwNetTx` | `TxAssumption` |
| `HwdepCorrect` | `HwdepTellsTruth` of `SndHwdep` | `HwAssumption` |

**Transactions.**

- `TypeCorrect`: `TypeOK` is not inductive: a context that takes a transaction out of its
  variables must have put a real one there (`HoldersOK`), the DMA program only holds packets
  whose sender has returned (`QueueSent`), and only a final acknowledgement is forwarded
  (`AckFinal`). `TypeInv` is the conjunction.
- `LabelsOwned`: inductive with `ListSent` (only submitted transactions are listed). Each step
  keeps labels (`LabelsKept`), frees the label of a listed one (`LabelFreed`, `LabelPopped`)
  or allocates a free one.
- `CallbackAtMostOnce`: `SingleCompleter` says that at most one *role* (list, sender, AT,
  responder, timer, canceller, removal, finished) decides over a transaction. Every step
  creates no decider (`NoNewDecider`), hands the decision over (`HandOver`) or runs the
  callback (`CalledBack`); meeting a running timeout handler is recorded in `hazard` and
  exempts the transaction.
- `GivenBack`: a packet is in the DMA program once (`QueuedOnce`), other contexts touch a
  transaction only after its sender (`OthersAfterSender`), a timer is armed only
  after the transmission and while the transaction is listed (`TimerShape`), and a transaction
  that a context finishes is no longer in the AT context, unless `hazard` records a race
  (`NoRace`).
- `AnswersTrue`: `TruthInv` ties the outcome in each context's hands to what the responder did.
  For the second half, `StaleInv` says that the transaction a response under way was
  sent for still waits for it, or was given up; a label is not reused before its transaction is
  off the list (`TlabelOwned`), so another one with the same node and label comes after that.

**Inbound requests.** `InboundInv` has six parts. `ListShape`: the list holds exactly the
handlers whose state says so, each once. `ReadersWaitedFor`: a reader that may still come upon
an unlinked handler is one its `synchronize_rcu()` waits for; this is why no callback starts
after the removal. `KrefShape`: a handler's references are its users. `Exclusive`: regions.
`RequestsOk` is about one request and the clients that hold it: references are counted
(`CountOk`), nobody will answer a request that was answered, the handlers still to be called
are distinct and none of them holds the request yet (`TodoOk`), which makes a client that gets
hold of an FCP request a new holder. Lemmas about one request (`CalledOk`, `TakenOk`, `NextOk`,
`DeliveredOk`, ...) are separate from the steps that carry them over to all requests.

**Bus manager.** `HostOk` is about one host, with generation and broadcast channel of the bus as
parameters, so that `HostLater` carries it over a bus reset or an allocation of somebody else. In
it `CardOk` counts references, and `WorkOk` says that between the allocation of channel 31 and
the note of it the channel is allocated, or the generation is over. `ManagerRegistered` makes
the winner unique: the register holds one physical ID, and these differ.

**Devices.** `DeviceInv` says of a device by itself (`DeviceOk`) that its work function fits its
place: until it is added nobody but its own work item knows it (`Early`), and an item that was
dequeued is queued again only for an update, or else the device is `Astray`. `NodeOk` says that
a device under initialisation whose node left the bus is gone already, or about to be dropped:
this is what the second look of `fw_device_init()` and `_refresh()` is for. `RevivalOk` is about
a revival under way: the old device is not freed (`Known`), and its work item is idle, is about
to find that there is nothing to shut down, or the device is `Astray` (`Revived`); and two items
that revive the same device leave it so, too.

The record `races` only grows while the device lives, except that a later bus reset makes
`unheard` and `outdated` void; so every step either keeps a device out of trouble or the record
says why not, and no step has to be excluded. `Follows` states what a node event may do to a
device and its record, `Saw` that the record is complete, `EventSchedules` and its neighbours
show it for each kind of event, and `AfterReset` puts together what a bus reset, which changes
all nodes at once, does to the invariant. `Keeps` and `RevivalKept` are the frame for steps of a
single device. TLC checked the invariant also with three nodes and devices.

**Bus reset.** `ReadSoFar`: as long as the thread's generation is the one of the controller, the
self IDs read so far are of that generation; the thread goes on to report them only if a second
look finds the generation unchanged.
`RomShape` says which buffers are allocated at each place of the bus reset handling, and
`RomTaken` which one the controller uses: its own next one once it took it, and the driver's
current one while an update waits, unless the driver put that update into use first (`early`).

**Isochronous contexts.** `AllocInv` is stated for single contexts and channels, without
cardinalities: the masks are the contexts not in use (`MaskShape`), there is one multichannel
context at most, which has no channels while its allocation may still fail
(`MultichannelShape`), and a channel outside `shared` has one receiving context or is free
(`ChannelShape`). `AtMostOne` turns that into the counts of `ContextsExact`.

**Isochronous resources.** `UserOK` gives, for each place in the loop of a caller, the channel
and bandwidth it has at the IRM: what it was told, what it took so far, or what it has not given
back yet. The registers then hold what is left (`ChannelsAgree`, `BandwidthAgrees`), bandwidth
being counted as a set of pairs of owner and unit, so that no sum over a data structure
is needed. For the refinement each compare-swap that succeeds is one step of `IsoLedger` and
every other step stutters.

**Resources of a client.** `KrefCovers` says that `client.kref` is at least the number of its
users, which is inductive; that it *is* that number (`KrefCounts`) holds for a careful client with
an IRM that refuses nothing, which the run checks. `CdevIsoInv` adds `CallsInv` (where a resource is
while the ioctl or the release of the file has it in its hands) and `ResourceInv`: when a resource
is freed, or its work item has seen that it is to be freed, or is about to see it, nobody else can
reach it any more but the ioctl that allocates it; that ioctl is alone with the resource or was
overtaken (`res.early`); and each of the two event objects is sent once. The references are cardinalities
of sets of resources, hence finitely many resources in the assumption; a step moves one resource
(`OthersUntouched`).

**Clients.** `ClientInv` holds unless a race of the code has used memory wrongly (`CdevSane`; the
run shows which ones are reached, section 7, and no step follows them). `EventsInv` ties the list
of events to the operations: an event of an operation is on the list once, only after its
callback queued it, and is missing only if the file was being released. `SleepInv`: whoever sleeps in
`read()` has no event to take and a removal still to wake it, unless it came too late to be
listed. `HandleInv`: a handle that is neither free nor listed is in the hands of exactly one
thread, so that nobody releases it twice. `ReleaseInv` says what each step of
`fw_device_op_release()` has put an end to. The reference count is the number of holders
(`OperationCounted`, `HandleTaken`, `HandleLeft`), counted as cardinalities of sets, hence finitely many
operations and handles in the assumption; events of the device must not be named like operations.

**Drivers.** `FcpInv`: node ID and generation that the driver read belong together
(`DeviceKnown`). `CmpInv`: a value of the plug is kept only for a
connection or after a bus reset cut a break off (`ValueShape`), and neither plug nor IRM hold
anything of an earlier generation (`Follows`). `TxInv`: a live task has a sender or a request in flight, which is so exactly
while packets are outstanding (`TaskShape`); the datagrams queued are the live tasks
(`CountShape`).

**Hwdep devices.** `HwInv` says for each kind of driver what its word or ring holds.
`WordOk`: the unread messages are the last ones, without a gap after the one got. `MessageRing`
(ff400, motu's DSP models) holds even when the ring was overrun, because push moves past pull and the
ring always holds the last `Entries` messages; the entry in the reader's hands counts until pull
moves on, so that such a reader still gets messages in order. tascam's reader copies a span
(`QueueRing`) and efw's reads entries of one or two units with pull left behind until it ends
(`ResponseRing`); both are in order only until the ring is overrun, which is why the property exempts
them. The sum of the units of efw's responses is closed arithmetic (`UnitsUpTo`), so no induction is
needed. `HwAssumption` asks for a ring of at least one place, and buffers of any size.

**SBP-2.** `OrbInv` says of an ORB by itself what it has left to do (`OrbSound`: it is on a list
exactly as long as its callback is to come, and its references are those of its users), where
the ORBs of a thread may be (`ListsSound`, `ThreadsSound`), and why none is left when a logical
unit is freed: `CommandSound` (a command on a list is the midlayer's outstanding one, or one a
work item is cancelling) makes the removal start without commands, and `RemovalSound` keeps it
so, since an unlinked device sends none and an abort looks at another logical unit.
`CountersSound` is needed for the types only: the blocked logical units bound the counter of the
target from below, they and the freed ones from above. Steps of a thread share one lemma
(`ThreadKeeps`), callbacks another (`CallbackKeeps`).

**SBP-2 target.** A session and its login come and go together (`Paired`), and a login is
granted only if no exclusive one is listed, exclusive only if none is: `LoginChanges` shows once
that such a change of one initiator's login keeps the rest. That initiators know their logins
(`LoginsAsTold`) needs more than its own statement: one that was told "in" has a session with the
node ID and the generation of the bus, so that the maintenance work leaves it alone (`Current`);
the answer under way agrees with the state when it arrives in the generation of its request
(`MgtOk`, which also keeps what the request found and whether it waits for the work); and only the
initiator that is being answered may know something else meanwhile (`ToldOk`). For the agent, `SessionKnows` and
`StatusGoesHome` follow the owner's node ID through bus resets and reconnects: a status block is
sent with node and generation read under one session lock, so it goes to the owner or nowhere. That
no ORB is served twice is `AgentOk`: the pointer is past all ORBs served, and an active agent whose
pointer is at a served ORB was woken by the doorbell, which makes it skip that one (`ActiveOk`).
`FetchedOne` ties the ORB in the work's hands to its request.

Only model-checked are all liveness properties (the prover has no rules for fairness over
`ENABLED`); `TopologyExact` and `IsoInOrder`, whose modules compute with recursive operators;
`SequenceExact` and `StreamsKeepStep`, which are arithmetic of long sequences; `KrefCounts`,
which is about one instance; `ReassemblyExact` and `MidiInOrder`, since a sum over the fragment
list and the loop of `scs_output_work()` are folds and need induction over data; `DuplexExact`,
whose steps are data read by one interpreter, so that an invariant would have to speak of every
place in the programs of eight drivers; and for now `ArInOrder`, which multiplies pages by
their size.

## 7. Known counterexamples

Where the code does not do what a comment or the interface says, the model follows the code.
`cdev_lostdealloc` and `fcp_return` are runs. Each other property below is violated with the
configuration named, with the changed constants given, when it takes the place of the
properties listed there.

| configuration | property | what happens |
|---|---|---|
| `FwCdevIso_lostdealloc.cfg` | `DeallocationEnds` | core-cdev.c:1401 overwrites a deallocation requested during the allocation |
| `ResetsLive.cfg`, `Initial = 8` | `OnlyOwnFreed` | core-cdev.c:1362 frees parameters that are not allocated in this generation |
| `ResetsLive.cfg`, `MaxOther = 2` | `EventsOnce` | core-cdev.c:1367 takes an event that a failed reallocation used up |
| `FwTransaction_races.cfg`, no `SYMMETRY` | `CallbackOnce` | core-transaction.c:92 completes a transaction whose timeout handler already runs |
| `CoreLive.cfg` | `EveryRequestCompletes` | ohci.c:2577 cancels a queued AT work item and does not queue it again |
| `CoreRaces.cfg`, `BadAnswer = TRUE` | `SplitIsAnswered` | core-cdev.c:912 drops a request whose answer has the wrong length |
| `CoreRaces.cfg` | `CallbackInReadSide` | firewire.h:304 says RCU read side, core-transaction.c:1012 is outside |
| `CoreRaces.cfg` | `BmNodeIdNamesManager` | core-card.c:359 computes `0xffc0 & bm_id` |
| `CoreRaces.cfg` | `OnlyManagerConfigures` | core-card.c:436 falls through for the loser of the contention |
| `ResetsLive.cfg`, `Prompt = FALSE` | `ResetsLimited` | core-card.c:515: a second run before the interrupt defeats the limit of five |
| `Ohci.cfg` | `NodeIdOfGeneration` | ohci.c:1904 reads the node ID before the generation |
| `Ohci.cfg` | `RomNotFreedInUse` | ohci.c:2028 takes a bus reset before an update for the one after it and frees a ROM that the controller uses until the next bus reset |
| `Ohci.cfg` | `RomInUseInTheEnd` without `early` | ohci.c:2040: the header of a ROM that was put into use before the controller took it stays in the byte order of the buffer |
| `Streaming.cfg` | `BothOrNeither` | core-iso.c:362 retries a lock whose answer was lost after it took effect; the retries that a deallocation spends on contention can also run out before anything was given back (`spent`) |
| `FwDevice_device.cfg` | `RunningHasNode` without `"lost"` | core-device.c:1120 revives a device with a node that has gone |
| `FwDevice_device.cfg` | `GoneByNodeEvent` | core-device.c:1315 sends away a device that was revived meanwhile |
| `FwDevice_device.cfg` | `UnitsFollow` of an `Orderly` environment, without `races` | core-device.c:1195: a bus reset before RUNNING is not reported to unit drivers |
| `FwDevice_device.cfg` | `NoWorkAfterRelease` without `Astray` | core-device.c:1326 reads the work function after the pending bit was cleared |
| `FwDevice_device.cfg` | `RevivedIsPending` | core-device.c:1433 makes a device in shutdown look revivable |
| `FwDevice_device.cfg` | `ConfigRomAlive` | core-device.c:801 leaves a freed ROM in place when memory runs out |
| `FwDevice_device.cfg` | `UnitsComeBack` | core-device.c:1283 removes units that are not created again |
| `SndFcp_return.cfg` | `TransactionReturns` | fcp.c:274 leaves the state at STATE_BUS_RESET, in which no response counts and no try is counted |
| `StorageNet.cfg` | `FetchWorkSurvives` | sbp_target.c:994 "don't process this request, just check next_ORB": 995 frees the request through its null session |
| `DriversLive.cfg` | `MidiTransferredAgain` | fireface/ff-transaction.c:20 "Transfer the message again, immediately.": not if the port was closed |
| `Ohci.cfg`, `ArMaxPackets = 8` | `SearchEnds` | ohci.c:608 takes a full first page for the third part of a packet and goes round the ring |
| `Ohci.cfg` | `InterruptReported` | core-iso.c:249 disables the work item: an interrupt meanwhile queues nothing |
| `Ohci.cfg` | `ChannelsKept` | ohci.c:3179 computes the channels of others with `mc_channels` taken out, also those allocated since |
| `CoreRaces.cfg`, `Garbled = TRUE` | `TreeMirrorsBus` | core-topology.c:489 keeps the old tree and takes the next bus reset for its successor |

`ResetsLimited` holds with `Prompt = TRUE`, when the interrupt of a bus reset comes before a
second run of the work.

The models of the drivers leave the following races in, each with a history variable, because
the code has them. They are not runs; the properties hold up to them.

- `FwSbp2`: an ORB cancelled between the end of its transaction and `complete_transaction()`
  is called back twice; a status that overtakes the end of its transaction may let the logical
  unit be freed while it is in use; `sbp2_scsi_abort()` misses ORBs on the private list of
  `sbp2_cancel_orbs()`; a pending command ORB makes `sbp2_send_management_orb()` report a
  timeout for an answered request.
- `FwNetRx`: a datagram whose fragment list once had three entries may never be complete.
  `FwNetTx`: the sender, whom the completion of the last fragment left the task, frees it
  before that completion reads `outstanding_pkts` without the lock (net.c:848), also for a
  datagram of one fragment; the completion of a later fragment, or its sender, frees the task
  that the sender of an earlier one still uses; a failing `fw_iso_buffer_init()` leaks the broadcast context.
- `SbpTarget`: without memory `sbp_mgt_agent_rw()` leaves the agent BUSY; the expiry of a
  session may free what a request just found, or tear down a login that was reconnected; a
  second LOGIN of a logged-in initiator after a bus reset does not update its node. A failed
  write of the status block (1563) leaves a login that its initiator does not know of, and the
  expiry of a session is not told to anybody: `told` is then "unsure".
  `SbpAgent`: a doorbell is refused and forgotten while the agent is active; AGENT_RESET and a
  new ORB_POINTER during the fetch make it process the old ORB; tags of dummy ORBs and of failed
  fetches leak; an ORB that is fetched but not processed (after a doorbell, or when the agent was
  reset meanwhile) kills the worker of the fetch work, so that the login can never be released.
- `SndFcp`: `fcp_response()` reads the old generation (fcp.c:350) and then the new node ID
  (354), because `fw_node_event()` writes the node ID first; a frame that the node with this
  ID sent in the old generation completes the transaction (`by = "race"`).
- `SndCmp`: a lost answer to the compare-swap makes the plug look used by others; a break cut
  off by a bus reset keeps `last_pcr_value`; `cmp_connection_establish()` without allocated
  resources in an old generation loops (`Spins` of `SndDuplex`).
- `AmdtpSequence`: without blocking and at 88.2 kHz or more the MIDI limit does not keep a
  FIFO of two bytes. `AmdtpDomain`: `compare_ohci_cycle_count()` does not order cycles across
  the wrap in one direction; the replay cache is read without a check of its fill; a packet
  with a bad CIP header makes the next one a discontinuity.
- `SndMidiOut`: bytes in flight when a port is closed or opened again, and the on-sysex state
  that is cleared before delivery.
- `SndDuplex`: `midi_playback_open()` of oxfw counts a substream it does not have; a failed
  MIDI open leaves its reservation; `amdtp_stream_destroy()` does not clear what it frees, so
  a failed probe frees twice; motu's cache has size 0 if MIDI opens first, and no memory at all
  if a reservation at another rate failed; dice's update clears `global_enabled` before a read
  that may fail, and leaves the streams running (`unended`); prepare of efw and
  bebob and update of fireface run without the mutex; a failed rx reservation of efw leaves
  the one of tx; capture_prepare of dice and motu returns 0 on failure.
- `SndHwdep`: rings of tascam, ff400 and motu are overwritten and efw's looks empty after an
  exact fit, without notice; messages of digi00x and motu replace unread ones; motu's DSP
  events can be queued between the check and the sleep of the reader.
- `OhciIso`: a context that is stopped and started again runs blocks twice; it is freed without
  waiting for its work item; transmission with `DROP_OVERFLOW_HEADERS` goes deaf when the
  header buffer is full; a queueing that fails midway leaves its first descriptors.
- `FwCdevIso`: `ioctl_allocate_iso_resource()` reads and schedules a resource (core-cdev.c:1468,
  1472) that the work item may have freed, if a bus reset event or another thread's
  deallocation queued it after 1465 (`early`, `used`).
- `FwCdevEvents`: two readers can empty the list under each other (core-cdev.c:369); a reader
  is not woken by the removal of the device if its client is no longer listed; `mmap()` and the
  creation of a context can miss each other; without memory a bus reset event is lost.

## 8. Not modelled

Header and payload layouts, byte order other than that of the ROM header, tracing, sysfs,
module parameters and chip errata are data or configuration. The AT response context repeats
the AT request context. The static PHY configuration packet, suspend and resume, bus time and
cycle timer registers, the image of the configuration ROM and the parsing of directories are
left out of modelled components. In the drivers the contents of ORBs, IP and ARP headers,
data transfer of the SBP-2 target, PCM formats and copying, register maps, mixers and
`isight.c` are left out: tables and byte layouts without an order of events to get wrong.
`nosy.c` (a sniffer of its own), `init_ohci1394_dma.c` (register writes at boot), `firedtv` (byte by byte AV/C
frames, one command at a time, with the control structure of `fcp.c`), the KUnit tests and the
tools are not modelled; `PROJECT.json` gives the reason for each.

## 9. Plan

Done: the core of the stack and of the controller driver, the unit drivers, the SBP-2 target
and the sound library and drivers; the theorems of section 6. Left, in this order:

1. Theorems: `ArInOrder` of `OhciAr`, whose inductive strengthening (packets lie end to end from the
   work item's position on) is to be checked as an invariant with TLC first.
2. The static PHY configuration packet against its timeout (core-transaction.c:555).
3. Suspend and resume of `ohci.c` against queued packets.
