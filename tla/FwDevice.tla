------------------------------ MODULE FwDevice ------------------------------
(***************************************************************************)
(* The life cycle of struct fw_device (drivers/firewire/core-device.c):    *)
(* node events of the topology code, delivered under card->lock, against   *)
(* the one work item of each device, whose function changes with the state *)
(* of the device (fw_device_init, _refresh, _update, _shutdown), and the   *)
(* revival of a device whose node went away and came back.                 *)
(*                                                                         *)
(* Nodes are the slots of struct fw_node, Devs those of struct fw_device.  *)
(* A configuration ROM is one of Roms; reading it is one step that fails   *)
(* when the bus generation has moved on.  The delays of the work items are *)
(* arbitrary, as a queued item keeps its old delay when it is queued again *)
(* with another one; what is left of time is card.recent, "less than       *)
(* SHUTDOWN_DELAY since the last bus reset".                               *)
(*                                                                         *)
(* Bus resets, revivals and the removal of the card may fall between any   *)
(* two steps of the work items.  Where the code is not prepared for that,  *)
(* the field races of the device, which the code does not have, records it *)
(* for the properties to name it.                                          *)
(***************************************************************************)
EXTENDS Naturals, FiniteSets

CONSTANTS
  Nodes, Devs,
  Guids,          \* the units that are plugged in and out
  MaxVersion,     \* bound: versions of the configuration ROM of a unit
  None,           \* a null pointer
  Freed,          \* a pointer to freed memory
  MaxRetries,     \* MAX_RETRIES
  MaxResets,      \* bound: bus resets, in any environment
  MaxFails,       \* bound: ROM reads that fail without a bus reset, likewise
  Environments    \* what may happen to the devices, see Environment

\* The bus information block, with the GUID, and the header of the root directory.
Roms == Guids \X (1..MaxVersion)

Places == {"idle", "picked", "init_read", "init_find", "init_swap", "init_drop",
           "init_add", "init_run", "reread", "refresh_same", "refresh_read",
           "refresh_units", "refresh_run", "update", "unregister"}

\* Places of a work item between the reading of the ROM and what concludes it: that the
\* device runs, or that another one does in its place.
AfterRead == {"init_find", "init_swap", "init_add", "init_run", "refresh_same",
              "refresh_units", "refresh_run"}

\* What happened to a device while a work item did not expect it:
\*   unheard    a bus reset between the reading of its ROM and its becoming RUNNING
\*   outdated   the same, by the node itself, which may have a new ROM
\*   changed    another work function, between the dequeuing of the work item and the call
\*   met        its revival, while its work item runs
\*   lost       its revival with a node that left after the ROM was read
Races == {"unheard", "outdated", "changed", "met", "lost"}

\* Whether nodes switch their link layer off and on; whether kmemdup(), xa_alloc() and
\* device_add() may fail; whether units return to a ROM they had before; and bounds on bus
\* resets and failing reads.
Environment == [link_changes : BOOLEAN, no_memory : BOOLEAN, rom_goes_back : BOOLEAN,
                resets : 0..MaxResets, fails : 0..MaxFails]

ASSUME DeviceAssumption ==
  /\ MaxRetries \in Nat /\ MaxResets \in Nat /\ MaxFails \in Nat
  /\ MaxVersion \in Nat \ {0}
  /\ None \notin Nodes \cup Devs
  /\ Environments \subseteq Environment

VARIABLES
  card,     \* generation, membership in card_list, recent bus reset (and the
            \* last version of each unit's ROM)
  node,     \* struct fw_node: place in the tree, device, the node's ROM
  dev,      \* struct fw_device and its work item
  fails,    \* bound: ROM reads that may still fail
  env       \* the environment, which does not change

vars == <<card, node, dev, fails, env>>

States == {"INITIALIZING", "RUNNING", "GONE", "SHUTDOWN"}

InTree(n) == node[n].at \in {"on", "off"}

Allocated(d) == dev[d].state # "free"

FreeDevice == [state |-> "free", node |-> None, gen |-> 0, workfn |-> "init",
               queued |-> FALSE, pc |-> "idle", rgen |-> 0, retries |-> 0,
               rom |-> None, added |-> FALSE, units |-> 0, found |-> None, races |-> {}]

FreeNode == [at |-> "none", device |-> None, rom |-> None, raced |-> FALSE]

Init ==
  /\ card = [gen |-> 1, listed |-> TRUE, recent |-> FALSE, 
            newest |-> [g \in Guids |-> 1]]
  /\ node = [n \in Nodes |-> FreeNode]
  /\ dev = [d \in Devs |-> FreeDevice]
  /\ env \in Environments
  /\ fails = env.fails

(***************************************************************************)
(* Node events (fw_node_event), called with card->lock held.               *)
(***************************************************************************)

\* FW_NODE_CREATED, and a restart or link-on of a node without device.
NewDevice(n, g) ==
  [FreeDevice EXCEPT !.state = "INITIALIZING", !.node = n, !.gen = g,
                     !.workfn = "init", !.queued = TRUE]

Schedule(D, fn) == [D EXCEPT !.workfn = fn, !.queued = TRUE]

\* A node event for a device.  Only if the device is RUNNING its work item is scheduled.
Witnessed(D, restart) ==
  LET about == IF restart THEN {"unheard", "outdated"} ELSE {"unheard"}
  IN  [D EXCEPT !.races =
         IF D.state = "RUNNING"
         THEN (@ \ about) \cup (IF D.pc = "picked" THEN {"changed"} ELSE {})
         ELSE @ \cup (IF D.pc \in AfterRead THEN about ELSE {})]

\* Mutant: a restart of a device that is running does not lead to a refresh.
RestartedLater(D, g) ==
  IF D.state = "RUNNING" THEN [D EXCEPT !.gen = g, !.state = "INITIALIZING"]
                         ELSE [D EXCEPT !.gen = g]

Restarted(D, g) ==
  IF D.state = "RUNNING"
  THEN Schedule([D EXCEPT !.gen = g, !.state = "INITIALIZING"], "refresh")
  ELSE [D EXCEPT !.gen = g]

Updated(D, g) ==
  IF D.state = "RUNNING" THEN Schedule([D EXCEPT !.gen = g], "update")
                         ELSE [D EXCEPT !.gen = g]

\* Mutant: the work item of a device that is being initialised is used for the shutdown.
DestroyedAlways(D) == Schedule([D EXCEPT !.state = "GONE"], "shutdown")

Destroyed(D) ==
  IF D.state = "RUNNING" THEN Schedule([D EXCEPT !.state = "GONE"], "shutdown")
                         ELSE [D EXCEPT !.state = "GONE"]

DeviceEvent(D, event, g) ==
  CASE event \in {"INITIATED_RESET", "LINK_ON"} -> Restarted(Witnessed(D, TRUE), g)
    [] event = "UPDATED" -> Updated(Witnessed(D, FALSE), g)
    [] OTHER -> Destroyed(Witnessed(D, FALSE))

NextAt(at, event) ==
  CASE event = "DESTROYED" -> "lost"
    [] event = "LINK_OFF" -> "off"
    [] event = "LINK_ON" -> "on"
    [] OTHER -> at

\* update_tree(): which event a node of the tree gets, from the link-on bits of the
\* old and the new self ID and the initiated-reset bit.
Events(n) ==
  {"UPDATED", "DESTROYED"}
  \cup (IF node[n].at = "on" THEN {"INITIATED_RESET"} ELSE {})
  \cup (IF env.link_changes
        THEN IF node[n].at = "on" THEN {"LINK_OFF"} ELSE {"LINK_ON"}
        ELSE {})

(***************************************************************************)
(* A bus reset: node n, if any, has the given event, m, if any, is new,    *)
(* and all other nodes are updated.  rom is what m, or a node that         *)
(* restarted, now has for its ROM.                                         *)
(***************************************************************************)
Handled(event, new, rom) ==
  LET g == card.gen + 1
      Creating(n) == \/ n \in new
                     \/ /\ InTree(n) /\ node[n].device = None
                        /\ event[n] \in {"INITIATED_RESET", "LINK_ON"}
      creators == {n \in Nodes : Creating(n)}
      place == CHOOSE f \in [creators -> {d \in Devs : ~Allocated(d)}] :
                 \A a, b \in creators : a # b => f[a] # f[b]
  IN
  /\ Cardinality(creators) <= Cardinality({d \in Devs : ~Allocated(d)})
  /\ env.rom_goes_back \/ rom[2] >= card.newest[rom[1]]
  /\ card' = [card EXCEPT !.gen = g, !.recent = TRUE, !.newest[rom[1]] = rom[2]]
  /\ node' = [n \in Nodes |->
       IF n \in new THEN [at |-> "on", device |-> place[n], rom |-> rom, raced |-> FALSE]
       ELSE IF ~InTree(n) THEN node[n]
       ELSE [at |-> IF node[n].device = None /\ event[n] = "DESTROYED" THEN "none"
                    ELSE NextAt(node[n].at, event[n]),
             device |-> IF Creating(n) THEN place[n] ELSE node[n].device,
             rom |-> IF event[n] = "INITIATED_RESET" THEN rom ELSE node[n].rom,
             raced |-> node[n].raced /\ ~Creating(n)]]
  /\ dev' = [d \in Devs |->
       IF \E n \in creators : place[n] = d
       THEN NewDevice(CHOOSE n \in creators : place[n] = d, g)
       ELSE IF \E n \in Nodes : InTree(n) /\ node[n].device = d
       THEN LET n == CHOOSE n \in Nodes : InTree(n) /\ node[n].device = d
            IN  DeviceEvent(dev[d], event[n], g)
       ELSE dev[d]]

MayReset == card.listed /\ card.gen <= env.resets

\* fw_core_handle_bus_reset() with the generation after the last one.
BusReset ==
  /\ MayReset
  /\ \E n \in Nodes, rom \in Roms :
       \/ /\ node[n].at = "none"
          /\ \A x \in Nodes : InTree(x) => node[x].rom[1] # rom[1]
          /\ Handled([x \in Nodes |-> "UPDATED"], {n}, rom)
       \/ /\ InTree(n)
          /\ \E e \in Events(n) :
               /\ IF e = "INITIATED_RESET" THEN rom[1] = node[n].rom[1]
                                           ELSE rom = node[n].rom
               /\ Handled([x \in Nodes |-> IF x = n THEN e ELSE "UPDATED"], {}, rom)
  /\ UNCHANGED <<fails, env>>

\* fw_core_handle_bus_reset() when a generation was skipped: the whole tree is
\* destroyed and what is found is new.
Rebuild ==
  /\ MayReset
  /\ \E n, m \in Nodes :
       /\ InTree(n) /\ node[m].at = "none"
       /\ Handled([x \in Nodes |-> "DESTROYED"], {m}, node[n].rom)
  /\ UNCHANGED <<fails, env>>

\* fw_core_remove_card(): off the list of cards, then fw_destroy_nodes().
RemoveCard ==
  /\ card.listed
  /\ card' = [card EXCEPT !.listed = FALSE]
  /\ node' = [n \in Nodes |->
       IF ~InTree(n) THEN node[n]
       ELSE [node[n] EXCEPT !.at = IF node[n].device = None THEN "none" ELSE "lost"]]
  /\ dev' = [d \in Devs |->
       IF \E n \in Nodes : InTree(n) /\ node[n].device = d
       THEN Destroyed(Witnessed(dev[d], FALSE)) ELSE dev[d]]
  /\ UNCHANGED <<fails, env>>

\* SHUTDOWN_DELAY passes without a bus reset.
Settle ==
  /\ card.recent
  /\ card' = [card EXCEPT !.recent = FALSE]
  /\ UNCHANGED <<node, dev, fails, env>>

(***************************************************************************)
(* The work item of a device (fw_device_workfn)                            *)
(***************************************************************************)

Goes(d, D) == dev' = [dev EXCEPT ![d] = D]

BeingRevived(d) == \E r \in Devs : dev[r].pc = "init_swap" /\ dev[r].found = d

\* The workqueue clears the pending bit and calls fw_device_workfn() ...
WorkPicked(d) ==
  /\ dev[d].queued /\ dev[d].pc = "idle" /\ Allocated(d)
  /\ Goes(d, [dev[d] EXCEPT !.queued = FALSE, !.pc = "picked",
                            !.races = IF BeingRevived(d) THEN @ \cup {"met"} ELSE @])
  /\ UNCHANGED <<card, node, fails, env>>

\* ... which looks up device->workfn.
WorkRuns(d, fn) ==
  /\ dev[d].pc = "picked" /\ dev[d].workfn = fn

StartInit(d) ==
  /\ WorkRuns(d, "init")
  /\ Goes(d, [dev[d] EXCEPT !.pc = "init_read", !.rgen = dev[d].gen])
  /\ UNCHANGED <<card, node, fails, env>>

StartRefresh(d) ==
  /\ WorkRuns(d, "refresh")
  /\ Goes(d, [dev[d] EXCEPT !.pc = "reread", !.rgen = dev[d].gen])
  /\ UNCHANGED <<card, node, fails, env>>

StartUpdate(d) ==
  /\ WorkRuns(d, "update")
  /\ Goes(d, [dev[d] EXCEPT !.pc = "update"])
  /\ UNCHANGED <<card, node, fails, env>>

\* fw_device_update(): unit drivers and clients hear of the generation.
Update(d) ==
  /\ dev[d].pc = "update"
  /\ Goes(d, [dev[d] EXCEPT !.pc = "idle", !.units = IF @ = 0 THEN 0 ELSE dev[d].gen])
  /\ UNCHANGED <<card, node, fails, env>>

\* fw_device_release(): memory is freed, its node forgets the device D.
Forgotten(N, D) == [N EXCEPT ![D.node].device = None,
                             ![D.node].raced = D.races \ {"unheard"} # {},
                             ![D.node].at = IF @ = "lost" THEN "none" ELSE @]

\* What is left of a device that was freed: whether its work item is queued, or runs,
\* nevertheless, and why.
Remains(D, work) == [FreeDevice EXCEPT !.queued = work, !.races = IF work THEN D.races ELSE {}]

Release(d) ==
  /\ node' = Forgotten(node, dev[d])
  /\ Goes(d, Remains(dev[d], dev[d].queued))

\* Transactions of the read are answered in the generation they were made for.
Readable(d) ==
  /\ dev[d].rgen = card.gen /\ card.listed
  /\ InTree(dev[d].node)

ReadFails(d) ==
  \/ ~Readable(d) /\ fails' = fails
  \/ Readable(d) /\ fails > 0 /\ fails' = fails - 1

MayRetry(D) == D.retries < MaxRetries /\ D.state = "INITIALIZING"

Retried(D) == [D EXCEPT !.retries = @ + 1, !.queued = TRUE, !.pc = "idle"]

InitReads(d) ==
  /\ dev[d].pc = "init_read" /\ Readable(d)
  /\ Goes(d, [dev[d] EXCEPT !.pc = "init_find", !.rom = node[dev[d].node].rom])
  /\ UNCHANGED <<card, node, fails, env>>

InitReadFails(d) ==
  /\ dev[d].pc = "init_read" /\ ReadFails(d)
  /\ \/ /\ MayRetry(dev[d])
        /\ Goes(d, Retried(dev[d]))
        /\ UNCHANGED node
     \/ /\ ~MayRetry(dev[d])
        /\ Release(d)
  /\ UNCHANGED <<card, env>>

\* device_find_child(..., compare_configuration_rom)
Matches(d) == {r \in Devs : dev[r].added /\ dev[r].rom = dev[d].rom}

\* The work item of the device D is under way, not only about to find out that there is
\* nothing to shut down any more.
AtWork(D) == D.pc # "idle" /\ ~(D.pc = "picked" /\ D.workfn = "shutdown")

\* The device found, of which device_find_child() takes a reference, was pending for
\* deletion: revive it ...
InitRevives(d) ==
  /\ dev[d].pc = "init_find"
  /\ \E r \in Matches(d) :
       /\ dev[r].state = "GONE"
       /\ dev' = [dev EXCEPT ![r].state = "RUNNING",
                             ![r].races = IF AtWork(dev[r]) THEN @ \cup {"met"} ELSE @,
                             ![d].pc = "init_swap", ![d].found = r]
  /\ UNCHANGED <<card, node, fails, env>>

\* ... with the node of the new device, and its generation, ...
InitSwaps(d) ==
  LET r == dev[d].found
      current == dev[d].node
      obsolete == dev[r].node
      lost == IF dev[d].state = "GONE" THEN {"lost"} ELSE {}
  IN
  /\ dev[d].pc = "init_swap"
  /\ node' = [node EXCEPT ![obsolete].device = d, ![current].device = r]
  /\ dev' = [dev EXCEPT
       ![d].node = obsolete, ![d].pc = "init_drop",
       ![r] = Schedule([dev[r] EXCEPT !.node = current, !.gen = card.gen, !.retries = 0,
                                      !.races = @ \cup dev[d].races \cup lost],
                       "update")]
  /\ UNCHANGED <<card, fails, env>>

\* Somebody else than d has a reference to the device r, which it found.
Referenced(r, d) ==
  \E e \in Devs \ {d} : dev[e].pc \in {"init_swap", "init_drop"} /\ dev[e].found = r

\* ... and drop the new one, and the reference to the revived one, which is freed if it was
\* unregistered meanwhile.
InitDrops(d) ==
  LET r == dev[d].found
      last == ~dev[r].added /\ ~Referenced(r, d)
  IN
  /\ dev[d].pc = "init_drop"
  /\ IF last
     THEN /\ node' = Forgotten(Forgotten(node, dev[r]), dev[d])
          /\ dev' = [dev EXCEPT ![d] = Remains(@, @.queued),
                                ![r] = Remains(@, @.queued \/ @.pc # "idle")]
     ELSE Release(d)
  /\ UNCHANGED <<card, fails, env>>

InitFindsNothing(d) ==
  /\ dev[d].pc = "init_find"
  /\ \/ Matches(d) = {}
     \/ \E r \in Matches(d) : dev[r].state # "GONE"
  /\ Goes(d, [dev[d] EXCEPT !.pc = "init_add"])
  /\ UNCHANGED <<card, node, fails, env>>

\* device_add() and create_units(), which probes the unit drivers.
InitAdds(d) ==
  /\ dev[d].pc = "init_add"
  /\ Goes(d, [dev[d] EXCEPT !.pc = "init_run", !.added = TRUE, !.units = dev[d].gen])
  /\ UNCHANGED <<card, node, fails, env>>

\* xa_alloc() or device_add() failed.
InitAddFails(d) ==
  /\ env.no_memory /\ dev[d].pc = "init_add"
  /\ Release(d)
  /\ UNCHANGED <<card, fails, env>>

\* atomic_cmpxchg(&device->state, FW_DEVICE_INITIALIZING, FW_DEVICE_RUNNING)
ToRunning(D) == [D EXCEPT !.state = IF @ = "INITIALIZING" THEN "RUNNING" ELSE @]

InitRun(d) ==
  IF dev[d].state = "GONE"
  THEN Goes(d, Schedule([dev[d] EXCEPT !.pc = "idle"], "shutdown"))
  ELSE Goes(d, [ToRunning(dev[d]) EXCEPT !.pc = "idle", !.retries = 0])

InitRuns(d) ==
  /\ dev[d].pc = "init_run"
  /\ InitRun(d)
  /\ UNCHANGED <<card, node, fails, env>>

\* fw_device_refresh(): the label failed_config_rom, and the label gone.
Gone(D) == Schedule([D EXCEPT !.state = "GONE", !.pc = "idle"], "shutdown")

FailedConfigRom(D) == IF MayRetry(D) THEN Retried(D) ELSE Gone(D)

RereadFails(d) ==
  /\ dev[d].pc \in {"reread", "refresh_read"} /\ ReadFails(d)
  /\ Goes(d, FailedConfigRom(dev[d]))
  /\ UNCHANGED <<card, node, env>>

RereadSame(d) ==
  /\ dev[d].pc = "reread" /\ Readable(d)
  /\ node[dev[d].node].rom = dev[d].rom
  /\ Goes(d, [dev[d] EXCEPT !.pc = "refresh_same"])
  /\ UNCHANGED <<card, node, fails, env>>

RereadChanged(d) ==
  /\ dev[d].pc = "reread" /\ Readable(d)
  /\ node[dev[d].node].rom # dev[d].rom
  /\ Goes(d, [dev[d] EXCEPT !.pc = "refresh_read", !.rgen = dev[d].gen, !.units = 0])
  /\ UNCHANGED <<card, node, fails, env>>

RefreshReads(d) ==
  /\ dev[d].pc = "refresh_read" /\ Readable(d)
  /\ Goes(d, [dev[d] EXCEPT !.pc = "refresh_units", !.rom = node[dev[d].node].rom])
  /\ UNCHANGED <<card, node, fails, env>>

\* read_config_rom(): kmemdup() fails after the ROM was read; old_rom goes out of scope.
RefreshNoMemory(d) ==
  /\ env.no_memory
  /\ dev[d].pc = "refresh_read" /\ Readable(d)
  /\ Goes(d, FailedConfigRom([dev[d] EXCEPT !.rom = Freed]))
  /\ UNCHANGED <<card, node, fails, env>>

RefreshUnits(d) ==
  /\ dev[d].pc = "refresh_units"
  /\ Goes(d, [dev[d] EXCEPT !.pc = "refresh_run", !.units = dev[d].gen])
  /\ UNCHANGED <<card, node, fails, env>>

RefreshRuns(d) ==
  /\ dev[d].pc \in {"refresh_same", "refresh_run"}
  /\ Goes(d, IF dev[d].state = "GONE" THEN Gone(dev[d])
             ELSE [ToRunning(dev[d]) EXCEPT
                     !.pc = IF @ = "refresh_same" THEN "update" ELSE "idle",
                     !.retries = 0])
  /\ UNCHANGED <<card, node, fails, env>>

\* fw_device_shutdown()
ShutdownLater(d) ==
  /\ WorkRuns(d, "shutdown")
  /\ card.recent /\ card.listed
  /\ Goes(d, [dev[d] EXCEPT !.queued = TRUE, !.pc = "idle"])
  /\ UNCHANGED <<card, node, fails, env>>

ShutdownRefused(d) ==
  /\ WorkRuns(d, "shutdown")
  /\ ~(card.recent /\ card.listed) /\ dev[d].state # "GONE"
  /\ Goes(d, [dev[d] EXCEPT !.pc = "idle"])
  /\ UNCHANGED <<card, node, fails, env>>

Shutdown(d) ==
  /\ WorkRuns(d, "shutdown")
  /\ ~(card.recent /\ card.listed) /\ dev[d].state = "GONE"
  /\ Goes(d, [dev[d] EXCEPT !.state = "SHUTDOWN", !.pc = "unregister"])
  /\ UNCHANGED <<card, node, fails, env>>

\* The units are shut down, the device is unregistered and its reference put, the last one
\* unless somebody is reviving the device.
Unregister(d) ==
  /\ dev[d].pc = "unregister"
  /\ IF Referenced(d, d)
     THEN Goes(d, [dev[d] EXCEPT !.pc = "idle", !.added = FALSE]) /\ UNCHANGED node
     ELSE Release(d)
  /\ UNCHANGED <<card, fails, env>>

Work(d) ==
  \/ StartInit(d) \/ InitReads(d) \/ InitReadFails(d)
  \/ InitRevives(d) \/ InitSwaps(d) \/ InitDrops(d)
  \/ InitFindsNothing(d) \/ InitAdds(d) \/ InitAddFails(d) \/ InitRuns(d)
  \/ StartRefresh(d) \/ RereadFails(d) \/ RereadSame(d) \/ RereadChanged(d)
  \/ RefreshReads(d) \/ RefreshNoMemory(d) \/ RefreshUnits(d) \/ RefreshRuns(d)
  \/ StartUpdate(d) \/ Update(d)
  \/ ShutdownLater(d) \/ ShutdownRefused(d) \/ Shutdown(d) \/ Unregister(d)

Next ==
  \/ BusReset \/ Rebuild \/ RemoveCard \/ Settle
  \/ \E d \in Devs : WorkPicked(d) \/ Work(d)

Spec == Init /\ [][Next]_vars

\* The workqueue runs what is queued, transactions end, and seconds pass.
FairSpec ==
  /\ Spec
  /\ \A d \in Devs : WF_vars(WorkPicked(d)) /\ WF_vars(Work(d))
  /\ WF_vars(Settle)

(***************************************************************************)
(* Properties                                                              *)
(***************************************************************************)

\* Type correctness; the retries of a ROM read stay within MAX_RETRIES.
TypeOK ==
  /\ card \in [gen : 1..(MaxResets + 1), listed : BOOLEAN, recent : BOOLEAN,
               newest : [Guids -> 1..MaxVersion]]
  /\ node \in [Nodes -> [at : {"none", "on", "off", "lost"},
                         device : Devs \cup {None}, rom : Roms \cup {None}, raced : BOOLEAN]]
  /\ dev \in [Devs -> [state : States \cup {"free"}, node : Nodes \cup {None},
                       gen : 0..(MaxResets + 1),
                       workfn : {"init", "refresh", "update", "shutdown"},
                       queued : BOOLEAN, pc : Places, rgen : 0..(MaxResets + 1),
                       retries : 0..MaxRetries, rom : Roms \cup {None, Freed},
                       added : BOOLEAN, units : 0..(MaxResets + 1),
                       found : Devs \cup {None}, races : SUBSET Races]]
  /\ fails \in 0..MaxFails
  /\ env \in Environments

\* fw_node_get_device() and device->node are inverse to each other: a node never points
\* to memory that was freed, nor two nodes to one device, across revivals and failures.
LinksAgree ==
  \A d \in Devs, n \in Nodes : node[n].device = d <=> dev[d].node = n

\* The work item of the device was given another function when it was about to be called
\* (core-device.c:1315), or ran while the device was revived (1117-1122), or while another
\* device that this happened to handed over to it.
Astray(D) == D.races \cap {"changed", "met"} # {}

\* No work item is queued for, and none runs on, a device that was freed.
NoWorkAfterRelease ==
  \A d \in Devs :
    dev[d].state = "free" => dev[d].pc = "idle" /\ (dev[d].queued => Astray(dev[d]))

\* Neither a node nor the workqueue keeps a pointer to a device that was freed.
NoDanglingDevice == TypeOK /\ LinksAgree /\ NoWorkAfterRelease

\* A running device, unless somebody is about to give it another node, belongs to a
\* node that is on the bus: "If it got pulled out from under us while we did the
\* initialization work, we have to shut down the device again here."
RunningHasNode ==
  \A d \in Devs :
    /\ dev[d].state = "RUNNING"
    /\ ~BeingRevived(d) /\ "lost" \notin dev[d].races
    => InTree(dev[d].node)

\* Nodes do not switch their link layers, memory never runs out, and no unit returns to a
\* ROM that it had before.
Orderly == ~env.link_changes /\ ~env.no_memory /\ ~env.rom_goes_back

Served(n) ==
  LET d == node[n].device
  IN  d # None /\ dev[d].state = "RUNNING" /\ dev[d].rom = node[n].rom

\* The node lost no device to a race, and its device, if any, met none but bus resets of
\* other nodes.
Spared(n) ==
  /\ ~node[n].raced
  /\ node[n].device # None => dev[node[n].device].races \subseteq {"unheard"}

\* In orderly environments, a node that stays on the bus ends up with a running device,
\* which has the node's ROM.
NodesServed ==
  \A n \in Nodes : <>[](Orderly /\ node[n].at = "on" /\ Spared(n)) => <>[]Served(n)

\* The parent device of a unit that sits through a bus reset tells the unit's driver,
\* unless the device was not RUNNING yet (core-device.c:1195).
UnitsFollow ==
  \A d \in Devs :
    <>[](dev[d].state = "RUNNING") =>
      <>[](dev[d].state = "RUNNING" => dev[d].units = card.gen \/ dev[d].races # {})

\* The same in orderly environments.
OrderlyUnitsFollow == Orderly => UnitsFollow

\* After the removal of a card all its devices are freed; fw_core_remove_card() waits
\* for that.
RemovalEnds ==
  ~card.listed ~>
    \A d \in Devs : dev[d].state = "free" \/ Astray(dev[d]) \/ "lost" \in dev[d].races

\* What the code does not keep to, see section 7 of the README.

\* A running device is sent away by an event of its node, under card->lock, or by a ROM
\* that cannot be read in INITIALIZING: "Normally, though, fw_node_event will be
\* responsible for shutting it down when necessary."
GoneByNodeEvent ==
  [][\A d \in Devs : dev[d].state = "RUNNING" /\ dev'[d].state = "GONE" => card' # card]_vars

\* Only devices that are pending for deletion are revived, not ones whose deletion began.
RevivedIsPending ==
  \A d \in Devs : dev[d].pc = "init_swap" => dev[dev[d].found].pc # "unregister"

\* device->config_rom points to a ROM, or to nothing.
ConfigRomAlive == \A d \in Devs : dev[d].rom # Freed

\* Units that are destroyed because the ROM changed are created again.
UnitsComeBack ==
  \A d \in Devs : <>[](dev[d].state = "RUNNING") => <>[](dev[d].units # 0)

\* Pointers between nodes, devices and work items are to what is there, whatever place of
\* the work items bus resets, revivals and the removal of the card meet: links between
\* nodes and devices agree, no freed device has work, and a running device is on the bus.
\* Exempt, by their record in races: work of a freed device that went astray (Astray), and
\* a device that was revived, RUNNING, with a node that had left since the ROM was read, for
\* core-device.c:1117-1122 does not ask for the state of the new device (lost).
DevicesConsistent == NoDanglingDevice /\ RunningHasNode

\* Devices follow the bus in the end, whenever bus resets come: nodes that stay are served,
\* their drivers heard of the last bus reset, and the devices of a removed card are freed.
\* Exempt, by their record in races: a node that restarted, so that its ROM may have
\* changed, and drivers of any node that saw a bus reset, between the ROM read and RUNNING
\* (outdated, unheard), for fw_node_event() schedules nothing then; and what went astray or
\* was lost, see DevicesConsistent.
DevicesFollowBus == NodesServed /\ OrderlyUnitsFollow /\ RemovalEnds
=============================================================================
