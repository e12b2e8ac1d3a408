---------------------------- MODULE OhciBusReset ----------------------------
(***************************************************************************)
(* Bus reset handling of firewire-ohci (drivers/firewire/ohci.c): the       *)
(* controller receives self ID packets into a buffer, the interrupt handler *)
(* masks the bus reset event and wakes the interrupt thread, and the thread *)
(* reads the buffer, which a new bus reset may overwrite at any time, then  *)
(* takes over the generation, puts a new configuration ROM into use and     *)
(* informs the core.  One step is one register access, one quadlet of the   *)
(* buffer, or one section under ohci->lock.                                 *)
(***************************************************************************)
EXTENDS Integers, Sequences

CONSTANTS
    SelfIds,        \* number of self ID packets after a bus reset
    Rom,            \* DMA buffers for the configuration ROM
    NoRom,          \* a NULL pointer
    MaxGen,         \* bound: number of bus resets
    MaxRom,         \* bound: number of updates of the configuration ROM
    Broken          \* bus resets whose self IDs may be received with errors

ASSUME ResetAssumption ==
    /\ NoRom \notin Rom /\ Rom # {}
    /\ SelfIds \in Nat \ {0} /\ MaxGen \in Nat \ {0} /\ MaxRom \in Nat
    /\ Broken \subseteq Nat

VARIABLES
    hw,         \* the controller
    buffer,     \* self_id[]: generation of the header and of each self ID
    woken,      \* the interrupt thread is to run (again)
    thread,     \* handle_selfid_complete_event()
    ohci,       \* struct fw_ohci
    zeroed,     \* ROM buffers whose header quadlet is 0
    allocated,  \* ROM buffers that are allocated
    updates,    \* updates of the configuration ROM so far
    updating,   \* ohci_set_config_rom() has still to schedule its bus reset
    early,      \* history: the driver put ohci->config_rom into use before a bus reset
                \* made the controller take it ("waits"), or has done so ("taken")
    scheduled,  \* a bus reset was scheduled with fw_schedule_bus_reset()
    core        \* what fw_core_handle_bus_reset() was told last

resetvars == <<hw, buffer, woken, thread, ohci, zeroed, allocated, updates, updating,
               early, scheduled, core>>

Gen == 0 .. MaxGen

HwType ==
    hw \in [gen : Gen, phase : {"reset", "header", "valid"},
            bus_reset : BOOLEAN, self_id : BOOLEAN, mask : BOOLEAN,
            map : Rom \cup {NoRom}, next : Rom \cup {NoRom}, armed : BOOLEAN,
            header : {"zero", "good", "swapped"}]
BufferType == buffer \in [header : Gen, ids : Seq(Gen)]
ThreadType ==
    thread \in [pc : {"idle", "count", "header", "ids", "check", "stop", "commit",
                      "free", "core"},
                gen : Gen, ids : Seq(Gen), free : Rom \cup {NoRom}]
OhciType ==
    ohci \in [gen : Gen \cup {-1}, node : Gen, rom : Rom \cup {NoRom},
              next_rom : Rom \cup {NoRom}, enabled : BOOLEAN]
CoreType == core \in [gen : Gen, node : Gen, ids : Seq(Gen)]

ResetTypeOK ==
    /\ HwType /\ BufferType /\ ThreadType /\ OhciType /\ CoreType
    /\ woken \in BOOLEAN /\ scheduled \in BOOLEAN /\ updating \in BOOLEAN
    /\ early \in {"no", "waits", "taken"}
    /\ zeroed \subseteq Rom /\ allocated \subseteq Rom
    /\ updates \in 0 .. MaxRom

\* At the end of ohci_enable(): the first ROM buffer is the next one, and its header
\* is 0.
ResetInit ==
    /\ LET b == CHOOSE b \in Rom : TRUE IN
          /\ hw = [gen |-> 0, phase |-> "valid", bus_reset |-> FALSE, self_id |-> FALSE,
                   mask |-> TRUE, map |-> b, next |-> b, armed |-> TRUE, header |-> "zero"]
          /\ ohci = [gen |-> 0, node |-> 0, rom |-> NoRom, next_rom |-> b,
                     enabled |-> FALSE]
          /\ zeroed = {b} /\ allocated = {b}
    /\ buffer = [header |-> 0, ids |-> [i \in 1 .. SelfIds |-> 0]]
    /\ woken = FALSE
    /\ thread = [pc |-> "idle", gen |-> 0, ids |-> <<>>, free |-> NoRom]
    /\ updates = 0 /\ updating = FALSE /\ early = "no"
    /\ scheduled = FALSE
    /\ core = [gen |-> 0, node |-> 0, ids |-> <<>>]

\* The last call of ohci_enable() schedules a bus reset.
EnableEnds ==
    /\ ~ohci.enabled
    /\ ohci' = [ohci EXCEPT !.enabled = TRUE]
    /\ scheduled' = TRUE
    /\ UNCHANGED <<hw, buffer, woken, thread, zeroed, allocated, updates, updating, early, core>>

-----------------------------------------------------------------------------
(* The controller (external).                                              *)

\* A bus reset begins: NodeID is invalid, the generation counts up, and a new
\* ConfigROMmap takes effect together with the header found in that buffer.
Reset ==
    /\ hw.gen < MaxGen
    /\ hw' = [hw EXCEPT !.gen = @ + 1, !.phase = "reset", !.bus_reset = TRUE,
                        !.map = hw.next, !.armed = FALSE,
                        !.header = IF hw.armed
                                   THEN IF hw.next \in zeroed THEN "zero" ELSE "swapped"
                                   ELSE @]
    /\ early' = IF early = "waits" THEN "taken" ELSE early
    /\ UNCHANGED <<buffer, woken, thread, ohci, zeroed, allocated, updates, updating, core>>
\* br_work(), and everybody else on the bus.
ScheduledReset == scheduled /\ Reset /\ scheduled' = FALSE
OtherReset == Reset /\ UNCHANGED scheduled

\* The self IDs overwrite those of the bus reset before, one after another; the
\* quadlet with the generation is taken to be written last, which is what reading it
\* before the self IDs and comparing it afterwards relies on.
WriteSelfId ==
    /\ hw.phase = "reset"
    /\ \E i \in 1 .. SelfIds :
          /\ buffer.ids[i] # hw.gen
          /\ \A j \in 1 .. i - 1 : buffer.ids[j] = hw.gen
          /\ buffer' = [buffer EXCEPT !.ids[i] = hw.gen]
    /\ UNCHANGED <<hw, woken, thread, ohci, zeroed, allocated, updates, updating,
                   early, scheduled, core>>
WriteHeader ==
    /\ hw.phase = "reset"
    /\ \A i \in 1 .. SelfIds : buffer.ids[i] = hw.gen
    /\ buffer' = [buffer EXCEPT !.header = hw.gen]
    /\ hw' = [hw EXCEPT !.phase = "header"]
    /\ UNCHANGED <<woken, thread, ohci, zeroed, allocated, updates, updating,
                   early, scheduled, core>>
SelfIdComplete ==
    /\ hw.phase = "header"
    /\ hw' = [hw EXCEPT !.phase = "valid", !.self_id = TRUE]
    /\ UNCHANGED <<buffer, woken, thread, ohci, zeroed, allocated, updates, updating,
                   early, scheduled, core>>

-----------------------------------------------------------------------------
(* irq_handler()                                                           *)

\* Mutant: the event is lost while the interrupt thread is running.
WakeIdle == IF thread.pc = "idle" THEN woken \/ hw.self_id ELSE woken

\* IRQ_WAKE_THREAD: a thread that is running will run again.
WakeThread == woken \/ hw.self_id

Irq ==
    /\ hw.self_id \/ (hw.bus_reset /\ hw.mask)
    /\ hw' = [hw EXCEPT !.self_id = FALSE, !.mask = @ /\ ~hw.bus_reset]
    /\ woken' = WakeThread
    /\ UNCHANGED <<buffer, thread, ohci, zeroed, allocated, updates, updating,
                   early, scheduled, core>>

-----------------------------------------------------------------------------
(* handle_selfid_complete_event()                                          *)

\* The thread ends; it starts again if it was woken meanwhile.
End(t) == thread' = [t EXCEPT !.pc = "idle", !.gen = 0, !.ids = <<>>]

\* NodeID, which is invalid during a reset, or says that the bus is malconfigured;
\* card->node_id gets what is read here.
ReadNodeId ==
    /\ thread.pc = "idle" /\ woken
    /\ woken' = FALSE
    /\ \/ /\ hw.phase = "valid"
          /\ ohci' = [ohci EXCEPT !.node = hw.gen]
          /\ thread' = [thread EXCEPT !.pc = "count"]
       \/ /\ hw.phase # "valid" \/ hw.gen \in Broken
          /\ UNCHANGED <<ohci, thread>>
    /\ UNCHANGED <<hw, buffer, zeroed, allocated, updates, updating,
                   early, scheduled, core>>

\* SelfIDCount: a receive error, or a count out of range, ends the thread.
ReadCount ==
    /\ thread.pc = "count"
    /\ \/ thread' = [thread EXCEPT !.pc = "header"]
       \/ hw.gen \in Broken /\ End(thread)
    /\ UNCHANGED <<hw, buffer, woken, ohci, zeroed, allocated, updates, updating,
                   early, scheduled, core>>

\* The generation of the self IDs in the buffer.
ReadHeader ==
    /\ thread.pc = "header"
    /\ thread' = [thread EXCEPT !.pc = "ids", !.gen = buffer.header]
    /\ UNCHANGED <<hw, buffer, woken, ohci, zeroed, allocated, updates, updating,
                   early, scheduled, core>>

\* The next self ID.
ReadSelfId ==
    /\ thread.pc = "ids"
    /\ LET ids == Append(thread.ids, buffer.ids[Len(thread.ids) + 1])
       IN thread' = [thread EXCEPT !.ids = ids,
                                   !.pc = IF Len(ids) = SelfIds THEN "check" ELSE "ids"]
    /\ UNCHANGED <<hw, buffer, woken, ohci, zeroed, allocated, updates, updating,
                   early, scheduled, core>>

\* One that does not match its inverse, because it was received badly or overwritten
\* between the reads of both quadlets, ends the thread.
ReadBadSelfId ==
    /\ thread.pc = "ids"
    /\ hw.gen \in Broken \/ hw.gen # thread.gen
    /\ End(thread)
    /\ UNCHANGED <<hw, buffer, woken, ohci, zeroed, allocated, updates, updating,
                   early, scheduled, core>>

\* One that looks like a cycle start packet: those before it are processed, if any.
ReadSpuriousSelfId ==
    /\ thread.pc = "ids" /\ hw.gen \in Broken
    /\ IF thread.ids = <<>> THEN End(thread) ELSE thread' = [thread EXCEPT !.pc = "check"]
    /\ UNCHANGED <<hw, buffer, woken, ohci, zeroed, allocated, updates, updating,
                   early, scheduled, core>>

\* Mutant: the generation is not read again.
AcceptAll(generation) == TRUE

\* new_generation == generation
SameGeneration(generation) == hw.gen = generation

CheckGeneration ==
    /\ thread.pc = "check"
    /\ IF SameGeneration(thread.gen) THEN thread' = [thread EXCEPT !.pc = "stop"]
                                     ELSE End(thread)
    /\ UNCHANGED <<hw, buffer, woken, ohci, zeroed, allocated, updates, updating,
                   early, scheduled, core>>

\* Asynchronous transmission is stopped, and its contexts are flushed.
StopTransmission ==
    /\ thread.pc = "stop"
    /\ ohci' = [ohci EXCEPT !.gen = -1]
    /\ thread' = [thread EXCEPT !.pc = "commit"]
    /\ UNCHANGED <<hw, buffer, woken, zeroed, allocated, updates, updating,
                   early, scheduled, core>>

\* The ROM that is not in use any more.
OldRom == IF ohci.next_rom \notin {NoRom, ohci.rom} THEN ohci.rom ELSE NoRom

\* Writing the header quadlet indicates that the configuration ROM is ready.
NewHeader == IF ohci.next_rom = NoRom THEN hw.header ELSE "good"

\* The bus reset event is cleared and unmasked.
Unmasked == [hw EXCEPT !.bus_reset = FALSE, !.mask = TRUE, !.header = NewHeader]

\* Under ohci->lock: the generation is taken over, and the next ROM put into use,
\* whether the controller has taken it or not.
Commit ==
    /\ thread.pc = "commit"
    /\ hw' = Unmasked
    /\ ohci' = [ohci EXCEPT !.gen = thread.gen, !.next_rom = NoRom,
                            !.rom = IF ohci.next_rom = NoRom THEN @ ELSE ohci.next_rom]
    /\ zeroed' = zeroed \ {ohci.next_rom}
    /\ early' = IF ohci.next_rom = NoRom THEN early ELSE IF hw.armed THEN "waits" ELSE "no"
    /\ thread' = [thread EXCEPT !.pc = "free", !.free = OldRom]
    /\ UNCHANGED <<buffer, woken, allocated, updates, updating, scheduled, core>>

\* dmam_free_coherent(), without the lock.
FreeRom ==
    /\ thread.pc = "free"
    /\ allocated' = allocated \ {thread.free}
    /\ thread' = [thread EXCEPT !.pc = "core", !.free = NoRom]
    /\ UNCHANGED <<hw, buffer, woken, ohci, zeroed, updates, updating,
                   early, scheduled, core>>

\* fw_core_handle_bus_reset()
HandleBusReset ==
    /\ thread.pc = "core"
    /\ core' = [gen |-> thread.gen, node |-> ohci.node, ids |-> thread.ids]
    /\ End(thread)
    /\ UNCHANGED <<hw, buffer, woken, ohci, zeroed, allocated, updates, updating, early, scheduled>>

-----------------------------------------------------------------------------
(* ohci_set_config_rom()                                                   *)

\* A pending update is overwritten in place and the new buffer freed; otherwise the
\* new buffer becomes the next one.  card_mutex lets one caller in at a time.
SetConfigRom ==
    /\ ohci.enabled /\ ~updating /\ updates < MaxRom
    /\ updates' = updates + 1
    /\ \E b \in IF ohci.next_rom = NoRom THEN Rom \ allocated ELSE {ohci.next_rom} :
          /\ allocated' = allocated \cup {b}
          /\ ohci' = [ohci EXCEPT !.next_rom = b]
          /\ zeroed' = zeroed \cup {b}
          /\ hw' = [hw EXCEPT !.next = b, !.armed = TRUE]
    /\ updating' = TRUE
    /\ UNCHANGED <<buffer, woken, thread, early, scheduled, core>>

\* The lock is released before fw_schedule_bus_reset().
ScheduleReset ==
    /\ updating
    /\ updating' = FALSE /\ scheduled' = TRUE
    /\ UNCHANGED <<hw, buffer, woken, thread, ohci, zeroed, allocated, updates, early, core>>

-----------------------------------------------------------------------------
Hardware == WriteHeader \/ WriteSelfId \/ SelfIdComplete
Thread ==
    \/ ReadNodeId \/ ReadCount \/ ReadHeader \/ ReadSelfId \/ ReadBadSelfId
    \/ ReadSpuriousSelfId \/ CheckGeneration \/ StopTransmission \/ Commit \/ FreeRom
    \/ HandleBusReset

ResetNext ==
    EnableEnds \/ ScheduledReset \/ OtherReset \/ Hardware \/ Irq \/ Thread \/ SetConfigRom
    \/ ScheduleReset

ResetSpec == ResetInit /\ [][ResetNext]_resetvars

(* The controller completes the self ID phase, interrupts are served and    *)
(* br_work() makes the bus resets that were scheduled.                      *)
ResetFairness ==
    /\ WF_resetvars(Hardware) /\ WF_resetvars(Irq) /\ WF_resetvars(Thread)
    /\ WF_resetvars(ScheduleReset) /\ WF_resetvars(ScheduledReset)
ResetFairSpec == ResetSpec /\ ResetFairness

-----------------------------------------------------------------------------
(* Properties.                                                             *)

\* The self IDs of one report to the core are all from the bus reset whose
\* generation is reported, and all of them unless some were received badly, although
\* the buffer changes while it is read.
SelfIdsConsistent ==
    /\ ResetTypeOK
    /\ \A i \in DOMAIN core.ids : core.ids[i] = core.gen
    /\ thread.pc \in {"stop", "commit", "free", "core"} =>
          /\ \A i \in DOMAIN thread.ids : thread.ids[i] = thread.gen
          /\ Len(thread.ids) = SelfIds \/ thread.gen \in Broken

\* The comment in fw_core_handle_bus_reset(): nobody uses a stale node ID together
\* with a current generation.
NodeIdOfGeneration == core.node = core.gen

\* The comment in ohci_set_config_rom(): the old ROM is cleaned up after the bus
\* reset, since the controller could need to access it before.
RomNotFreedInUse == hw.map \in allocated

\* The same, unless the driver put a ROM into use that the controller is still to take.
\* That is for an update between a bus reset and its handling: the thread takes that
\* bus reset for the one that ohci_set_config_rom() schedules.
RomFreedInUseOnlyEarly == RomNotFreedInUse \/ early = "waits"

\* A configuration ROM buffer is in use, or to be used next, or freed.
NoRomLeaked == allocated = {ohci.rom, ohci.next_rom, thread.free} \ {NoRom}

\* A buffer of the configuration ROM lives as long as it is needed, no shorter and no
\* longer, across updates and bus resets (ohci_set_config_rom(), bus reset handling).
RomBuffersExact == RomFreedInUseOnlyEarly /\ NoRomLeaked

\* When bus resets end, the core and the driver have the generation of the bus,
\* and the next bus reset will be noticed, if the last self IDs were received well.
GenerationCatchesUp ==
    <>[](hw.gen \notin Broken =>
            core.gen = hw.gen /\ ohci.gen = hw.gen /\ hw.mask /\ ~hw.bus_reset)

\* When updates and bus resets end, the controller uses the last configuration
\* ROM, with a header in the right byte order; not so the header if that ROM was put
\* into use early, for no bus reset handling restores what the controller loads then.
\* A bus reset which the bound on their number cuts off does not count.
RomInUseInTheEnd ==
    <>[](ohci.enabled /\ ~scheduled /\ hw.gen \notin Broken =>
            /\ hw.map = ohci.rom /\ ohci.next_rom = NoRom
            /\ hw.header = "good" \/ early = "taken")

\* What irq_handler() and handle_selfid_complete_event() keep, whatever bus resets and
\* updates of the configuration ROM come in between.  An update between a bus reset and
\* its handling may free the ROM that the controller serves until the next bus reset,
\* and the history variable early names that case; only then.
ResetExact == SelfIdsConsistent /\ RomBuffersExact

\* Where they end up when bus resets and updates end, the header of a ROM that was put
\* into use early excepted.
ResetSettles == GenerationCatchesUp /\ RomInUseInTheEnd
=============================================================================
