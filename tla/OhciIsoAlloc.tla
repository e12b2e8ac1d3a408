---------------------------- MODULE OhciIsoAlloc ----------------------------
(***************************************************************************)
(* Which isochronous contexts of a firewire-ohci card are in use, and who  *)
(* receives which channel.  The masks change under the lock of the card;   *)
(* between both critical sections of an allocation others allocate and     *)
(* free.                                                                   *)
(***************************************************************************)
EXTENDS Integers, FiniteSets

CONSTANTS ItContexts, IrContexts,   \* it_context_list, ir_context_list
          IsoChannels               \* channels

ASSUME AllocAssumption == ItContexts \cap IrContexts = {}

VARIABLES alloc,   \* struct fw_ohci: [it, ir, channels, mc, mcAllocated]
          ctxs,    \* the contexts: [st, type, channel]
          shared   \* ghost: channels allocated although the multichannel context has them

allocvars == <<alloc, ctxs, shared>>

IsoCtx == ItContexts \cup IrContexts
Unused == [st |-> "free", type |-> "none", channel |-> 0]
Free(i) == [ctxs EXCEPT ![i] = Unused]

AllocInit ==
  /\ alloc = [it |-> ItContexts, ir |-> IrContexts, channels |-> IsoChannels, mc |-> {},
              mcAllocated |-> FALSE]
  /\ ctxs = [i \in IsoCtx |-> Unused]
  /\ shared = {}

Takes(i, type, channel) ==
  ctxs' = [ctxs EXCEPT ![i] = [st |-> "allocating", type |-> type, channel |-> channel]]

\* The first critical section, one disjunct for each type.
ohci_allocate_iso_context(i, channel) ==
  \/ /\ i \in alloc.it
     /\ alloc' = [alloc EXCEPT !.it = @ \ {i}]
     /\ Takes(i, "transmit", 0) /\ UNCHANGED shared
  \/ /\ i \in alloc.ir /\ channel \in alloc.channels
     /\ alloc' = [alloc EXCEPT !.ir = @ \ {i}, !.channels = @ \ {channel}]
     /\ Takes(i, "receive", channel)
     /\ shared' = IF channel \in alloc.mc THEN shared \cup {channel} ELSE shared
  \/ /\ i \in alloc.ir /\ ~alloc.mcAllocated
     /\ alloc' = [alloc EXCEPT !.ir = @ \ {i}, !.mcAllocated = TRUE]
     /\ Takes(i, "multichannel", 0) /\ UNCHANGED shared

\* Header buffer and descriptors could be allocated.
Allocated(i) ==
  /\ ctxs[i].st = "allocating"
  /\ ctxs' = [ctxs EXCEPT ![i].st = "used"]
  /\ alloc' = IF ctxs[i].type = "multichannel" THEN [alloc EXCEPT !.mc = {}] ELSE alloc
  /\ UNCHANGED shared

\* What an allocation that fails gives back, and what ohci_free_iso_context() does.
GivenBack(i, freed) ==
  CASE ctxs[i].type = "transmit" -> [alloc EXCEPT !.it = @ \cup {i}]
    [] ctxs[i].type = "receive" ->
         [alloc EXCEPT !.ir = @ \cup {i}, !.channels = @ \cup {ctxs[i].channel}]
    [] ctxs[i].type = "multichannel" ->
         [alloc EXCEPT !.ir = @ \cup {i}, !.mcAllocated = FALSE,
                       !.channels = IF freed THEN @ \cup alloc.mc ELSE @,
                       !.mc = IF freed THEN {} ELSE @]
\* Mutant: the channel is not given back when the memory is short.
ForgetsChannel(i) ==
  /\ ctxs[i].st = "allocating"
  /\ alloc' = [GivenBack(i, FALSE) EXCEPT !.channels = alloc.channels]
  /\ ctxs' = Free(i) /\ UNCHANGED shared
AllocationFails(i) ==
  /\ ctxs[i].st = "allocating"
  /\ alloc' = GivenBack(i, FALSE)
  /\ ctxs' = Free(i) /\ UNCHANGED shared
FreesContext(i) ==
  /\ ctxs[i].st = "used"
  /\ alloc' = GivenBack(i, TRUE)
  /\ ctxs' = Free(i) /\ UNCHANGED shared

\* What has been granted remains in ir_context_channels.
ohci_set_iso_channels(i, wanted) ==
  /\ ctxs[i].st = "used" /\ ctxs[i].type = "multichannel"
  /\ wanted \subseteq alloc.channels \cup alloc.mc
  /\ alloc' = [alloc EXCEPT !.mc = wanted]
  /\ UNCHANGED <<ctxs, shared>>

AllocNext ==
  \E i \in IsoCtx :
    \/ \E channel \in IsoChannels : ohci_allocate_iso_context(i, channel)
    \/ Allocated(i) \/ AllocationFails(i) \/ FreesContext(i)
    \/ \E wanted \in SUBSET IsoChannels : ohci_set_iso_channels(i, wanted)

AllocSpec == AllocInit /\ [][AllocNext]_allocvars

-----------------------------------------------------------------------------
Of(type) == {i \in IsoCtx : ctxs[i].type = type}
Receivers(channel) == {i \in Of("receive") : ctxs[i].channel = channel}

(* A context is handed to one user at a time and comes back, one context   *)
(* at most is for several channels, and each channel is received by one    *)
(* context at a time and is free again when nobody receives it - but for   *)
(* channels that were allocated while the multichannel context had them:   *)
(* freeing that context makes them free.                                   *)
ContextsExact ==
  /\ alloc.it = {i \in ItContexts : ctxs[i] = Unused}
  /\ alloc.ir = {i \in IrContexts : ctxs[i] = Unused}
  /\ Cardinality(Of("multichannel")) = (IF alloc.mcAllocated THEN 1 ELSE 0)
  /\ \A channel \in IsoChannels \ shared :
       /\ channel \in alloc.channels <=> Receivers(channel) = {}
       /\ channel \in alloc.mc => Receivers(channel) = {} /\ alloc.mcAllocated
       /\ Cardinality(Receivers(channel)) <= 1

(* "Don't allow multichannel to grab other contexts' channels"             *)
(* (ohci.c:3179).                                                          *)
ChannelsKept ==
  [][\A channel \in alloc'.mc \ alloc.mc : Receivers(channel) = {}]_allocvars
=============================================================================
