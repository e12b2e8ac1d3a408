--------------------------- MODULE FwTransaction ---------------------------
(***************************************************************************)
(* Outbound asynchronous transactions of firewire-core                     *)
(* (drivers/firewire/core-transaction.c) on top of the asynchronous        *)
(* request transmit context of firewire-ohci (drivers/firewire/ohci.c).    *)
(*                                                                         *)
(* Contexts that touch one struct fw_transaction concurrently:             *)
(*   - its sender, in __fw_send_request()               (send_pc[t])       *)
(*   - the AT work item, or the bus reset thread which runs the same       *)
(*     loop from at_context_flush()                     (at, flushing)     *)
(*   - the AR response work item, and the context of a local responder     *)
(*     (rsp["ar"], rsp["local"])                                           *)
(*   - the split timeout timer                          (timer[t])         *)
(*   - a caller of fw_cancel_transaction()              (user)             *)
(*   - fw_core_remove_card()                            (card, rm_list)    *)
(* One step is one critical section (card->transactions.lock, ohci->lock)  *)
(* or one access to the packet that no lock covers.                        *)
(***************************************************************************)
EXTENDS Integers, Sequences, FiniteSets

CONSTANTS
    Txn,        \* transaction objects; each one is submitted at most once
    NoTxn,      \* "no transaction" (a NULL pointer)
    NodeId,     \* node IDs that requests are addressed to
    LocalId,    \* ohci->node_id
    NLabels,    \* number of transaction labels (64 in the code)
    MaxGen,     \* bound: number of bus resets
    HwStatus,   \* transfer statuses the controller may report
    Cancellable,\* transactions whose owner may call fw_cancel_transaction()
    CanRemove   \* whether fw_core_remove_card() may be called

AllHwStatus == {"complete", "pending", "busy", "error", "missing_ack",
                "flushed", "unknown"}

ASSUME TxnAssumption ==
    /\ NoTxn \notin Txn
    /\ NLabels \in Nat \ {0}
    /\ MaxGen \in Nat
    /\ HwStatus \subseteq AllHwStatus
    /\ Cancellable \subseteq Txn
    /\ CanRemove \in BOOLEAN

VARIABLES
    tlabel_mask, current_tlabel,    \* card->transactions.*
    list,                           \* card->transactions.list
    tlabel, node_id, gen,           \* t->tlabel, t->node_id, t->packet.generation
    ack,                            \* t->packet.ack; "none" is 0
    is_split, timer,                \* those with is_split_transaction; split_timeout_timer
    send_pc,                        \* progress of __fw_send_request(t)
    at_queue, linked, status,       \* DMA program; those with driver_data->packet set; transfer_status
    at, at_pending, flushing,       \* AT work: running loop, queued, ctx->flushing
    rsp, user,                      \* fw_core_handle_response(), fw_cancel_transaction()
    generation, bus_gen, rst,       \* ohci->generation, the bus, self-ID thread
    owed, resps,                    \* responders that still owe a response; received responses
    card, rm_list,                  \* fw_core_remove_card()
    calls, rcode,                   \* how often and with what t->callback ran
    acked, hazard, at_lost          \* history, see the properties

labelVars  == <<tlabel_mask, current_tlabel, list>>
fieldVars  == <<tlabel, node_id, gen>>
timerVars  == <<is_split, timer>>
queueVars  == <<at_queue, status>>
busVars    == <<generation, bus_gen, rst>>
wireVars   == <<owed, resps>>
cardVars   == <<card, rm_list>>
callVars   == <<calls, rcode>>
vars == <<tlabel_mask, current_tlabel, list, tlabel, node_id, gen, ack,
          is_split, timer, send_pc, at_queue, linked, status, at, at_pending,
          flushing, rsp, user, generation, bus_gen, rst, owed, resps, card,
          rm_list, calls, rcode, acked, hazard, at_lost>>

Label == 0 .. NLabels - 1
NoGen == -1
Ack   == {"none", "ack_complete", "ack_pending", "ack_busy", "ack_error",
          "generation", "no_ack", "send_error", "cancelled"}
Rcode == {"none", "complete", "busy", "error", "generation", "no_ack",
          "send_error", "cancelled", "response"}
Hazards == {"timer", "stale", "flush", "removal"}
Responder == {"ar", "local"}

LabelType ==
    /\ tlabel_mask \subseteq Label
    /\ current_tlabel \in Label
    /\ list \subseteq Txn
    /\ tlabel \in [Txn -> Label]
    /\ node_id \in [Txn -> NodeId \cup {LocalId}]
    /\ gen \in [Txn -> 0 .. MaxGen]
SendType ==
    /\ ack \in [Txn -> Ack]
    /\ is_split \subseteq Txn
    /\ timer \in [Txn -> {"off", "armed", "running", "callback"}]
    /\ send_pc \in [Txn -> {"new", "labelled", "listed", "close", "callback", "returned"}]
AtType ==
    /\ at_queue \in Seq(Txn)
    /\ linked \subseteq Txn
    /\ status \in [Txn -> AllHwStatus \cup {"none"}]
    /\ at \in [pc : {"off", "loop", "fetched", "close", "callback"}, t : Txn \cup {NoTxn}]
    /\ at_pending \in BOOLEAN /\ flushing \in BOOLEAN
ContextType ==
    /\ rsp \in [Responder -> [pc : {"idle", "cancel", "deliver"}, t : Txn \cup {NoTxn}]]
    /\ user \in [pc : {"idle", "cancel", "close", "callback"}, t : Txn \cup {NoTxn}]
    /\ card \in {"up", "dummy", "disabling", "disabled", "cancelling", "removed"}
    /\ rm_list \subseteq Txn
BusType ==
    /\ generation \in (0 .. MaxGen) \cup {NoGen}
    /\ bus_gen \in 0 .. MaxGen
    /\ rst \in {"idle", "stopped", "flushed"}
    /\ owed \subseteq Txn /\ resps \subseteq Txn
HistoryType ==
    /\ calls \in [Txn -> Nat]
    /\ rcode \in [Txn -> Rcode]
    /\ acked \subseteq Txn
    /\ hazard \in [Txn -> SUBSET Hazards]
    /\ at_lost \in BOOLEAN

TypeOK == LabelType /\ SendType /\ AtType /\ ContextType /\ BusType /\ HistoryType

Init ==
    /\ tlabel_mask = {} /\ current_tlabel = 0 /\ list = {}
    /\ tlabel = [t \in Txn |-> 0]
    /\ node_id = [t \in Txn |-> LocalId]
    /\ gen = [t \in Txn |-> 0]
    /\ ack = [t \in Txn |-> "none"]
    /\ is_split = {}
    /\ timer = [t \in Txn |-> "off"]
    /\ send_pc = [t \in Txn |-> "new"]
    /\ at_queue = <<>>
    /\ linked = {}
    /\ status = [t \in Txn |-> "none"]
    /\ at = [pc |-> "off", t |-> NoTxn]
    /\ at_pending = FALSE /\ flushing = FALSE
    /\ rsp = [c \in Responder |-> [pc |-> "idle", t |-> NoTxn]]
    /\ user = [pc |-> "idle", t |-> NoTxn]
    /\ generation = 0 /\ bus_gen = 0 /\ rst = "idle"
    /\ owed = {} /\ resps = {}
    /\ card = "up" /\ rm_list = {}
    /\ calls = [t \in Txn |-> 0]
    /\ rcode = [t \in Txn |-> "none"]
    /\ acked = {}
    /\ hazard = [t \in Txn |-> {}]
    /\ at_lost = FALSE

-----------------------------------------------------------------------------
(* Helpers: completion of a transaction.                                   *)

\* try_cancel_split_timeout(): false if the timeout handler is already running.
TryCancelSplitTimeout(t) == t \in is_split => timer[t] = "armed"

\* Mutant: list_del_init() is missing.
RemoveEntryKeepsLink(t) ==
    /\ tlabel_mask' = tlabel_mask \ {tlabel[t]}
    /\ UNCHANGED <<list, current_tlabel>>

\* remove_transaction_entry(): off the list, label free again.
RemoveTransactionEntry(t) ==
    /\ list' = list \ {t}
    /\ tlabel_mask' = tlabel_mask \ {tlabel[t]}
    /\ UNCHANGED current_tlabel

\* find_and_pop_transaction_entry(), once the entry t is found: it is handed
\* to the caller whether or not it could be popped.  `more' is what else the
\* history records of this completion.
FindAndPop(t, more) ==
    IF TryCancelSplitTimeout(t)
    THEN /\ RemoveTransactionEntry(t)
         /\ timer' = [timer EXCEPT ![t] = "off"]
         /\ hazard' = [hazard EXCEPT ![t] = @ \cup more]
    ELSE /\ hazard' = [hazard EXCEPT ![t] = @ \cup more \cup {"timer"}]
         /\ UNCHANGED <<labelVars, timer>>

\* The user's callback runs with rcode rc; the object may be gone afterwards.
Callback(t, rc) ==
    /\ calls' = [calls EXCEPT ![t] = @ + 1]
    /\ rcode' = [rcode EXCEPT ![t] = IF @ = "none" THEN rc ELSE @]

\* transmit_complete_callback(): the rcode reported for an ack or an internal error.
AckToRcode(a) ==
    CASE a = "ack_complete" -> "complete"
      [] a = "ack_busy"     -> "busy"
      [] a = "ack_error"    -> "error"
      [] a = "none"         -> "cancelled"      \* dummy_send_request()
      [] OTHER              -> a

\* Mutant: mod_timer() is missing.
StartTimeoutWithoutTimer(t) == UNCHANGED timerVars

\* start_split_transaction_timeout()
StartSplitTransactionTimeout(t) ==
    IF t \in list \ is_split
    THEN /\ is_split' = is_split \cup {t}
         /\ timer' = [timer EXCEPT ![t] = "armed"]
    ELSE UNCHANGED timerVars

-----------------------------------------------------------------------------
(* __fw_send_request()                                                     *)

\* Mutant: the search does not look at the mask.
FirstLabelUnchecked(l) == l = 0

\* allocate_tlabel(): the first free label at or after current_tlabel.
FirstFreeLabel(l) ==
    /\ l \notin tlabel_mask
    /\ \E k \in Label :
          /\ l = (current_tlabel + k) % NLabels
          /\ \A j \in 0 .. k - 1 : (current_tlabel + j) % NLabels \in tlabel_mask

\* card->transactions.current_tlabel = (tlabel + 1) & 0x3f
TlabelAfter(l) == (l + 1) % NLabels

SendAllocate(t) ==
    /\ card # "removed"
    /\ send_pc[t] = "new"
    /\ \E l \in Label, n \in NodeId, g \in 0 .. bus_gen :
          /\ FirstFreeLabel(l)
          /\ tlabel_mask' = tlabel_mask \cup {l}
          /\ current_tlabel' = TlabelAfter(l)
          /\ tlabel' = [tlabel EXCEPT ![t] = l]
          /\ node_id' = [node_id EXCEPT ![t] = n]
          /\ gen' = [gen EXCEPT ![t] = g]
    /\ send_pc' = [send_pc EXCEPT ![t] = "labelled"]
    /\ UNCHANGED <<list, ack, timerVars, queueVars, linked, at, at_pending, flushing,
                   rsp, user, busVars, wireVars, cardVars, callVars, acked, hazard, at_lost>>

\* No label left: the callback runs with RCODE_SEND_ERROR, nothing is sent.
SendNoLabel(t) ==
    /\ card # "removed"
    /\ send_pc[t] = "new"
    /\ tlabel_mask = Label
    /\ send_pc' = [send_pc EXCEPT ![t] = "returned"]
    /\ Callback(t, "send_error")
    /\ UNCHANGED <<labelVars, fieldVars, ack, timerVars, queueVars, linked, at, at_pending,
                   flushing, rsp, user, busVars, wireVars, cardVars, acked, hazard, at_lost>>

SendListAdd(t) ==
    /\ send_pc[t] = "labelled"
    /\ list' = list \cup {t}
    /\ is_split' = is_split \ {t}
    /\ ack' = [ack EXCEPT ![t] = "none"]
    /\ send_pc' = [send_pc EXCEPT ![t] = "listed"]
    /\ UNCHANGED <<tlabel_mask, current_tlabel, fieldVars, timer, queueVars, linked, at,
                   at_pending, flushing, rsp, user, busVars, wireVars, cardVars, callVars,
                   acked, hazard, at_lost>>

\* at_context_transmit() to the local node: acknowledged at once, then handled
\* by the local responder, which may answer now, later or never.
TransmitLocal(t) ==
    /\ card = "up"
    /\ send_pc[t] = "listed"
    /\ node_id[t] = LocalId /\ gen[t] = generation
    /\ ack' = [ack EXCEPT ![t] = "ack_pending"]
    /\ StartSplitTransactionTimeout(t)
    /\ owed' = owed \cup {t}
    /\ acked' = acked \cup {t}
    /\ send_pc' = [send_pc EXCEPT ![t] = "returned"]
    /\ UNCHANGED <<labelVars, fieldVars, queueVars, linked, at, at_pending, flushing, rsp,
                   user, busVars, resps, cardVars, callVars, hazard, at_lost>>

\* at_context_queue_packet(): appended to the DMA program.
TransmitQueue(t) ==
    /\ card = "up"
    /\ send_pc[t] = "listed"
    /\ node_id[t] # LocalId /\ gen[t] = generation
    /\ at_queue' = Append(at_queue, t)
    /\ linked' = linked \cup {t}
    /\ status' = [status EXCEPT ![t] = "none"]
    /\ send_pc' = [send_pc EXCEPT ![t] = "returned"]
    /\ UNCHANGED <<labelVars, fieldVars, ack, timerVars, at, at_pending, flushing, rsp, user,
                   busVars, wireVars, cardVars, callVars, acked, hazard, at_lost>>

\* at_context_queue_packet() refuses: stale generation, or no descriptor / no
\* DMA mapping.  The sender itself then runs transmit_complete_callback().
TransmitFail(t) ==
    /\ card = "up"
    /\ send_pc[t] = "listed"
    /\ \E a \in {"generation", "send_error"} :
          /\ a = "generation" => gen[t] # generation
          /\ a = "send_error" => ~(node_id[t] = LocalId /\ gen[t] = generation)
          /\ ack' = [ack EXCEPT ![t] = a]
    /\ send_pc' = [send_pc EXCEPT ![t] = "close"]
    /\ UNCHANGED <<labelVars, fieldVars, timerVars, queueVars, linked, at, at_pending, flushing,
                   rsp, user, busVars, wireVars, cardVars, callVars, acked, hazard, at_lost>>

\* dummy_send_request(), once fw_core_remove_card() has swapped the driver.
TransmitDummy(t) ==
    /\ card # "up"
    /\ send_pc[t] = "listed"
    /\ send_pc' = [send_pc EXCEPT ![t] = "close"]
    /\ UNCHANGED <<labelVars, fieldVars, ack, timerVars, queueVars, linked, at, at_pending,
                   flushing, rsp, user, busVars, wireVars, cardVars, callVars, acked, hazard,
                   at_lost>>

\* close_transaction() on behalf of the sender.
SendClose(t) ==
    /\ send_pc[t] = "close"
    /\ \/ /\ t \in list
          /\ FindAndPop(t, {})
          /\ send_pc' = [send_pc EXCEPT ![t] = "callback"]
       \/ /\ t \notin list
          /\ send_pc' = [send_pc EXCEPT ![t] = "returned"]
          /\ UNCHANGED <<labelVars, timer, hazard>>
    /\ UNCHANGED <<fieldVars, ack, is_split, queueVars, linked, at, at_pending, flushing, rsp,
                   user, busVars, wireVars, cardVars, callVars, acked, at_lost>>

SendCallback(t) ==
    /\ send_pc[t] = "callback"
    /\ Callback(t, AckToRcode(ack[t]))
    /\ send_pc' = [send_pc EXCEPT ![t] = "returned"]
    /\ UNCHANGED <<labelVars, fieldVars, ack, timerVars, queueVars, linked, at, at_pending,
                   flushing, rsp, user, busVars, wireVars, cardVars, acked, hazard, at_lost>>

-----------------------------------------------------------------------------
(* The controller (external): it runs the DMA program in order while the   *)
(* context runs, writes transfer_status and raises reqTxComplete, on which *)
(* irq_handler() queues the AT work.                                       *)

HwTransmit(t, s) ==
    /\ generation # NoGen /\ card \in {"up", "dummy"}
    /\ \E i \in DOMAIN at_queue :
          /\ at_queue[i] = t /\ status[t] = "none"
          /\ \A j \in 1 .. i - 1 : status[at_queue[j]] # "none"
    /\ status' = [status EXCEPT ![t] = s]
    /\ acked' = IF s \in {"complete", "pending"} THEN acked \cup {t} ELSE acked
    /\ owed' = IF s = "pending" THEN owed \cup {t} ELSE owed
    /\ at_pending' = TRUE
    /\ UNCHANGED <<labelVars, fieldVars, ack, timerVars, at_queue, linked, send_pc, at,
                   flushing, rsp, user, busVars, resps, cardVars, callVars, hazard, at_lost>>

\* The responder sends its response, which the AR DMA or the local path takes in.
Respond(t) ==
    /\ t \in owed
    /\ owed' = owed \ {t}
    /\ resps' = resps \cup {t}
    /\ UNCHANGED <<labelVars, fieldVars, ack, timerVars, send_pc, queueVars, linked, at,
                   at_pending, flushing, rsp, user, busVars, cardVars, callVars, acked, hazard,
                   at_lost>>

-----------------------------------------------------------------------------
(* ohci_at_context_work() -> context_retire_descriptors() ->               *)
(* handle_at_packet(), run by the work item or by at_context_flush().      *)

AtStart ==
    /\ at_pending /\ ~flushing /\ at.pc = "off"
    /\ at' = [pc |-> "loop", t |-> NoTxn]
    /\ at_pending' = FALSE
    /\ at_lost' = FALSE
    /\ UNCHANGED <<labelVars, fieldVars, ack, timerVars, send_pc, queueVars, linked, flushing,
                   rsp, user, busVars, wireVars, cardVars, callVars, acked, hazard>>

DescriptorDone(t) == status[t] # "none" \/ flushing

\* A descriptor whose packet was cancelled is skipped.
AtFetch ==
    /\ at.pc = "loop" /\ at_queue # <<>> /\ DescriptorDone(Head(at_queue))
    /\ at' = IF Head(at_queue) \in linked THEN [pc |-> "fetched", t |-> Head(at_queue)]
                                       ELSE at
    /\ at_queue' = Tail(at_queue)
    /\ UNCHANGED <<labelVars, fieldVars, ack, timerVars, send_pc, linked, status, at_pending,
                   flushing, rsp, user, busVars, wireVars, cardVars, callVars, acked, hazard,
                   at_lost>>

\* Mutant: a flush reports every packet as not sent in this generation.
PacketAckFlushFirst(s, flush) ==
    CASE flush            -> "generation"
      [] s = "complete"   -> "ack_complete"
      [] s = "pending"    -> "ack_pending"
      [] OTHER            -> "send_error"

\* packet->ack from the transfer status.
PacketAck(s, flush) ==
    CASE s = "complete"    -> "ack_complete"
      [] s = "pending"     -> "ack_pending"
      [] s = "busy"        -> "ack_busy"
      [] s = "error"       -> "ack_error"
      [] s = "flushed"     -> "generation"
      [] s = "missing_ack" -> IF flush THEN "generation" ELSE "no_ack"
      [] s = "none"        -> IF flush THEN "generation" ELSE "send_error"
      [] OTHER             -> "send_error"

AtAck ==
    /\ at.pc = "fetched"
    /\ ack' = [ack EXCEPT ![at.t] = PacketAck(status[at.t], flushing)]
    /\ at' = [at EXCEPT !.pc = "close"]
    /\ UNCHANGED <<labelVars, fieldVars, timerVars, send_pc, queueVars, linked, at_pending,
                   flushing, rsp, user, busVars, wireVars, cardVars, callVars, acked, hazard,
                   at_lost>>

\* transmit_complete_callback(ACK_PENDING)
AtPending ==
    /\ at.pc = "close" /\ ack[at.t] = "ack_pending"
    /\ StartSplitTransactionTimeout(at.t)
    /\ at' = [pc |-> "loop", t |-> NoTxn]
    /\ UNCHANGED <<labelVars, fieldVars, ack, send_pc, queueVars, linked, at_pending, flushing,
                   rsp, user, busVars, wireVars, cardVars, callVars, acked, hazard, at_lost>>

\* transmit_complete_callback(anything else) -> close_transaction()
AtClose ==
    /\ at.pc = "close" /\ ack[at.t] # "ack_pending"
    /\ \/ /\ at.t \in list
          /\ FindAndPop(at.t, {})
          /\ at' = [at EXCEPT !.pc = "callback"]
       \/ /\ at.t \notin list
          /\ at' = [pc |-> "loop", t |-> NoTxn]
          /\ UNCHANGED <<labelVars, timer, hazard>>
    /\ UNCHANGED <<fieldVars, ack, is_split, send_pc, queueVars, linked, at_pending, flushing,
                   rsp, user, busVars, wireVars, cardVars, callVars, acked, at_lost>>

AtCallback ==
    /\ at.pc = "callback"
    /\ Callback(at.t, AckToRcode(ack[at.t]))
    /\ at' = [pc |-> "loop", t |-> NoTxn]
    /\ UNCHANGED <<labelVars, fieldVars, ack, timerVars, send_pc, queueVars, linked, at_pending,
                   flushing, rsp, user, busVars, wireVars, cardVars, acked, hazard, at_lost>>

\* The loop ends; for a flush, so does at_context_flush().
AtStop ==
    /\ at.pc = "loop"
    /\ at_queue # <<>> => ~DescriptorDone(Head(at_queue))
    /\ at' = [pc |-> "off", t |-> NoTxn]
    /\ flushing' = FALSE
    /\ rst' = IF flushing /\ rst = "stopped" THEN "flushed" ELSE rst
    /\ card' = IF flushing /\ card = "disabling" THEN "disabled" ELSE card
    /\ UNCHANGED <<labelVars, fieldVars, ack, timerVars, send_pc, queueVars, linked, at_pending,
                   rsp, user, generation, bus_gen, wireVars, rm_list, callVars, acked, hazard,
                   at_lost>>

-----------------------------------------------------------------------------
(* fw_core_handle_response() in the AR work or in a local responder.       *)

Via(r) == IF node_id[r] = LocalId THEN "local" ELSE "ar"

\* The condition on which a response to r is taken for one to t.
Answers(r, t) == node_id[t] = node_id[r] /\ tlabel[t] = tlabel[r]

HandleResponse(c, r) ==
    /\ rsp[c].pc = "idle"
    /\ r \in resps /\ c = Via(r)
    /\ card \in {"up", "dummy"}
    /\ resps' = resps \ {r}
    /\ LET match == {t \in list : Answers(r, t)}
       IN \/ \E t \in match :
                /\ FindAndPop(t, IF t = r THEN {} ELSE {"stale"})
                /\ rsp' = [rsp EXCEPT ![c] = [pc |-> "cancel", t |-> t]]
          \/ /\ match = {}                  \* unsolicited response
             /\ UNCHANGED <<labelVars, timer, hazard, rsp>>
    /\ UNCHANGED <<fieldVars, ack, is_split, send_pc, queueVars, linked, at, at_pending,
                   flushing, user, busVars, owed, cardVars, callVars, acked, at_lost>>

\* ohci_cancel_packet() can start: disable_work_sync() waits for the AT work
\* item, but not for a flush, which is not run as the work item.
AtWorkIdle == at.pc = "off" \/ flushing

\* disable_work_sync() also cancels an AT work item that is queued and not yet
\* running, and enable_work() does not queue it again.
DropPendingAtWork ==
    /\ at_pending' = FALSE
    /\ at_lost' = (at_lost \/ at_pending)

\* Mutant: driver_data->packet is not reset.
WithdrawKeepsLink(t) ==
    /\ ack' = [ack EXCEPT ![t] = "cancelled"]
    /\ UNCHANGED linked

\* The packet is withdrawn from its descriptor.
Withdraw(t) ==
    /\ linked' = linked \ {t}
    /\ ack' = [ack EXCEPT ![t] = "cancelled"]

\* What the history records when t is completed while the flush holds it: the
\* flush and ohci_cancel_packet() both disable the work item, which does not
\* keep them from running at the same time.
FlushRace(t) == IF at.pc \in {"fetched", "close"} /\ at.t = t THEN {"flush"} ELSE {}

\* card->driver->cancel_packet() from fw_core_handle_response().  The nested
\* transmit_complete_callback() finds t off the list already.  With the
\* dummy driver it is a no-op.
ResponseCancelPacket(c) ==
    /\ rsp[c].pc = "cancel"
    /\ rsp' = [rsp EXCEPT ![c] = [pc |-> "deliver", t |-> rsp[c].t]]
    /\ LET t == rsp[c].t
       IN \/ /\ card = "up" /\ AtWorkIdle
             /\ DropPendingAtWork
             /\ IF ack[t] = "none" THEN Withdraw(t) ELSE UNCHANGED <<linked, ack>>
             /\ hazard' = [hazard EXCEPT ![t] = @ \cup FlushRace(t)]
          \/ /\ card # "up"
             /\ hazard' = [hazard EXCEPT ![t] = @ \cup {"removal"}]
             /\ UNCHANGED <<linked, ack, at_pending, at_lost>>
    /\ UNCHANGED <<labelVars, fieldVars, timerVars, send_pc, queueVars, at, flushing, user,
                   busVars, wireVars, cardVars, callVars, acked>>

ResponseDeliver(c) ==
    /\ rsp[c].pc = "deliver"
    /\ Callback(rsp[c].t, "response")
    /\ rsp' = [rsp EXCEPT ![c] = [pc |-> "idle", t |-> NoTxn]]
    /\ UNCHANGED <<labelVars, fieldVars, ack, timerVars, send_pc, queueVars, linked, at,
                   at_pending, flushing, user, busVars, wireVars, cardVars, acked, hazard,
                   at_lost>>

-----------------------------------------------------------------------------
(* fw_cancel_transaction(), valid for transactions that have been sent and *)
(* have not been called back yet.                                          *)

UserCancel(t) ==
    /\ user.pc = "idle"
    /\ t \in Cancellable
    /\ send_pc[t] = "returned" /\ calls[t] = 0
    /\ user' = [pc |-> "cancel", t |-> t]
    /\ UNCHANGED <<labelVars, fieldVars, ack, timerVars, send_pc, queueVars, linked, at,
                   at_pending, flushing, rsp, busVars, wireVars, cardVars, callVars, acked,
                   hazard, at_lost>>

\* cancel_packet() withdraws a packet that is still queued, and its callback
\* closes the transaction; otherwise the transaction is closed below.
UserCancelPacket ==
    /\ user.pc = "cancel"
    /\ LET t == user.t
       IN \/ /\ card = "up" /\ AtWorkIdle /\ ack[t] = "none"
             /\ DropPendingAtWork
             /\ Withdraw(t)
             /\ \/ /\ t \in list
                   /\ FindAndPop(t, FlushRace(t))
                   /\ user' = [user EXCEPT !.pc = "callback"]
                \/ /\ t \notin list
                   /\ hazard' = [hazard EXCEPT ![t] = @ \cup FlushRace(t)]
                   /\ user' = [pc |-> "idle", t |-> NoTxn]
                   /\ UNCHANGED <<labelVars, timer>>
          \/ /\ card = "up" /\ AtWorkIdle /\ ack[t] # "none"
             /\ DropPendingAtWork
             /\ user' = [user EXCEPT !.pc = "close"]
             /\ UNCHANGED <<linked, ack, labelVars, timer, hazard>>
          \/ /\ card # "up"
             /\ user' = [user EXCEPT !.pc = "close"]
             /\ UNCHANGED <<linked, ack, labelVars, timer, hazard, at_pending, at_lost>>
    /\ UNCHANGED <<fieldVars, is_split, send_pc, queueVars, at, flushing, rsp, busVars,
                   wireVars, cardVars, callVars, acked>>

UserClose ==
    /\ user.pc = "close"
    /\ \/ /\ user.t \in list
          /\ FindAndPop(user.t, FlushRace(user.t) \cup
                                   (IF card # "up" THEN {"removal"} ELSE {}))
          /\ user' = [user EXCEPT !.pc = "callback"]
       \/ /\ user.t \notin list
          /\ user' = [pc |-> "idle", t |-> NoTxn]
          /\ UNCHANGED <<labelVars, timer, hazard>>
    /\ UNCHANGED <<fieldVars, ack, is_split, send_pc, queueVars, linked, at, at_pending,
                   flushing, rsp, busVars, wireVars, cardVars, callVars, acked, at_lost>>

UserCallback ==
    /\ user.pc = "callback"
    /\ Callback(user.t, "cancelled")
    /\ user' = [pc |-> "idle", t |-> NoTxn]
    /\ UNCHANGED <<labelVars, fieldVars, ack, timerVars, send_pc, queueVars, linked, at,
                   at_pending, flushing, rsp, busVars, wireVars, cardVars, acked, hazard,
                   at_lost>>

-----------------------------------------------------------------------------
(* split_transaction_timeout_callback()                                    *)

\* The timer expires: from here on timer_delete() reports it as not pending.
TimerFire(t) ==
    /\ timer[t] = "armed"
    /\ timer' = [timer EXCEPT ![t] = "running"]
    /\ UNCHANGED <<labelVars, fieldVars, ack, is_split, send_pc, queueVars, linked, at,
                   at_pending, flushing, rsp, user, busVars, wireVars, cardVars, callVars,
                   acked, hazard, at_lost>>

TimerPop(t) ==
    /\ timer[t] = "running"
    /\ \/ /\ t \in list
          /\ RemoveTransactionEntry(t)
          /\ timer' = [timer EXCEPT ![t] = "callback"]
       \/ /\ t \notin list
          /\ timer' = [timer EXCEPT ![t] = "off"]
          /\ UNCHANGED labelVars
    /\ UNCHANGED <<fieldVars, ack, is_split, send_pc, queueVars, linked, at, at_pending,
                   flushing, rsp, user, busVars, wireVars, cardVars, callVars, acked, hazard,
                   at_lost>>

TimerCallback(t) ==
    /\ timer[t] = "callback"
    /\ Callback(t, "cancelled")
    /\ timer' = [timer EXCEPT ![t] = "off"]
    /\ UNCHANGED <<labelVars, fieldVars, ack, is_split, send_pc, queueVars, linked, at,
                   at_pending, flushing, rsp, user, busVars, wireVars, cardVars, acked, hazard,
                   at_lost>>

-----------------------------------------------------------------------------
(* Bus reset: handle_selfid_complete_event() as far as the AT request      *)
(* context goes (module OhciBusReset has the rest).                        *)

\* ohci->generation = -1; context_stop().  Responders forget what they owe.
ResetStop ==
    /\ rst = "idle" /\ bus_gen < MaxGen /\ card \in {"up", "dummy"}
    /\ generation' = NoGen
    /\ rst' = "stopped"
    /\ owed' = {}
    /\ UNCHANGED <<labelVars, fieldVars, ack, timerVars, send_pc, queueVars, linked, at,
                   at_pending, flushing, rsp, user, bus_gen, resps, cardVars, callVars, acked,
                   hazard, at_lost>>

\* at_context_flush(): the work item is disabled, its loop is run here.
FlushStart ==
    /\ rst = "stopped" \/ card = "disabling"
    /\ ~flushing /\ at.pc = "off"
    /\ flushing' = TRUE
    /\ at' = [pc |-> "loop", t |-> NoTxn]
    /\ at_pending' = FALSE
    /\ at_lost' = FALSE
    /\ UNCHANGED <<labelVars, fieldVars, ack, timerVars, send_pc, queueVars, linked, rsp, user,
                   busVars, wireVars, cardVars, callVars, acked, hazard>>

ResetEnd ==
    /\ rst = "flushed"
    /\ bus_gen' = bus_gen + 1
    /\ generation' = bus_gen + 1
    /\ rst' = "idle"
    /\ UNCHANGED <<labelVars, fieldVars, ack, timerVars, send_pc, queueVars, linked, at,
                   at_pending, flushing, rsp, user, wireVars, cardVars, callVars, acked,
                   hazard, at_lost>>

-----------------------------------------------------------------------------
(* fw_core_remove_card()                                                   *)

\* card->driver = &dummy_driver
RemoveStart ==
    /\ CanRemove /\ card = "up"
    /\ card' = "dummy"
    /\ UNCHANGED <<labelVars, fieldVars, ack, timerVars, send_pc, queueVars, linked, at,
                   at_pending, flushing, rsp, user, busVars, wireVars, rm_list, callVars,
                   acked, hazard, at_lost>>

\* drain_workqueue(async_wq); ohci_disable() masks interrupts and waits for the
\* self-ID thread and the work items before it flushes the AT contexts.
RemoveDisable ==
    /\ card = "dummy"
    /\ rst = "idle" /\ at.pc = "off" /\ ~at_pending /\ rsp["ar"].pc = "idle"
    /\ card' = "disabling"
    /\ UNCHANGED <<labelVars, fieldVars, ack, timerVars, send_pc, queueVars, linked, at,
                   at_pending, flushing, rsp, user, busVars, wireVars, rm_list, callVars,
                   acked, hazard, at_lost>>

\* fw_cancel_pending_transactions(): labels stay marked as used.
RemoveCancelPending ==
    /\ card = "disabled"
    /\ LET S == {t \in list : TryCancelSplitTimeout(t)}
       IN /\ list' = list \ S
          /\ rm_list' = S
          /\ timer' = [t \in Txn |-> IF t \in S THEN "off" ELSE timer[t]]
          /\ hazard' = [t \in Txn |-> IF t \in S /\ send_pc[t] # "returned"
                                      THEN hazard[t] \cup {"removal"} ELSE hazard[t]]
    /\ card' = "cancelling"
    /\ UNCHANGED <<tlabel_mask, current_tlabel, fieldVars, ack, is_split, send_pc, queueVars,
                   linked, at, at_pending, flushing, rsp, user, busVars, wireVars, callVars,
                   acked, at_lost>>

RemoveCallback(t) ==
    /\ card = "cancelling" /\ t \in rm_list
    /\ Callback(t, "cancelled")
    /\ rm_list' = rm_list \ {t}
    /\ UNCHANGED <<labelVars, fieldVars, ack, timerVars, send_pc, queueVars, linked, at,
                   at_pending, flushing, rsp, user, busVars, wireVars, card, acked, hazard,
                   at_lost>>

\* wait_for_completion(&card->done): whoever submitted a transaction holds a
\* reference to the card until its callback has run.
RemoveDone ==
    /\ card = "cancelling" /\ rm_list = {}
    /\ \A t \in Txn : send_pc[t] = "new" \/ (send_pc[t] = "returned" /\ calls[t] > 0)
    /\ card' = "removed"
    /\ UNCHANGED <<labelVars, fieldVars, ack, timerVars, send_pc, queueVars, linked, at,
                   at_pending, flushing, rsp, user, busVars, wireVars, rm_list, callVars,
                   acked, hazard, at_lost>>

-----------------------------------------------------------------------------
Sender(t) ==
    \/ SendListAdd(t)
    \/ TransmitLocal(t) \/ TransmitQueue(t) \/ TransmitFail(t) \/ TransmitDummy(t)
    \/ SendClose(t) \/ SendCallback(t)
AtContext == AtStart \/ AtFetch \/ AtAck \/ AtPending \/ AtClose \/ AtCallback \/ AtStop
ResponseContext(c) ==
    \/ \E r \in resps : HandleResponse(c, r)
    \/ ResponseCancelPacket(c) \/ ResponseDeliver(c)
UserContext == UserCancelPacket \/ UserClose \/ UserCallback
Timer(t) == TimerFire(t) \/ TimerPop(t) \/ TimerCallback(t)
ResetThread == FlushStart \/ ResetEnd
Removal == RemoveDisable \/ RemoveCancelPending \/ RemoveDone
              \/ \E t \in Txn : RemoveCallback(t)

Next ==
    \/ \E t \in Txn : SendAllocate(t) \/ SendNoLabel(t)
    \/ \E t \in Txn : Sender(t)
    \/ \E t \in Txn, s \in HwStatus : HwTransmit(t, s)
    \/ \E t \in Txn : Respond(t)
    \/ AtContext
    \/ \E c \in Responder : ResponseContext(c)
    \/ \E t \in Txn : UserCancel(t)
    \/ UserContext
    \/ \E t \in Txn : Timer(t)
    \/ ResetStop \/ ResetThread
    \/ RemoveStart \/ Removal

Spec == Init /\ [][Next]_vars

(* Every context runs to completion and the controller works through its   *)
(* DMA program; nothing makes a caller submit, cancel, reset or remove.    *)
Fairness ==
    /\ \A t \in Txn : WF_vars(Sender(t)) /\ WF_vars(Timer(t))
    /\ \A t \in Txn : WF_vars(\E s \in HwStatus : HwTransmit(t, s))
    /\ WF_vars(AtContext)
    /\ \A c \in Responder : WF_vars(ResponseContext(c))
    /\ WF_vars(UserContext)
    /\ WF_vars(ResetThread)
    /\ WF_vars(Removal)

FairSpec == Spec /\ Fairness

-----------------------------------------------------------------------------
(* Properties.                                                             *)

\* A transaction owns its label from allocate_tlabel() until it leaves the list.
Live(t) == send_pc[t] = "labelled" \/ t \in list

\* Two transactions that can still be answered never carry the same label, and
\* the label of each of them is marked in tlabel_mask; until the card is
\* removed a marked label belongs to such a transaction (no label leaks).
\* About: allocate_tlabel(), remove_transaction_entry() and every path to it.
TlabelOwned ==
    /\ \A t, u \in Txn : Live(t) /\ Live(u) /\ tlabel[t] = tlabel[u] => t = u
    /\ \A t \in Txn : Live(t) => tlabel[t] \in tlabel_mask
    /\ card \in {"up", "dummy", "disabling", "disabled"} =>
          \A l \in tlabel_mask : \E t \in Txn : Live(t) /\ tlabel[t] = l

\* The same, and every variable has its type: labels are below NLabels.
LabelsExact == TypeOK /\ TlabelOwned

\* What callers of fw_send_request() rely on: the callback runs at most once.
CallbackOnce == \A t \in Txn : calls[t] <= 1

\* The places that decide over the completion of a transaction: nobody yet, the
\* pending list, the context that took it from there and will run its callback,
\* or the callback that has run.
Role == Responder \cup {"fresh", "list", "sender", "at", "user", "timer", "removal", "done"}

Decides(t, h) ==
    \/ h = "fresh"   /\ send_pc[t] \in {"new", "labelled"}
    \/ h = "list"    /\ t \in list
    \/ h = "sender"  /\ send_pc[t] = "callback"
    \/ h = "at"      /\ at.pc = "callback" /\ at.t = t
    \/ h \in Responder /\ rsp[h].pc # "idle" /\ rsp[h].t = t
    \/ h = "user"    /\ user.pc = "callback" /\ user.t = t
    \/ h = "timer"   /\ timer[t] = "callback"
    \/ h = "removal" /\ t \in rm_list
    \/ h = "done"    /\ calls[t] > 0

Deciders(t) == {h \in Role : Decides(t, h)}

\* A transaction is completed by one context only: sender, AT work or flush,
\* response handlers, fw_cancel_transaction(), split timeout and card removal
\* exclude each other, as long as no completion met a running timeout handler.
SingleCompleter ==
    \A t \in Txn : "timer" \notin hazard[t] => \A h, g \in Deciders(t) : h = g

\* The only way to a second callback is a completion that finds the
\* transaction on the list while its split timeout handler already runs:
\* find_and_pop_transaction_entry() returns the entry without popping it.
CallbackOnceUnlessTimerRuns ==
    \A t \in Txn : calls[t] > 1 => "timer" \in hazard[t]

\* What __fw_send_request() promises, with that exception: one context completes a
\* transaction, and calls back once.
CompletedOnce == SingleCompleter /\ CallbackOnceUnlessTimerRuns

\* Once the callback has run the object belongs to its owner again
\* (fw_run_transaction() keeps it on its stack): no context still has it in
\* its hands, except after one of the four recorded races.
NoTouchAfterCallback ==
    \A t \in Txn : calls[t] > 0 /\ hazard[t] = {} =>
        /\ t \notin list
        /\ at.pc \in {"fetched", "close", "callback"} => at.t # t
        /\ \A c \in Responder : rsp[c].t # t
        /\ timer[t] = "off"
        /\ t \notin rm_list
        /\ send_pc[t] = "returned"

\* Given up without a response: called back with RCODE_CANCELLED, or about to be.
Abandoned(t) ==
    \/ rcode[t] = "cancelled"
    \/ timer[t] = "callback"
    \/ user.pc = "callback" /\ user.t = t
    \/ t \in rm_list

\* A response is handed to another transaction than the one it answers only if
\* a transaction with the same node and label was given up before (split
\* timeout, cancellation): fw_core_handle_response() matches on these two alone.
StaleResponseOnlyAfterCancel ==
    \A t \in Txn : "stale" \in hazard[t] =>
        \E r \in Txn \ {t} : /\ node_id[r] = node_id[t] /\ tlabel[r] = tlabel[t]
                             /\ Abandoned(r)

\* A caller that is told the request did not go through (stale generation,
\* busy, send error) can rely on it: no responder acknowledged the request.
\* One told that it completed as unified transaction can rely on that, too.
RcodeTellsTheTruth ==
    \A t \in Txn :
        /\ rcode[t] \in {"generation", "busy", "send_error", "no_ack"} => t \notin acked
        /\ rcode[t] = "complete" => t \in acked

\* WARN_ON(!list_empty(&card->transactions.list)) at the end of
\* fw_core_remove_card() fires only for a transaction completed while its
\* split timeout handler was running.
RemovedCardHasNoTransactions ==
    card = "removed" => \A t \in list : "timer" \in hazard[t]

\* A transaction is given back to its owner for good: after its callback, and when
\* the card is removed (close_transaction(), fw_core_remove_card()).
GivenBackForGood == NoTouchAfterCallback /\ RemovedCardHasNoTransactions

\* What the callback is told is true of the request, and comes from the response
\* to it (transmit_complete_callback(), fw_core_handle_response()).
AnswersAreTrue == RcodeTellsTheTruth /\ StaleResponseOnlyAfterCancel

\* Every submitted transaction is called back.
EveryRequestCompletes ==
    \A t \in Txn : send_pc[t] = "labelled" ~> calls[t] > 0

\* Every submitted transaction is called back, unless ohci_cancel_packet()
\* threw away an AT work item that was queued (and none was queued since).
CompletesUnlessAtWorkLost ==
    \A t \in Txn : send_pc[t] = "labelled" ~> (calls[t] > 0 \/ at_lost)
=============================================================================
