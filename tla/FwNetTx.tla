------------------------------- MODULE FwNetTx ------------------------------
(***************************************************************************)
(* Transmission of IP over 1394 and the life of its network interface       *)
(* (drivers/firewire/net.c): packet tasks and who frees them, flow control  *)
(* by the number of queued datagrams, broadcast reception, peers, and       *)
(* registration and removal of the interface.                               *)
(*                                                                          *)
(* A packet task is in the hands of fwnet_send_packet(), from the request   *)
(* to the section under dev->lock that follows, and of the completion of    *)
(* the request, which under the lock decides who frees the task, and then   *)
(* without the lock looks whether there is a fragment left, which it sends  *)
(* by another call of fwnet_send_packet().  Each may be delayed.            *)
(***************************************************************************)
EXTENDS Integers, FiniteSets

CONSTANTS
    Task,           \* struct fwnet_packet_task objects
    Peer,           \* units that may become peers
    MaxFragments,   \* bound: fragments of a datagram
    MaxQueued,      \* FWNET_MAX_QUEUED_DATAGRAMS
    MinQueued,      \* FWNET_MIN_QUEUED_DATAGRAMS
    MaxOpen         \* bound: how often the interface is opened

ASSUME TxAssumption ==
    /\ MaxFragments \in Nat \ {0} /\ MinQueued \in Nat /\ MaxQueued \in Nat
    /\ MinQueued < MaxQueued /\ MaxOpen \in Nat /\ IsFiniteSet(Peer)

VARIABLES
    netdev,     \* struct fwnet_device with its net_device
    peers,      \* dev->peer_list
    ptask,      \* packet tasks
    txRaced     \* ghost: a task was freed while somebody was still using it

txvars == <<netdev, peers, ptask, txRaced>>

\* senders: calls of fwnet_send_packet() between the request and the lock.  looks: the
\* completion has left the lock and goes on to read outstanding_pkts.
NoTask == [live |-> FALSE, outstanding_pkts |-> 0, enqueued |-> FALSE, senders |-> 0,
           flight |-> FALSE, looks |-> FALSE]
NoNetdev == [state |-> "none", up |-> FALSE, queue |-> "stopped", queued |-> 0,
             carrier |-> FALSE, fifo |-> FALSE, broadcast |-> "error", contexts |-> 0,
             leaked |-> 0, opened |-> 0]

FwNetTxInit ==
    /\ netdev = NoNetdev
    /\ peers = {}
    /\ ptask = [t \in Task |-> NoTask]
    /\ txRaced = FALSE

FwNetTxTypeOK ==
    /\ netdev.state \in {"none", "registered", "unregistering", "draining"}
    /\ netdev.queue \in {"running", "stopped", "full"}
    /\ netdev.broadcast \in {"error", "running"}
    /\ netdev.queued \in Int /\ peers \subseteq Peer
    /\ \A t \in Task : ptask[t].outstanding_pkts \in 0 .. MaxFragments

-----------------------------------------------------------------------------
(* Transmission.                                                            *)

\* dec_queued_datagrams() wakes the queue at the lower mark.
dec_queued_datagrams(n) ==
    [n EXCEPT !.queued = @ - 1, !.queue = IF n.queued - 1 = MinQueued THEN "running" ELSE @]

\* One more use of the task ends; free says that the code takes it for the last.
FreeTask(t, task, free) ==
    /\ ptask' = [ptask EXCEPT ![t] = IF free THEN NoTask ELSE task]
    /\ netdev' = IF free THEN dec_queued_datagrams(netdev) ELSE netdev
    /\ txRaced' = (txRaced \/ (free /\ (task.senders > 0 \/ task.looks)))

\* fwnet_tx() of a datagram to a peer or to all nodes, in n fragments, followed by the
\* first half of fwnet_send_packet().  A full queue is stopped.
fwnet_tx(t, n) ==
    /\ netdev.state = "registered" /\ netdev.up /\ netdev.queue = "running"
    /\ ~ptask[t].live
    /\ ptask' = [ptask EXCEPT ![t] = [NoTask EXCEPT !.live = TRUE, !.outstanding_pkts = n,
                                                    !.senders = 1, !.flight = TRUE]]
    /\ netdev' = [netdev EXCEPT !.queued = @ + 1,
                                !.queue = IF netdev.queued + 1 = MaxQueued THEN "full" ELSE @]
    /\ UNCHANGED <<peers, txRaced>>

\* Mutant: the sender leaves the task to the completion that already ran.
SenderNeverLast(t) ==
    /\ ptask[t].senders > 0
    /\ FreeTask(t, [ptask[t] EXCEPT !.senders = @ - 1, !.enqueued = TRUE], FALSE)
    /\ UNCHANGED peers

\* The second half of fwnet_send_packet(): if the completion already ran, the sender is
\* the last user.
fwnet_send_packet(t) ==
    /\ ptask[t].senders > 0
    /\ LET free == ptask[t].outstanding_pkts = 0 /\ ~ptask[t].enqueued
       IN FreeTask(t, [ptask[t] EXCEPT !.senders = @ - 1, !.enqueued = TRUE], free)
    /\ UNCHANGED peers

\* fwnet_transmit_packet_done() under the lock: the completion is the last user if the
\* sender is through.  It then frees the task after the lock, but no one else is left to
\* see that, so that it is the same step.
fwnet_transmit_packet_done(t) ==
    /\ ptask[t].flight
    /\ LET left == ptask[t].outstanding_pkts - 1
           free == left = 0 /\ ptask[t].enqueued
       IN FreeTask(t, [ptask[t] EXCEPT !.outstanding_pkts = left, !.flight = FALSE,
                                       !.looks = ~free], free)
    /\ UNCHANGED peers

\* The rest of it, without the lock: the next fragment is sent.
NextFragment(t) ==
    /\ ptask[t].looks
    /\ LET more == ptask[t].outstanding_pkts > 0
           calls == ptask[t].senders + (IF more THEN 1 ELSE 0)
       IN ptask' = [ptask EXCEPT ![t] = [ptask[t] EXCEPT !.looks = FALSE, !.flight = more,
                                                         !.senders = calls]]
    /\ UNCHANGED <<netdev, peers, txRaced>>

\* Mutant: a failed datagram stays counted.
FailedStaysCounted(t) ==
    /\ ptask[t].flight
    /\ ptask' = [ptask EXCEPT ![t] = IF ptask[t].enqueued THEN NoTask
                        ELSE [ptask[t] EXCEPT !.outstanding_pkts = 0, !.flight = FALSE]]
    /\ UNCHANGED <<netdev, peers, txRaced>>

\* fwnet_transmit_packet_failed(): the remaining fragments are not sent.
fwnet_transmit_packet_failed(t) ==
    /\ ptask[t].flight
    /\ FreeTask(t, [ptask[t] EXCEPT !.outstanding_pkts = 0, !.flight = FALSE],
                ptask[t].enqueued)
    /\ UNCHANGED peers

fwnet_write_complete(t) ==
    fwnet_transmit_packet_done(t) \/ NextFragment(t) \/ fwnet_transmit_packet_failed(t)

-----------------------------------------------------------------------------
(* The interface is opened and closed.                                      *)

\* set_carrier_state()
set_carrier_state(n, ps) == [n EXCEPT !.carrier = Cardinality(ps) > 1]

\* __fwnet_broadcast_stop() destroys the context that dev->broadcast_rcv_context names.
__fwnet_broadcast_stop(n, known) ==
    [n EXCEPT !.broadcast = "error", !.contexts = @ - known]

\* fwnet_broadcast_start() fails before there is a context; or at fw_iso_buffer_init(),
\* when the context is not in dev yet, so that it is never destroyed; or later.
BroadcastFailures(n) ==
    {n, [n EXCEPT !.contexts = @ + 1, !.leaked = @ + 1],
     __fwnet_broadcast_stop([n EXCEPT !.contexts = @ + 1], 1)}

fwnet_broadcast_start(n) == [n EXCEPT !.broadcast = "running", !.contexts = @ + 1]

fwnet_open ==
    /\ netdev.state = "registered" /\ ~netdev.up /\ netdev.opened < MaxOpen
    /\ LET n == [netdev EXCEPT !.opened = @ + 1] IN
       \/ netdev' = set_carrier_state([fwnet_broadcast_start(n) EXCEPT
                                           !.up = TRUE, !.queue = "running"], peers)
       \/ netdev' \in BroadcastFailures(n)
    /\ UNCHANGED <<peers, ptask, txRaced>>

\* fwnet_stop() with fwnet_broadcast_stop().
fwnet_stop(n) ==
    [(IF n.broadcast = "error" THEN n ELSE __fwnet_broadcast_stop(n, 1)) EXCEPT
        !.up = FALSE, !.queue = "stopped"]

Ifdown ==
    /\ netdev.state = "registered" /\ netdev.up
    /\ netdev' = fwnet_stop(netdev)
    /\ UNCHANGED <<peers, ptask, txRaced>>

-----------------------------------------------------------------------------
(* Peers, probe and removal; fwnet_device_mutex makes each one step up to   *)
(* the point where fwnet_remove() sleeps.                                   *)

fwnet_add_peer(n, p) ==
    /\ peers' = peers \cup {p}
    /\ netdev' = set_carrier_state(n, peers \cup {p})

\* fwnet_probe(): the first peer brings the interface, with its FIFO, or nothing.
fwnet_probe(p) ==
    /\ p \notin peers /\ netdev.state \in {"none", "registered"}
    /\ \/ netdev.state = "registered" /\ fwnet_add_peer(netdev, p)
       \/ /\ netdev.state = "none"
          /\ fwnet_add_peer([NoNetdev EXCEPT !.state = "registered", !.fifo = TRUE,
                                             !.opened = netdev.opened,
                                             !.leaked = netdev.leaked,
                                             !.contexts = netdev.contexts], p)
    /\ UNCHANGED <<ptask, txRaced>>

\* fwnet_remove_peer()
fwnet_remove_peer(p) ==
    /\ peers' = peers \ {p}
    /\ netdev' = IF peers = {p}
                 THEN [set_carrier_state(netdev, {}) EXCEPT !.state = "unregistering"]
                 ELSE set_carrier_state(netdev, peers \ {p})

\* fwnet_remove()
fwnet_remove(p) ==
    /\ p \in peers /\ netdev.state = "registered"
    /\ fwnet_remove_peer(p)
    /\ UNCHANGED <<ptask, txRaced>>

\* unregister_netdev() closes the interface, and the FIFO is removed.
Unregister ==
    /\ netdev.state = "unregistering"
    /\ netdev' = [(IF netdev.up THEN fwnet_stop(netdev) ELSE netdev) EXCEPT
                     !.state = "draining", !.fifo = FALSE]
    /\ UNCHANGED <<peers, ptask, txRaced>>

\* free_netdev() once no datagram is queued.  After five seconds the code goes on with a
\* warning; the model assumes that transactions end before that.
FreeNetdev ==
    /\ netdev.state = "draining" /\ netdev.queued = 0
    /\ netdev' = [NoNetdev EXCEPT !.opened = netdev.opened, !.leaked = netdev.leaked,
                                  !.contexts = netdev.contexts]
    /\ UNCHANGED <<peers, ptask, txRaced>>

-----------------------------------------------------------------------------
FwNetTxNext ==
    \/ \E t \in Task, n \in 1 .. MaxFragments : fwnet_tx(t, n)
    \/ \E t \in Task : fwnet_send_packet(t) \/ fwnet_write_complete(t)
    \/ \E p \in Peer : fwnet_probe(p) \/ fwnet_remove(p)
    \/ fwnet_open \/ Ifdown \/ Unregister \/ FreeNetdev

FwNetTxFairness ==
    /\ \A t \in Task : WF_txvars(fwnet_send_packet(t)) /\ WF_txvars(fwnet_write_complete(t))
    /\ WF_txvars(Unregister) /\ WF_txvars(FreeNetdev)

FwNetTxSpec == FwNetTxInit /\ [][FwNetTxNext]_txvars /\ FwNetTxFairness

-----------------------------------------------------------------------------
(* Packet tasks and contexts are freed exactly once (net.c:810-1048,        *)
(* 1080-1190): queued_datagrams counts the tasks that live, a task has a    *)
(* user left, and the interface has a receive context exactly while         *)
(* broadcast reception runs, apart from contexts that a failed              *)
(* fw_iso_buffer_init() lost.  The exception is a task that was freed while *)
(* in use (txRaced), in one of two ways.  The completion of the last        *)
(* fragment left the task to its sender (837), which frees it (1042) before *)
(* the completion reads outstanding_pkts without the lock (848); this can   *)
(* happen to a datagram of one fragment.  Or the completion of a later      *)
(* fragment, or its sender, frees a task that the sender of an earlier      *)
(* fragment still uses.                                                     *)
TasksCounted ==
    /\ FwNetTxTypeOK
    /\ netdev.contexts = netdev.leaked + (IF netdev.broadcast = "running" THEN 1 ELSE 0)
    /\ netdev.broadcast = "running" => netdev.up
    /\ \/ txRaced
       \/ /\ netdev.queued = Cardinality({t \in Task : ptask[t].live})
          /\ \A t \in Task : ptask[t].live =>
                 ptask[t].senders > 0 \/ ptask[t].flight \/ ptask[t].looks
          /\ netdev.state = "none" => \A t \in Task : ~ptask[t].live

(* A queue that flow control stopped runs again, or the interface is closed *)
(* (net.c:816-821, 1318-1319).                                              *)
QueueWoken == (netdev.queue = "full") ~> (netdev.queue # "full" \/ txRaced)
=============================================================================
