----------------------------- MODULE AmdtpDomain -----------------------------
(***************************************************************************)
(* The packet streams of an audio device (sound/firewire/amdtp-stream.c):   *)
(* isochronous contexts of both directions that start at different times,   *)
(* drop or skip packets until all of them have events, and then process     *)
(* packets from an agreed cycle on.  The interrupt of one transmit context  *)
(* drives all the others.  With sequence replay the transmit contexts       *)
(* repeat the sequence of data blocks that a receive context cached.        *)
(*                                                                          *)
(* A cycle is a number modulo Wrap (8 seconds in the code).  What the       *)
(* packets carry is module AmdtpSequence; here a packet has events or none. *)
(* The transmit ("rx") contexts get their packets Queue cycles in advance.  *)
(***************************************************************************)
EXTENDS Integers, Sequences, FiniteSets, SequencesExt

CONSTANTS
    TxStream,       \* receive contexts, for the packets that the device transmits
    RxStream,       \* transmit contexts
    Setups,         \* the domains that drivers set up: list of streams, kind of device, replay
    Queue,          \* queue_size
    Period,         \* idle_irq_interval: cycles between interrupts at the start
    MaxLate,        \* packets that wait at most when the interrupt target's callback runs
    StartSpread,    \* cycles that the start of all contexts takes at most
    InitSkip,       \* tx_init_skip_cycles
    JumboSkip,      \* IR_JUMBO_PAYLOAD_MAX_SKIP_CYCLES
    Phases,         \* cycles at which a domain may start
    Wrap,           \* cycles until the cycle count starts again
    MaxFault        \* bound: skipped cycles, bad packets and failures to queue

\* The DMA contexts run in real time: their start takes less than the first interrupt
\* interval, and interrupts are served before a quarter of the replay cache is over.
ASSUME DomainAssumption ==
    /\ StartSpread < Period /\ Period <= MaxLate /\ MaxLate + StartSpread <= Queue
    /\ 2 * MaxLate <= (3 * Queue) \div 4
    /\ 6 * Queue < Wrap + Wrap
    /\ Phases \subseteq 0 .. Wrap - 1 /\ \A u \in Setups : u.list \in Seq(TxStream \cup RxStream)

VARIABLES
    amCycle,    \* the bus's cycle count
    amDom,      \* struct amdtp_domain and the operation of the driver
    amStr       \* struct amdtp_stream of each stream

amvars == <<amCycle, amDom, amStr>>

Stream == TxStream \cup RxStream
CacheSize == (3 * Queue) \div 2

NoDomain == [op |-> "idle", list |-> <<>>, replay |-> FALSE, fly |-> FALSE, kind |-> "cip",
             txStart |-> -1, rxStart |-> -1, started |-> 0, spread |-> 0, flush |-> 0, faults |-> 0,
             split |-> FALSE]

\* cb is the callback of the context, pend the packets completed and not yet seen by it,
\* dev what the other side does.  apart, gapped, delay and misread are ghosts.
NoStream == [run |-> FALSE, err |-> FALSE, cb |-> "first", next |-> 0, ready |-> FALSE,
             events |-> FALSE, pend |-> <<>>, dev |-> "off",
             pos |-> 0, cache |-> [i \in 0 .. CacheSize - 1 |-> -1], association |-> "none",
             apart |-> FALSE, gapped |-> FALSE, delay |-> -1, misread |-> FALSE]

AmdtpDomainInit ==
    amCycle = 0 /\ amDom = NoDomain /\ amStr = [s \in Stream |-> NoStream]

AmdtpDomainTypeOK ==
    /\ amCycle \in 0 .. Wrap - 1 /\ amDom.list \in {u.list : u \in Setups} \cup {<<>>}
    /\ amDom.op \in {"idle", "starting", "waiting", "run", "failed"}
    /\ \A s \in Stream :
          /\ amStr[s].cb \in {"first", "initially", "skip", "intermediately", "process"}
          /\ amStr[s].next \in 0 .. Wrap - 1 /\ amStr[s].pos \in 0 .. CacheSize - 1
          /\ Len(amStr[s].pend) <= Queue

Listed == ToSet(amDom.list)
Target == SelectSeq(amDom.list, LAMBDA s : s \in RxStream)[1]
-----------------------------------------------------------------------------
(* Cycle counts.                                                            *)

increment_ohci_cycle_count(c, n) == IF c + n >= Wrap THEN c + n - Wrap ELSE c + n

compare_ohci_cycle_count(l, r) ==
    IF l = r THEN 0 ELSE IF l < r /\ r - l < Wrap \div 2 THEN -1 ELSE 1

\* The count took l for the later one although r follows l across the wrap.
Misordered(l, r) == l > r /\ r + Wrap - l < Wrap \div 2

compute_ohci_it_cycle(p) == increment_ohci_cycle_count(p.at, Queue)

calculate_cached_cycle_count(tx, head) ==
    (IF tx.pos < head THEN tx.pos + CacheSize ELSE tx.pos) - head

-----------------------------------------------------------------------------
(* The callbacks, as functions on a record S of the domain, its streams, and *)
(* whether fw_iso_context_queue() fails this time.                          *)

\* F applied to the value v, which is computed once.
With(v, F(_)) == CHOOSE r \in {F(x) : x \in {v}} : TRUE

cancel_stream(S, s) == [S EXCEPT !.str[s].err = TRUE]

\* The packets of a callback are queued again.
queue_packets(S, s) == With(S, LAMBDA x : IF x.full THEN cancel_stream(x, s) ELSE x)

\* pool_seq_descs() takes the sequence of the packets b from the cache, or computes it.
Replays(S, s, b) ==
    LET cached == calculate_cached_cycle_count(S.str[S.str[s].association], S.str[s].pos) IN
    /\ S.dom.replay
    /\ S.dom.fly => cached > Len(b) /\ cached > CacheSize \div 2

\* pool_replayed_seq().  Ghost: the packet for cycle c repeats the one that arrived delay
\* cycles before, the same for all.
pool_replayed_seq(S, s, b) ==
    LET r == S.str[s]
        Read(i) == S.str[r.association].cache[(r.pos + i - 1) % CacheSize]
        Delay(i) == (compute_ohci_it_cycle(b[i]) + Wrap - Read(i)) % Wrap
        wanted == IF S.dom.fly \/ r.delay = -1 THEN Delay(1) ELSE r.delay
    IN  [S EXCEPT !.str[s].pos = (@ + Len(b)) % CacheSize,
                  !.str[s].delay = IF S.dom.fly THEN -1 ELSE wanted,
                  !.str[s].misread = @ \/ \E i \in DOMAIN b : Read(i) = -1 \/ Delay(i) # wanted]

process_rx_packets(S, s, b) ==
    queue_packets(IF Replays(S, s, b) THEN pool_replayed_seq(S, s, b) ELSE S, s)

skip_rx_packets(S, s, b) ==
    queue_packets([S EXCEPT !.str[s].next =
                      increment_ohci_cycle_count(compute_ohci_it_cycle(Last(b)), 1)], s)

drop_tx_packets(S, s, b) ==
    queue_packets([S EXCEPT !.str[s].next = increment_ohci_cycle_count(Last(b).at, 1)], s)

\* generate_tx_packet_descs() with parse_ir_ctx_header(): the cycle of each packet
\* continues the last one, but for a skip that the kind of the device allows.  The first
\* packet that is not accepted decides; there are descriptors for all cycles then.
generate_tx_packet_descs(S, s, b) ==
    LET kind == S.dom.kind
        next == S.str[s].next
        after == increment_ohci_cycle_count(Last(b).at, 1)
        Expected(i) == IF kind = "no header" /\ i > 1
                       THEN increment_ohci_cycle_count(b[i - 1].at, 1)
                       ELSE increment_ohci_cycle_count(next, i - 1)
        Lost(i) == /\ b[i].at # Expected(i)
                   /\ CASE kind = "no header" -> b[i].at # increment_ohci_cycle_count(Expected(i), 1)
                        [] kind = "jumbo" -> compare_ohci_cycle_count(
                              increment_ohci_cycle_count(Expected(i), JumboSkip), b[i].at) < 0
                        [] OTHER -> TRUE
        Fails(i) == Lost(i) \/ ~b[i].ok
        first == SelectInSeq([i \in DOMAIN b |-> Fails(i)], LAMBDA f : f)
    IN  IF first # 0 THEN [err |-> IF Lost(first) THEN "EIO" ELSE "EAGAIN"]
        ELSE [err |-> "none",
              next |-> IF kind = "no header" THEN after ELSE increment_ohci_cycle_count(next, Len(b)),
              descs |-> [i \in 1 .. (after + Wrap - next) % Wrap |-> increment_ohci_cycle_count(next, i - 1)]]

\* cache_seq(); an entry is the cycle of its packet.
cache_seq(t, descs) ==
    LET Back(k) == (k + CacheSize - t.pos) % CacheSize
    IN  [t EXCEPT !.pos = (@ + Len(descs)) % CacheSize,
                  !.cache = [k \in DOMAIN @ |-> IF Back(k) < Len(descs) THEN descs[Back(k) + 1] ELSE @[k]]]

process_tx_packets(S, s, b) ==
    With(generate_tx_packet_descs(S, s, b), LAMBDA g :
        IF g.err = "EIO" THEN cancel_stream(S, s)
        ELSE IF g.err = "EAGAIN" THEN queue_packets(S, s)
        ELSE LET t == [S.str[s] EXCEPT !.next = g.next]
             IN  queue_packets([S EXCEPT !.str[s] = IF S.dom.replay THEN cache_seq(t, g.descs) ELSE t], s))

\* What nobody reads any more once all streams of a direction process packets: the cycle of
\* the start, and next_cycle of a transmit context.
Forgotten(S, s, same) ==
    LET over == \A t \in same : S.str[t].cb = "process"
    IN  [S EXCEPT !.dom.txStart = IF over /\ s \in TxStream THEN -1 ELSE @,
                  !.dom.rxStart = IF over /\ s \in RxStream THEN -1 ELSE @,
                  !.str[s].next = IF s \in RxStream THEN 0 ELSE @,
                  !.str[s].gapped = FALSE]

\* Packets before the cycle of the start are dropped or skipped.
Intermediately(S, s, b, start) ==
    LET tx == s \in TxStream
        CycleOf(p) == IF tx THEN p.at ELSE compute_ohci_it_cycle(p)
        Early(p) == compare_ohci_cycle_count(CycleOf(p), start) < 0
        offset == SelectInSeq(b, LAMBDA p : ~Early(p))
        head == IF offset = 0 THEN b ELSE SubSeq(b, 1, offset - 1)
        rest == IF offset = 0 THEN <<>> ELSE SubSeq(b, offset, Len(b))
        Misjudged == \E p \in ToSet(b) : Misordered(CycleOf(p), start)
        Skipped == IF head = <<>> THEN S
                   ELSE IF tx THEN drop_tx_packets(S, s, head) ELSE skip_rx_packets(S, s, head)
        Begun(S1) == [S1 EXCEPT !.str[s].ready = TRUE, !.str[s].pos = IF tx THEN @ ELSE 0,
                                !.str[s].apart = CycleOf(rest[1]) # start /\ ~S1.str[s].gapped,
                                !.dom.split = @ \/ Misjudged]
        Processed(S2) == IF tx THEN process_tx_packets(S2, s, rest) ELSE process_rx_packets(S2, s, rest)
        same == Listed \cap IF tx THEN TxStream ELSE RxStream
        Switched(S3) == IF S3.str[s].err THEN S3
                        ELSE Forgotten([S3 EXCEPT !.str[s].cb = "process"], s, same)
    IN  With(Skipped, LAMBDA S1 :
            IF S1.str[s].err \/ rest = <<>> THEN S1
            ELSE With(Begun(S1), LAMBDA S2 : With(Processed(S2), Switched)))

process_tx_packets_intermediately(S, s, b) ==
    Intermediately(S, s, b, S.dom.txStart)

process_rx_packets_intermediately(S, s, b) ==
    Intermediately(S, s, b, S.dom.rxStart)

\* Mutant: processing starts in each context with its own next packet.
StartsAnywhere(start, next, skip) == next

\* The later one of the cycle chosen so far and a stream's next cycle.
LaterStart(start, next, skip) ==
    LET n == increment_ohci_cycle_count(next, skip)
    IN  IF start = -1 \/ compare_ohci_cycle_count(n, start) > 0 THEN n ELSE start

\* The cycle at which all the streams of a direction begin, in the order of the list.
CommonStart(S, streams, first, skip) ==
    FoldLeft(LAMBDA acc, s : LaterStart(acc, S.str[s].next, skip), first, streams)

\* Did a comparison on the way take a cycle before the wrap for the later one?
StartMisordered(S, streams, skip) ==
    \E s, t \in ToSet(streams) : Misordered(increment_ohci_cycle_count(S.str[s].next, skip),
                                            increment_ohci_cycle_count(S.str[t].next, skip))

drop_tx_packets_initially(S, s, b) ==
    LET txs == SelectSeq(S.dom.list, LAMBDA t : t \in TxStream)
        Dropped == [drop_tx_packets(S, s, b) EXCEPT
                       !.str[s].events = @ \/ \E p \in ToSet(b) : p.ev]
    IN  With(Dropped, LAMBDA S1 :
        IF \E t \in ToSet(txs) : ~S1.str[t].events THEN S1
        ELSE [S1 EXCEPT
                 !.str = [t \in Stream |-> IF t \in ToSet(txs) THEN [@[t] EXCEPT !.cb = "intermediately"]
                                           ELSE @[t]],
                 !.dom.txStart = CommonStart(S1, txs, -1, InitSkip),
                 !.dom.split = @ \/ StartMisordered(S1, txs, InitSkip)])

\* The present state, with or without a failure to queue.
Now == {[dom |-> amDom, str |-> amStr, full |-> FALSE]} \cup
       (IF amDom.faults < MaxFault
        THEN {[dom |-> [amDom EXCEPT !.faults = @ + 1], str |-> amStr, full |-> TRUE]} ELSE {})

\* The callback of context s for its packets, none once packet_index is negative.
Callback(S0, s) ==
    LET b == S0.str[s].pend
        cb == IF S0.str[s].cb # "first" THEN S0.str[s].cb
              ELSE IF s \in TxStream THEN "initially" ELSE "skip"
    IN  IF b = <<>> THEN S0
        ELSE With([S0 EXCEPT !.str[s].pend = <<>>, !.str[s].cb = cb], LAMBDA S :
             CASE S.str[s].err -> S
               [] ~S.str[s].err /\ cb = "initially" -> drop_tx_packets_initially(S, s, b)
               [] ~S.str[s].err /\ cb = "skip" -> skip_rx_packets(S, s, b)
               [] ~S.str[s].err /\ cb = "intermediately" ->
                     IF s \in TxStream THEN process_tx_packets_intermediately(S, s, b)
                     ELSE process_rx_packets_intermediately(S, s, b)
               [] ~S.str[s].err /\ cb = "process" -> IF s \in TxStream THEN process_tx_packets(S, s, b)
                                                     ELSE process_rx_packets(S, s, b))

\* Mutant: the whole cache has to be full.
ReadyWhenFull(S) ==
    S.dom.replay /\ ~S.dom.fly =>
        \A s \in Listed \cap RxStream :
            calculate_cached_cycle_count(S.str[S.str[s].association], 0) >= CacheSize

\* irq_target_callback_skip(): without replay at once, else when the cache of every
\* associated stream is more than half full.
ReadyToStart(S) ==
    S.dom.replay /\ ~S.dom.fly =>
        \A s \in Listed \cap RxStream :
            calculate_cached_cycle_count(S.str[S.str[s].association], 0) > CacheSize \div 2

irq_target_callback_skip(S) ==
    LET rxs == SelectSeq(S.dom.list, LAMBDA s : s \in RxStream)
    IN  IF S.str[Target].cb # "skip" \/ ~ReadyToStart(S) THEN S
        ELSE [S EXCEPT
                 !.str = [s \in Stream |-> IF s \in ToSet(rxs) THEN [@[s] EXCEPT !.cb = "intermediately"]
                                           ELSE @[s]],
                 !.dom.rxStart = CommonStart(S, rxs, S.str[Target].next, 0),
                 !.dom.split = @ \/ StartMisordered(S, rxs, 0)]

\* The interrupt target's callback begins with its own packets.  At the start interrupts come every Period cycles; later, PCM
\* operations flush the context at any time (amdtp_domain_stream_pcm_pointer(),
\* amdtp_domain_stream_pcm_ack()).  All transmit contexts have begun when it runs.
irq_target_callback ==
    /\ amDom.op \in {"starting", "waiting", "run"} /\ amDom.started > 0 /\ amDom.flush = 0
    /\ \A s \in Listed \cap RxStream : amStr[s].pend # <<>> \/ amStr[s].cb # "first"
    /\ amStr[Target].run /\ ~amStr[Target].err
    /\ Len(amStr[Target].pend) >= IF amDom.op = "run" THEN 1 ELSE Period
    /\ \E S \in {Callback(S0, Target) : S0 \in Now} :
          amDom' = [S.dom EXCEPT !.flush = 1] /\ amStr' = S.str
    /\ UNCHANGED amCycle

\* process_ctxs_in_domain() flushes the completions of the other contexts in the order of
\* the list, one per step; an error of one cancels all.  The end of the interrupt target's
\* callback is the decision to start, while it skips packets.
process_ctxs_in_domain ==
    /\ amDom.flush > 0
    /\ LET s == amDom.list[amDom.flush]
           last == amDom.flush = Len(amDom.list)
       IN
       \E S \in {IF s # Target /\ amStr[s].run THEN Callback(S0, s) ELSE S0 : S0 \in Now} :
       \E E \in {IF ~S.str[s].err THEN S
                 ELSE [S EXCEPT !.str = [t \in Stream |-> IF t \in Listed /\ @[t].run
                                                         THEN [@[t] EXCEPT !.err = TRUE] ELSE @[t]]]} :
       \E D \in {IF last \/ S.str[s].err THEN irq_target_callback_skip(E) ELSE E} :
          /\ amStr' = D.str
          /\ amDom' = [D.dom EXCEPT !.flush = IF last \/ S.str[s].err THEN 0 ELSE @ + 1]
    /\ UNCHANGED amCycle

-----------------------------------------------------------------------------
(* Start and stop.                                                          *)

\* make_association(): the n-th transmit context replays the n-th receive context, or the
\* first one.
make_association(list, s) ==
    LET rxs == SelectSeq(list, LAMBDA t : t \in RxStream)
        txs == SelectSeq(list, LAMBDA t : t \in TxStream)
        n == CHOOSE i \in 1 .. Len(rxs) : rxs[i] = s
    IN  IF n <= Len(txs) THEN txs[n] ELSE txs[1]

\* amdtp_domain_add_stream() for all streams, then the first part of amdtp_domain_start():
\* it fails without a stream to replay or to transmit.
amdtp_domain_start(u) ==
    /\ amDom.op = "idle"
    /\ LET has(D) == ToSet(u.list) \cap D # {}
           ok == has(RxStream) /\ (u.replay => has(TxStream))
       IN  /\ amDom' = [NoDomain EXCEPT !.op = IF ok THEN "starting" ELSE "failed", !.list = u.list,
                                        !.kind = u.kind, !.replay = u.replay, !.fly = u.fly]
           /\ amStr' = IF ok /\ u.replay
                       THEN [s \in Stream |-> IF s \in ToSet(u.list) \cap RxStream
                                              THEN [amStr[s] EXCEPT !.association = make_association(u.list, s)]
                                              ELSE amStr[s]]
                       ELSE amStr
    /\ amCycle' \in Phases

\* amdtp_stream_start() for the next stream of the list, or its failure, upon which those
\* that run are stopped.
amdtp_stream_start ==
    /\ amDom.op = "starting" /\ amDom.flush = 0
    /\ LET s == amDom.list[amDom.started + 1] IN
       \/ /\ amStr' = [amStr EXCEPT ![s] = [NoStream EXCEPT !.run = TRUE, !.association = amStr[s].association]]
          /\ amDom' = [amDom EXCEPT !.started = @ + 1,
                                    !.op = IF amDom.started + 1 = Len(amDom.list) THEN "waiting" ELSE @]
       \/ /\ amStr' = [t \in Stream |-> NoStream]
          /\ amDom' = [amDom EXCEPT !.op = "failed"]
    /\ UNCHANGED amCycle

\* amdtp_domain_wait_ready() sees all streams ready, or gives up.
amdtp_domain_wait_ready ==
    /\ amDom.op = "waiting"
    /\ amDom' = [amDom EXCEPT !.op = IF \A s \in Listed : amStr[s].ready THEN "run" ELSE "failed"]
    /\ UNCHANGED <<amCycle, amStr>>

\* amdtp_domain_stop(), with amdtp_stream_stop() for all streams.  A stream keeps its
\* packet_index and event_starts, which only callbacks during the next start could see.
amdtp_domain_stop ==
    /\ amDom.op \in {"run", "failed"} /\ amDom.flush = 0
    /\ amDom' = NoDomain
    /\ amStr' = [s \in Stream |-> NoStream]
    /\ amCycle' = 0

-----------------------------------------------------------------------------
(* The bus and the device.                                                  *)

\* Context s gets the packet of this cycle: p is what the device sends.
Gets(s, p) == [amStr[s] EXCEPT !.pend = Append(@, p)]

Arrives(s) ==
    IF ~amStr[s].run \/ amStr[s].err \/ amStr[s].dev = "off" THEN amStr[s]
    ELSE Gets(s, [at |-> amCycle, ev |-> amStr[s].dev = "data", ok |-> TRUE])

\* The next cycle: every context that runs has one more packet.  The device may skip a
\* cycle or send a packet with a bad header.  Time waits for the callbacks.
Cycle ==
    /\ amDom.op \in {"starting", "waiting", "run"} /\ amDom.started > 0 /\ amDom.flush = 0
    /\ IF amDom.op = "starting" THEN amDom.spread < StartSpread
       ELSE amDom.spread < StartSpread \/ \A s \in Listed \cap RxStream : amStr[s].dev = "on"
    /\ amStr[Target].run => ~amStr[Target].err /\ Len(amStr[Target].pend) < MaxLate
    /\ amCycle' = (amCycle + 1) % Wrap
    /\ LET spread == IF amDom.spread < StartSpread THEN amDom.spread + 1 ELSE amDom.spread IN
       \/ /\ amStr' = [s \in Stream |-> Arrives(s)]
          /\ amDom' = [amDom EXCEPT !.spread = spread]
       \/ \E s \in Listed \cap TxStream :
             /\ amStr[s].run /\ amStr[s].dev # "off" /\ ~amStr[s].err
             /\ amDom.faults < MaxFault
             /\ amDom' = [amDom EXCEPT !.spread = spread, !.faults = @ + 1]
             /\ \/ amStr' = [[t \in Stream |-> Arrives(t)] EXCEPT ![s] = [amStr[s] EXCEPT !.gapped = amStr[s].cb # "process"]]
                \/ amStr' = [[t \in Stream |-> Arrives(t)] EXCEPT ![s] =
                                Gets(s, [at |-> amCycle, ev |-> FALSE, ok |-> FALSE])]

\* A transmit context begins; the device transmits, first empty packets.
OtherSide(s) ==
    /\ amStr[s].run
    /\ \/ s \in RxStream /\ amStr[s].dev = "off" /\ amStr' = [amStr EXCEPT ![s].dev = "on"]
       \/ s \in TxStream /\ amStr[s].dev = "off" /\ amStr' = [amStr EXCEPT ![s].dev = "empty"]
       \/ s \in TxStream /\ amStr[s].dev = "empty" /\ amStr' = [amStr EXCEPT ![s].dev = "data"]
    /\ UNCHANGED <<amCycle, amDom>>

AmdtpDomainNext ==
    \/ \E u \in Setups : amdtp_domain_start(u)
    \/ amdtp_stream_start \/ amdtp_domain_wait_ready \/ amdtp_domain_stop
    \/ irq_target_callback \/ process_ctxs_in_domain \/ Cycle
    \/ \E s \in Stream : OtherSide(s)

\* The bus has a cycle master, interrupts are served, the driver's start goes on, and the
\* device begins to transmit.
AmdtpDomainFairness ==
    /\ WF_amvars(Cycle) /\ WF_amvars(irq_target_callback \/ process_ctxs_in_domain) /\ WF_amvars(amdtp_stream_start)
    /\ \A s \in Stream : WF_amvars(OtherSide(s))

AmdtpDomainSpec == AmdtpDomainInit /\ [][AmdtpDomainNext]_amvars /\ AmdtpDomainFairness

-----------------------------------------------------------------------------
(* The streams of a domain keep step (amdtp-stream.c:1262-1652): each one   *)
(* processes its first packet in the cycle that was agreed for its          *)
(* direction, unless the device skipped a cycle or the start met the wrap   *)
(* of the cycle count, across which compare_ohci_cycle_count() orders in    *)
(* one direction only.  With                                                *)
(* sequence replay every transmitted packet repeats the sequence of a       *)
(* packet that arrived, a constant number of cycles later, never an entry   *)
(* not yet written or already overwritten.                                  *)
StreamsKeepStep ==
    /\ AmdtpDomainTypeOK
    /\ \A s \in Listed :
          /\ amStr[s].apart => amDom.split
          /\ amDom.faults = 0 => ~amStr[s].misread

(* A domain that started gets ready, or an error of one stream is seen      *)
(* (amdtp-stream.h:358, amdtp-stream.c:1442-1631), once the device sends    *)
(* events in all of its streams.                                            *)
DomainGetsReady ==
    (amDom.op = "waiting") ~>
        \/ amDom.op # "waiting"
        \/ \A s \in Listed : amStr[s].ready
        \/ \E s \in Listed : amStr[s].err
=============================================================================
