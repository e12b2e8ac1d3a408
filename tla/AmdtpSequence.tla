---------------------------- MODULE AmdtpSequence ----------------------------
(***************************************************************************)
(* The arithmetic of an AMDTP packet stream (sound/firewire/amdtp-stream.c, *)
(* amdtp-am824.c): how many data blocks each packet has, the presentation   *)
(* time in its SYT field, the data block counter, and the rate of MIDI      *)
(* bytes.  One stream sends a packet per cycle with the nominal sequence,   *)
(* and a receiver with the same flags parses it.  Rates, ticks and phases   *)
(* are those of the code.                                                   *)
(***************************************************************************)
EXTENDS Integers

CONSTANT SeqMax     \* bound: cycles of a stream; the sequence for 44100 Hz repeats after 640

ASSUME SeqAssumption == SeqMax \in Nat

VARIABLE aseq       \* the stream

TICKS_PER_CYCLE == 3072
TRANSFER_DELAY_TICKS == 11776
MIDI_BYTES_PER_SECOND == 3093
CIP_SYT_NO_INFO == 65535

\* amdtp_rate_table and amdtp_syt_intervals, by enum cip_sfc
amdtp_rate_table == [sfc \in 0 .. 6 |->
    CASE sfc = 0 -> 32000 [] sfc = 1 -> 44100 [] sfc = 2 -> 48000 [] sfc = 3 -> 88200
      [] sfc = 4 -> 96000 [] sfc = 5 -> 176400 [] sfc = 6 -> 192000]
amdtp_syt_intervals == [sfc \in 0 .. 6 |-> IF sfc <= 2 THEN 8 ELSE IF sfc <= 4 THEN 16 ELSE 32]

cip_sfc_is_base_44100(sfc) == sfc % 2 = 1

\* Shift to the right.
Half(n, k) == n \div 2 ^ k

NotSent == [on |-> FALSE]
AmdtpSequenceInit == aseq = NotSent
-----------------------------------------------------------------------------
\* amdtp_stream_set_parameters()
transfer_delay(sfc, blocking) ==
    TRANSFER_DELAY_TICKS - TICKS_PER_CYCLE
      + IF blocking THEN (24576000 * amdtp_syt_intervals[sfc]) \div amdtp_rate_table[sfc] ELSE 0

\* The first states of the sequences, set by amdtp_stream_start().
initial_data_block(sfc) == IF cip_sfc_is_base_44100(sfc) THEN 0 ELSE amdtp_rate_table[sfc] \div 8000
initial_syt_offset(sfc) ==
    IF cip_sfc_is_base_44100(sfc) THEN 67 ELSE IF sfc = 0 THEN 3072 ELSE 1024

\* A stream starts: blocking or not, with the counter of the first or of the last data
\* block (CIP_DBC_IS_END_EVENT), at some cycle; the receiver has seen no packet.
SequenceStarts(sfc, blocking, end, cycle) ==
    /\ aseq = NotSent
    /\ aseq' = [on |-> TRUE, sfc |-> sfc, blocking |-> blocking, end |-> end, n |-> 0,
                cycle |-> cycle, blockState |-> initial_data_block(sfc), last |-> TICKS_PER_CYCLE,
                sytState |-> initial_syt_offset(sfc), dbc |-> 0, rxDbc |-> -1,
                total |-> 0, stamps |-> 0, drift |-> 0, accepted |-> TRUE,
                used |-> 0, fifo |-> 0, peak |-> 0]

\* pool_ideal_nonblocking_data_blocks(), for one packet.  ^ of two bits.
pool_ideal_nonblocking_data_blocks(a) ==
    LET phase == a.blockState
        early == phase = 0 \/ phase >= 40
    IN  IF ~cip_sfc_is_base_44100(a.sfc) THEN [blocks |-> a.blockState, state |-> a.blockState]
        ELSE [blocks |-> IF a.sfc = 1
                         THEN 5 + (IF (phase % 2 = 1) # early THEN 1 ELSE 0)
                         ELSE 11 * Half(a.sfc, 1) + (IF phase = 0 THEN 1 ELSE 0),
              state |-> IF phase + 1 >= Half(80, Half(a.sfc, 1)) THEN 0 ELSE phase + 1]

\* Mutant: the extra tick at the end of the sequence is missing.
NoLastTick(last, state, sfc) ==
    LET index == state % 13
        offset == IF last >= TICKS_PER_CYCLE THEN last - TICKS_PER_CYCLE
                  ELSE IF ~cip_sfc_is_base_44100(sfc) THEN last + state
                  ELSE last + 1386 + (IF index # 0 /\ index % 4 = 0 THEN 1 ELSE 0)
    IN  [last |-> offset,
         state |-> IF last < TICKS_PER_CYCLE /\ cip_sfc_is_base_44100(sfc)
                   THEN (IF state + 1 >= 147 THEN 0 ELSE state + 1) ELSE state,
         syt |-> IF offset >= TICKS_PER_CYCLE THEN CIP_SYT_NO_INFO ELSE offset]

\* calculate_syt_offset(), for one packet.
calculate_syt_offset(last, state, sfc) ==
    LET index == state % 13
        offset == IF last >= TICKS_PER_CYCLE THEN last - TICKS_PER_CYCLE
                  ELSE IF ~cip_sfc_is_base_44100(sfc) THEN last + state
                  ELSE last + 1386 + (IF (index # 0 /\ index % 4 = 0) \/ state = 146 THEN 1 ELSE 0)
    IN  [last |-> offset,
         state |-> IF last < TICKS_PER_CYCLE /\ cip_sfc_is_base_44100(sfc)
                   THEN (IF state + 1 >= 147 THEN 0 ELSE state + 1) ELSE state,
         syt |-> IF offset >= TICKS_PER_CYCLE THEN CIP_SYT_NO_INFO ELSE offset]

\* compute_syt() at the sender and compute_syt_offset() at the receiver.
compute_syt(offset, cycle, delay) ==
    ((cycle + (offset + delay) \div TICKS_PER_CYCLE) % 16) * 4096 + ((offset + delay) % TICKS_PER_CYCLE)

compute_syt_offset(syt, cycle, delay) ==
    LET lo == (cycle % 8000) % 16
        sytLo == Half(syt, 12)
        up == IF sytLo < lo THEN sytLo + 16 ELSE sytLo
        offset == (up - lo) * TICKS_PER_CYCLE + (syt % 4096)
    IN  (IF offset < delay THEN offset + 16 * TICKS_PER_CYCLE ELSE offset) - delay

\* check_cip_header(): the counter of the packet continues the last one.  The receiver's
\* counter afterwards, as generate_tx_packet_descs() keeps it; -1 is UINT_MAX.
check_cip_header(a, dbc, blocks) ==
    [lost |-> /\ a.rxDbc # -1
              /\ IF a.end THEN dbc # (a.rxDbc + blocks) % 256 ELSE dbc # a.rxDbc,
     next |-> IF a.end THEN dbc ELSE (dbc + blocks) % 256]

\* write_midi_messages() for one port with bytes to send all the time: does the port have a
\* data block among the first 8, and midi_ratelimit_per_packet() and
\* midi_rate_use_one_byte().
MidiUsed(a, dbc, blocks) ==
    LET rate == amdtp_rate_table[a.sfc]
        drain == MIDI_BYTES_PER_SECOND * amdtp_syt_intervals[a.sfc]
        visited == \E f \in 0 .. 7 : f < blocks /\ (dbc + f) % 8 = 0
        left == IF a.used > drain THEN a.used - drain ELSE 0
        send == a.used = 0 \/ left < rate - drain + 1
    IN  IF ~visited THEN [used |-> a.used, byte |-> 0]
        ELSE IF send THEN [used |-> (IF a.used = 0 THEN 0 ELSE left) + rate, byte |-> 1]
        ELSE [used |-> left, byte |-> 0]

\* generate_rx_packet_descs() for one cycle, and the receiver of the packet.  The ghosts:
\* total data blocks, time stamps sent, how far the last one is from the exact time (in
\* ticks times the base), what a FIFO that sends 3093 bytes per second holds (times 8000).
generate_rx_packet_descs ==
    LET a == aseq
        s == calculate_syt_offset(a.last, a.sytState, a.sfc)
        b == pool_ideal_nonblocking_data_blocks(a)
        stamped == s.syt # CIP_SYT_NO_INFO
        interval == amdtp_syt_intervals[a.sfc]
        blocks == IF a.blocking THEN (IF stamped THEN interval ELSE 0) ELSE b.blocks
        dbc == IF a.end THEN (a.dbc + blocks) % 256 ELSE a.dbc
        cycle == (a.cycle + a.n) % 64000
        delay == transfer_delay(a.sfc, a.blocking)
        check == check_cip_header(a, dbc, blocks)
        midi == MidiUsed(a, dbc, blocks)
        drained == IF a.fifo > MIDI_BYTES_PER_SECOND THEN a.fifo - MIDI_BYTES_PER_SECOND ELSE 0
    IN
    /\ a.on /\ a.n < SeqMax
    /\ aseq' = [a EXCEPT !.n = @ + 1, !.blockState = IF a.blocking THEN @ ELSE b.state,
                         !.last = s.last, !.sytState = s.state,
                         !.dbc = (a.dbc + blocks) % 256, !.rxDbc = check.next,
                         !.total = @ + blocks, !.stamps = IF stamped THEN @ + 1 ELSE @,
                         !.drift = IF stamped
                                   THEN 147 * (a.n * TICKS_PER_CYCLE + s.syt)
                                        - a.stamps * (interval * (36126720 \div (amdtp_rate_table[a.sfc] \div 100)))
                                   ELSE @,
                         !.accepted = /\ @ /\ ~check.lost
                                      /\ stamped => compute_syt_offset(
                                            compute_syt(s.syt, cycle, delay), cycle, delay) = s.syt,
                         !.used = midi.used,
                         !.fifo = drained + 8000 * midi.byte,
                         !.peak = IF drained + 8000 * midi.byte > @ THEN drained + 8000 * midi.byte
                                  ELSE @]

SequenceStops == aseq.on /\ aseq' = NotSent

AmdtpSequenceNext ==
    \/ \E sfc \in 0 .. 6, blocking \in BOOLEAN, end \in BOOLEAN, cycle \in {0, 63990} :
          SequenceStarts(sfc, blocking, end, cycle)
    \/ generate_rx_packet_descs \/ SequenceStops

AmdtpSequenceSpec == AmdtpSequenceInit /\ [][AmdtpSequenceNext]_aseq

-----------------------------------------------------------------------------
(* The sequence of packets is exact (amdtp-stream.c:368-488, 714-811,       *)
(* 1004-1058; am824.c:259-312).  Without blocking, n packets have the       *)
(* number of data blocks of n cycles, rounded up ("as early as possible").  *)
(* Every time stamp is less than a tick from the time of its sample, over   *)
(* the whole period of the sequence ("_exactly_ the same sequence").  A     *)
(* receiver accepts each counter and decodes each time stamp to the offset  *)
(* that the sender encoded.  MIDI bytes never overflow a FIFO of two bytes, *)
(* in blocking mode, for which the limit was computed.                      *)
SequenceExact ==
    aseq.on =>
        LET rate == amdtp_rate_table[aseq.sfc] IN
        /\ aseq.total = IF aseq.blocking THEN aseq.stamps * amdtp_syt_intervals[aseq.sfc]
                        ELSE (aseq.n * rate + 7999) \div 8000
        /\ aseq.drift \in -147 .. 147
        /\ aseq.accepted
        /\ aseq.blocking => aseq.peak <= 2 * 8000
=============================================================================
