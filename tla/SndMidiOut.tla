----------------------------- MODULE SndMidiOut -----------------------------
(* MIDI output by asynchronous transactions: the ports of the RME Fireface   *)
(* (two message formats), the TASCAM and the Stanton SCS.1x drivers.  Each   *)
(* has a work item that peeks at the bytes the application wrote, packs one  *)
(* write request from them and takes them away when the request has been     *)
(* answered.  A byte is its class: "s1", "s2", "s3" a status byte of a       *)
(* message of that length, "d" data, "f0" and "f7" the ends of a system      *)
(* exclusive message, "esc" the seven bytes of sysex_escape_prefix.          *)
EXTENDS Integers, Sequences, SequencesExt

CONSTANTS
    Texts,          \* what an application may write: sequences of bytes
    MidiMaxFail,    \* bound: requests that fail without being answered
    MidiMaxOpen,    \* bound: times the port is opened
    FormerQuads,    \* SND_FF_MAXIMIM_MIDI_QUADS
    ScsPacket       \* HSS1394_MAX_PACKET_SIZE

VARIABLES
    mkind,      \* the driver that owns the port; "none" before the card is there
    mopen,      \* the port is open
    msub,       \* the driver's substream pointer is set
    mtext,      \* what the application has to say
    mwrit,      \* number of its bytes in the rawmidi buffer so far
    macked,     \* number of bytes taken from that buffer
    mwork,      \* the work item is scheduled
    mfly,       \* the request on its way: the bytes it carries, and whether the port was closed since
    mst,        \* the fields of the port in the driver
    mgot,       \* the last byte the device has got
    mfail, mopens, \* the bounded counters
    mghost      \* what has gone wrong and is not repaired (section 7 of the README)

mvars == <<mkind, mopen, msub, mtext, mwrit, macked, mwork, mfly, mst, mgot, mfail, mopens, mghost>>

Kinds == {"former", "latter", "tascam", "scs1x"}

NoMidi == [from |-> 0, to |-> 0, here |-> FALSE]

MidiOnBus(from, to) == [from |-> from, to |-> to, here |-> TRUE]

\* busy: !idling, rx_bytes > 0 or transaction_running; n: consume_bytes, rx_bytes or transaction_bytes;
\* run: running_status or output_status; i, esc, high: output_bytes and the two escape flags
Fresh == [busy |-> FALSE, err |-> FALSE, sysex |-> FALSE, run |-> "none", n |-> 0,
          idle |-> TRUE, i |-> 1, esc |-> FALSE, high |-> FALSE]

SndMidiInit ==
    /\ mkind = "none" /\ mopen = FALSE /\ msub = FALSE /\ mtext = <<>>
    /\ mwrit = 0 /\ macked = 0 /\ mwork = FALSE
    /\ mfly = NoMidi /\ mst = Fresh /\ mgot = 0 /\ mfail = 0 /\ mopens = 0 /\ mghost = "none"

\* the card's driver registers its address and its ports
PortAppears ==
    /\ mkind = "none"
    /\ \E k \in Kinds : mkind' = k
    /\ UNCHANGED <<mopen, msub, mtext, mwrit, macked, mwork, mfly, mst, mgot, mfail, mopens, mghost>>

\* What follows is memory the code no longer controls: the behaviour ends here.
Undefined(what) ==
    /\ mghost' = what
    /\ mopen' = FALSE /\ msub' = FALSE /\ mtext' = <<>> /\ mwrit' = 0 /\ macked' = 0 /\ mwork' = FALSE
    /\ mfly' = NoMidi /\ mst' = Fresh /\ mgot' = 0
    /\ UNCHANGED <<mkind, mfail, mopens>>

Peek(k) == SubSeq(mtext, macked + 1, IF macked + k < mwrit THEN macked + k ELSE mwrit)

\* calculate_message_bytes(): negative for what is no status byte
calculate_message_bytes(b) ==
    CASE b = "s1" -> 1 [] b = "s2" -> 2 [] b = "s3" -> 3 [] b = "f0" -> 0 [] OTHER -> -1

----------------------------------------------------------------------------
(* RME Fireface *)

former_fill_midi_msg ==
    [n |-> Len(Peek(FormerQuads)), sysex |-> mst.sysex]

\* the packet keeps all bytes it peeked at, even those after the message
latter_fill_midi_msg ==
    LET p == Peek(3)
        c == Len(p)
        endInside == \E k \in 2 .. c : p[k] = "f7"
    IN  IF ~ mst.sysex
        THEN IF p[1] # "f0" /\ c < calculate_message_bytes(p[1])
             THEN [n |-> 0, sysex |-> FALSE]
             ELSE [n |-> c, sysex |-> p[1] = "f0"]
        ELSE IF p[1] = "f7"
             THEN [n |-> 1, sysex |-> FALSE]
             ELSE [n |-> IF endInside THEN c - 1 ELSE c, sysex |-> TRUE]

\* The interval to the next message only delays: the work schedules itself again until it is over.
FfIdle == macked = mwrit \/ ~ msub \/ mst.n > 0 \/ mst.err

transmit_midi_msg ==
    /\ mwork' = FALSE
    /\ IF FfIdle
       THEN UNCHANGED <<mfly, mst>>
       ELSE LET f == IF mkind = "former" THEN former_fill_midi_msg ELSE latter_fill_midi_msg
            IN  IF f.n = 0
                THEN UNCHANGED <<mfly, mst>>
                ELSE /\ mfly' = MidiOnBus(macked + 1, macked + f.n)
                     /\ mst' = [mst EXCEPT !.n = f.n, !.sysex = f.sysex]
    /\ UNCHANGED <<macked, mghost>>

\* rx_bytes stays set when the message is to be sent again, which keeps the work from sending it;
\* opening the port again does not clear it either
finish_transmit_midi_msg(rcode) ==
    /\ mst' = CASE rcode = "permanent" -> [mst EXCEPT !.err = TRUE]
                [] rcode = "complete" -> [mst EXCEPT !.n = 0]
                [] OTHER -> mst
    /\ macked' = IF rcode = "complete" THEN macked + mst.n ELSE macked
    /\ mwork' = (mwork \/ rcode = "transient" \/ (rcode = "complete" /\ macked' < mwrit))
    /\ mghost' = CASE rcode = "transient" -> "not sent again"
                   [] rcode = "permanent" -> "bytes kept"
                   [] OTHER -> mghost

----------------------------------------------------------------------------
(* TASCAM *)

\* the index of the first f7, or 0
FindEnd(p) == LET S == {k \in 1 .. Len(p) : p[k] = "f7"}
              IN  IF S = {} THEN 0 ELSE CHOOSE k \in S : \A j \in S : k <= j

\* on_sysex is cleared as soon as the end is packed, before anyone knows it arrived
fill_message ==
    LET p == Peek(3)
        c == Len(p)
        running == p[1] = "d"
        status == IF running THEN mst.run ELSE p[1]
        len == calculate_message_bytes(status)
        need == IF running THEN len - 1 ELSE len
        packed(n, sysex, run) == [n |-> n, sysex |-> sysex, run |-> run]
    IN  CASE mst.sysex /\ FindEnd(p) > 0 -> packed(FindEnd(p), FALSE, mst.run)
          [] mst.sysex /\ FindEnd(p) = 0 -> packed(IF c = 3 THEN 3 ELSE 0, TRUE, mst.run)
          [] ~ mst.sysex /\ p[1] = "f0" -> packed(0, TRUE, mst.run)
          [] OTHER -> IF len <= 0 \/ c < need THEN packed(0, FALSE, mst.run)
                      ELSE packed(need, FALSE, status)

midi_port_work ==
    IF mst.busy \/ mst.err \/ ~ msub \/ macked = mwrit
    THEN /\ mwork' = FALSE
         /\ UNCHANGED <<mfly, mst, macked, mghost>>
    ELSE \E f \in {fill_message} :
         /\ mwork' = (f.n = 0)
         /\ mst' = [mst EXCEPT !.n = f.n, !.sysex = f.sysex, !.run = f.run, !.busy = f.n > 0]
         /\ mfly' = IF f.n > 0 THEN MidiOnBus(macked + 1, macked + f.n) ELSE mfly
         /\ UNCHANGED <<macked, mghost>>

\* Mutant: the bytes are taken whatever the answer was
TakenAnyway(rcode) ==
    IF ~ msub
    THEN UNCHANGED <<macked, mst, mwork, mghost>>
    ELSE /\ macked' = macked + mst.n
         /\ mst' = [mst EXCEPT !.busy = FALSE, !.err = @ \/ rcode = "permanent"]
         /\ mwork' = (mwork \/ macked' < mwrit)
         /\ UNCHANGED mghost

\* a closed port ignores the answer
async_midi_port_callback(rcode) ==
    IF ~ msub
    THEN UNCHANGED <<macked, mst, mwork, mghost>>
    ELSE /\ macked' = IF rcode = "complete" THEN macked + mst.n ELSE macked
         /\ mst' = [mst EXCEPT !.busy = FALSE, !.err = @ \/ rcode = "permanent"]
         /\ mwork' = (mwork \/ macked' < mwrit)
         /\ mghost' = IF rcode = "transient" /\ mtext[macked + mst.n] = "f7" /\ mtext[macked + 1] # "f0"
                      THEN "end forgotten" ELSE mghost

----------------------------------------------------------------------------
(* Stanton SCS.1x *)

\* one turn of the loop in scs_output_work(): s.done when a whole message is in the buffer
ScsByte(s, b) ==
    LET next == [s EXCEPT !.used = @ + 1]
        atData == IF s.i = 1 THEN 3 ELSE s.i + 1
    IN  CASE s.done -> s
          [] ~ s.done /\ b = "d" /\ s.esc ->
               IF s.high THEN [next EXCEPT !.high = s.i >= ScsPacket]
               ELSE [next EXCEPT !.i = @ + 1, !.high = TRUE]
          [] ~ s.done /\ b = "d" /\ ~ s.esc ->
               IF s.i = 1 /\ s.run \notin {"s2", "s3"} THEN next
               ELSE LET whole == \/ atData = 3 /\ s.run = "s2"
                                 \/ atData = 4 /\ s.run = "s3"
                    IN  [next EXCEPT !.i = IF ~ whole /\ atData >= ScsPacket THEN 1 ELSE atData,
                                     !.done = whole]
          [] ~ s.done /\ b = "f7" ->
               IF (s.esc /\ s.i >= 1 /\ s.high) \/ (~ s.esc /\ s.i > 1 /\ s.run = "f0")
               THEN [next EXCEPT !.done = TRUE]
               ELSE [next EXCEPT !.i = 1, !.esc = FALSE]
          [] ~ s.done /\ b = "esc" ->
               [next EXCEPT !.i = 0, !.run = "f0", !.esc = TRUE, !.high = TRUE]
          [] OTHER -> [next EXCEPT !.i = 2, !.run = b, !.esc = FALSE, !.done = b = "s1"]

scs_output_work ==
    /\ mwork' = FALSE
    /\ UNCHANGED mghost
    /\ \/ /\ mst.busy
          /\ UNCHANGED <<mfly, mst, macked>>
       \/ /\ ~ mst.busy
          /\ ~ msub \/ mst.err
          /\ mst' = [mst EXCEPT !.idle = TRUE]
          /\ UNCHANGED <<mfly, macked>>
       \/ /\ ~ mst.busy /\ msub /\ ~ mst.err /\ mst.n > 0
          /\ mst' = [mst EXCEPT !.busy = TRUE]
          /\ mfly' = MidiOnBus(macked + 1 - mst.n, macked)
          /\ UNCHANGED macked
       \/ /\ ~ mst.busy /\ msub /\ ~ mst.err /\ mst.n = 0
          /\ \E s \in {FoldLeft(LAMBDA t, b : CHOOSE r \in {ScsByte(u, b) : u \in {t}} : TRUE,
                                [i |-> mst.i, run |-> mst.run, esc |-> mst.esc, high |-> mst.high,
                                 used |-> 0, done |-> FALSE],
                                Peek(mwrit))} :
             /\ macked' = macked + s.used
             /\ IF s.done
                THEN /\ mst' = [mst EXCEPT !.run = s.run, !.i = 1, !.esc = FALSE, !.high = s.high,
                                           !.n = s.used, !.busy = TRUE]
                     /\ mfly' = MidiOnBus(macked + 1, macked + s.used)
                ELSE /\ mst' = [mst EXCEPT !.run = s.run, !.i = s.i, !.esc = s.esc, !.high = s.high,
                                           !.idle = TRUE]
                     /\ UNCHANGED mfly

scs_write_callback(rcode) ==
    /\ mst' = [mst EXCEPT !.busy = FALSE,
                          !.n = IF rcode = "complete" THEN 0 ELSE @,
                          !.err = @ \/ rcode = "permanent"]
    /\ mwork' = TRUE
    /\ UNCHANGED <<macked, mghost>>

----------------------------------------------------------------------------
(* The ports' operations, called by the rawmidi core *)

ff_playback_open == [mst EXCEPT !.sysex = FALSE, !.err = FALSE]

\* the port starts from nothing even while a request is on its way
snd_fw_async_midi_port_init == [mst EXCEPT !.busy = FALSE, !.err = FALSE, !.run = "none", !.sysex = FALSE]

MidiPlaybackOpen ==
    /\ mkind # "none" /\ mghost = "none" /\ ~ mopen /\ mopens < MidiMaxOpen
    /\ mopens' = mopens + 1
    /\ mopen' = TRUE
    /\ msub' = (mkind \in {"former", "latter"})
    /\ \E t \in Texts : /\ Contains(t, "esc") => mkind = "scs1x"
                        /\ mtext' = t
    /\ mwrit' = 0 /\ macked' = 0 /\ mgot' = 0
    /\ mst' = CASE mkind \in {"former", "latter"} -> ff_playback_open
                [] mkind = "tascam" -> snd_fw_async_midi_port_init
                [] OTHER -> mst
    /\ UNCHANGED <<mkind, mwork, mfly, mfail, mghost>>

\* the rest of the text begins with data that relies on the status byte before
RunningNext == mst.run # "none" /\ macked < Len(mtext) /\ mtext[macked + 1] = "d"

ff_playback_trigger ==
    /\ mwork' = TRUE
    /\ UNCHANGED <<msub, mst, mghost>>

tascam_playback_trigger ==
    /\ msub' = (msub \/ ~ mst.err)
    /\ mwork' = (mwork \/ ~ mst.err)
    /\ UNCHANGED <<mst, mghost>>

\* forgets the message it was collecting or trying again
scs_playback_trigger ==
    /\ msub' = TRUE
    /\ mwork' = TRUE
    /\ mst' = [mst EXCEPT !.run = "none", !.i = 1, !.esc = FALSE, !.idle = FALSE, !.n = 0, !.err = FALSE]
    /\ mghost' = IF mst.n > 0 \/ mst.i # 1 \/ mst.esc \/ RunningNext THEN "message cut" ELSE mghost

\* every write of the application triggers the port
MidiPlaybackTrigger ==
    /\ mopen /\ mwrit < Len(mtext)
    /\ \E k \in (mwrit + 1) .. Len(mtext) : mwrit' = k
    /\ \/ mkind \in {"former", "latter"} /\ ff_playback_trigger
       \/ mkind = "tascam" /\ tascam_playback_trigger
       \/ mkind = "scs1x" /\ scs_playback_trigger
    /\ UNCHANGED <<mkind, mopen, mtext, macked, mfly, mgot, mfail, mopens>>

ff_playback_close == mwork' = FALSE /\ UNCHANGED mst

snd_fw_async_midi_port_finish == mwork' = FALSE /\ mst' = [mst EXCEPT !.err = FALSE]

scs_playback_drain == mst.idle /\ UNCHANGED <<mwork, mst>>

\* Draining ends when the buffer is empty or after a timeout; then the port is shut
\* and nobody waits for the request on its way.
MidiPlaybackClose ==
    /\ mopen
    /\ \/ mkind \in {"former", "latter"} /\ ff_playback_close
       \/ mkind = "tascam" /\ snd_fw_async_midi_port_finish
       \/ mkind = "scs1x" /\ scs_playback_drain
    /\ mopen' = FALSE /\ msub' = FALSE
    /\ mtext' = <<>> /\ mwrit' = 0 /\ macked' = 0 /\ mgot' = 0
    /\ mghost' = IF mghost \in {"not sent again", "bytes kept"} THEN mghost ELSE "none"
    /\ mfly' = [mfly EXCEPT !.here = FALSE]
    /\ UNCHANGED <<mkind, mfail, mopens>>

\* a work item whose request is still on its way would use the same fw_transaction again
MidiWork ==
    /\ mwork
    /\ \/ /\ mkind \in {"former", "latter"}
          /\ transmit_midi_msg
          /\ UNCHANGED <<mkind, mopen, msub, mtext, mwrit, mgot, mfail, mopens>>
       \/ /\ mkind = "tascam"
          /\ mfly = NoMidi \/ mst.busy
          /\ midi_port_work
          /\ UNCHANGED <<mkind, mopen, msub, mtext, mwrit, mgot, mfail, mopens>>
       \/ /\ mkind = "tascam" /\ mfly # NoMidi /\ ~ mst.busy
          /\ Undefined("request used twice")
       \/ /\ mkind = "scs1x"
          /\ scs_output_work
          /\ UNCHANGED <<mkind, mopen, msub, mtext, mwrit, mgot, mfail, mopens>>

\* the request's callback; a request that got no answer may have reached the device all the same
RequestEnds ==
    /\ mfly # NoMidi
    /\ \E rcode \in {"complete", "transient", "permanent"}, arrived \in BOOLEAN :
       /\ rcode = "complete" => arrived
       /\ rcode = "permanent" => ~ arrived
       /\ rcode # "complete" => mfail < MidiMaxFail
       /\ IF ~ mfly.here /\ (\/ mkind \in {"former", "latter"} /\ rcode = "complete"
                             \/ mkind = "tascam" /\ msub)
          THEN Undefined("answer for a closed port")
          ELSE /\ mfly' = NoMidi
               /\ mfail' = IF rcode = "complete" THEN mfail ELSE mfail + 1
               /\ mgot' = IF arrived /\ mfly.here THEN mfly.to ELSE mgot
               /\ CASE mkind \in {"former", "latter"} -> finish_transmit_midi_msg(rcode)
                    [] mkind = "tascam" -> async_midi_port_callback(rcode)
                    [] mkind = "scs1x" -> scs_write_callback(rcode)
               /\ UNCHANGED <<mkind, mopen, msub, mtext, mwrit, mopens>>

SndMidiNext == PortAppears \/ MidiPlaybackOpen \/ MidiPlaybackTrigger \/ MidiPlaybackClose \/ MidiWork \/ RequestEnds

SndMidiFairness == WF_mvars(MidiWork) /\ WF_mvars(RequestEnds)

SndMidiSpec == SndMidiInit /\ [][SndMidiNext]_mvars /\ SndMidiFairness

----------------------------------------------------------------------------
MidiTypeOK ==
    /\ mkind \in Kinds \cup {"none"} /\ mopen \in BOOLEAN /\ msub \in BOOLEAN /\ mwork \in BOOLEAN
    /\ macked \in 0 .. Len(mtext) /\ mwrit \in macked .. Len(mtext) /\ mgot \in 0 .. Len(mtext)
    /\ mst.n \in 0 .. 9 /\ mst.i \in 0 .. (ScsPacket + 1)
    /\ mfly.from \in Nat /\ mfly.to \in Nat /\ mfly.here \in BOOLEAN

\* one write request to a TASCAM or SCS.1x device holds bytes of one message only
OneMessage(from, to) ==
    /\ \A k \in (from + 1) .. to : mtext[k] \in {"d", "f7"}
    /\ \A k \in from .. (to - 1) : mtext[k] # "f7"

(* The device gets the application's bytes in order, none left out and none    *)
(* twice unless a request failed without an answer; requests for the devices   *)
(* that take whole messages are not mixed from two of them (async_midi_port_   *)
(* callback(), finish_transmit_midi_msg() and scs_write_callback() against     *)
(* snd_rawmidi_transmit_peek() and _ack() in the work).                        *)
MidiInOrder ==
    /\ MidiTypeOK
    /\ mfly.here =>
        /\ mkind # "scs1x" => mfly.from <= mgot + 1
        /\ mfail = 0 => mfly.from > mgot
        /\ mkind \in {"tascam", "scs1x"} /\ mghost = "none" => OneMessage(mfly.from, mfly.to)

(* Once the application has written its last message, every byte is taken or   *)
(* the port reports an error, is closed, or has met one of the cases in mghost *)
(* (midi_port_work(), transmit_midi_msg() and scs_output_work() go on by       *)
(* themselves).                                                                *)
MidiDelivered ==
    (mopen /\ mwrit = Len(mtext) /\ ~ mst.err)
        ~> (macked = mwrit \/ mst.err \/ ~ mopen \/ mghost # "none")

(* "Transfer the message again, immediately." (ff-transaction.c:20): a message *)
(* to a Fireface whose request got no answer is sent again.                    *)
MidiTransferredAgain ==
    (mkind \in {"former", "latter"} /\ mopen /\ ~ mst.err /\ mst.n > 0 /\ mfly = NoMidi)
        ~> (mfly # NoMidi \/ ~ mopen \/ mst.err)
=============================================================================
