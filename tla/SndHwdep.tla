------------------------------ MODULE SndHwdep ------------------------------
(***************************************************************************)
(* The hwdep character device of the audio drivers: how user land locks    *)
(* the streams, and how it learns that the kernel has locked them and what *)
(* the unit has sent.  The drivers differ in how they keep what the unit   *)
(* sends: bebob and oxfw keep nothing, dice gathers bits, dg00x and motu   *)
(* keep the last message, and efw, ff400, tascam and motu's register DSP   *)
(* models have a ring with a push and a pull position.                     *)
(*                                                                         *)
(* What the unit sends is numbered 1, 2, ...; one application reads.       *)
(***************************************************************************)
EXTENDS Integers, Sequences

CONSTANTS HwKinds,       \* the drivers to look at
          HwQueue,       \* size of the rings
          HwMaxEvents,   \* bound: messages of the unit
          HwMaxLock,     \* bound: substreams opened and closed
          HwRooms        \* room for messages in the application's buffers

ASSUME HwAssumption ==
  /\ HwQueue \in Nat \ {0} /\ HwMaxEvents \in Nat /\ HwMaxLock \in Nat /\ HwRooms \subseteq Nat

VARIABLES hw,    \* the driver's state
          rdr,   \* the application in read()
          told   \* ghost: what has been sent and what the application knows

hwdepvars == <<hw, rdr, told>>

Away == [pc |-> "away", room |-> 0, odd |-> FALSE, from |-> 0, to |-> 0]

HwInit ==
  /\ hw = [kind |-> "none", count |-> 0, changed |-> FALSE, word |-> {}, wake |-> FALSE,
           ring |-> [i \in 0..HwQueue - 1 |-> 0], push |-> 0, pull |-> 0, opened |-> 0]
  /\ rdr = Away
  /\ told = [sent |-> 0, got |-> 0, over |-> FALSE, wrong |-> FALSE,
             said |-> FALSE, missed |-> FALSE]

HwdepCreate(kind) == hw.kind = "none" /\ hw' = [hw EXCEPT !.kind = kind]
                     /\ UNCHANGED <<rdr, told>>

-----------------------------------------------------------------------------
(* The lock between the drivers' substreams (count > 0) and user land (-1). *)
ReaderAwake == IF rdr.pc = "asleep" THEN [rdr EXCEPT !.pc = "awake"] ELSE rdr

\* A reader between its check and its sleep holds the driver's lock.
LockFree == hw.kind # "none" /\ rdr.pc # "checked"
StreamLockTry ==
  /\ LockFree /\ hw.count >= 0 /\ hw.opened < HwMaxLock
  /\ hw' = [hw EXCEPT !.count = @ + 1, !.opened = @ + 1, !.changed = @ \/ hw.count = 0]
  /\ rdr' = IF hw.count = 0 THEN ReaderAwake ELSE rdr
  /\ UNCHANGED told
\* Mutant: the flag is toggled.
ReleaseToggles ==
  /\ LockFree /\ hw.count > 0
  /\ hw' = [hw EXCEPT !.count = @ - 1, !.changed = IF hw.count = 1 THEN ~@ ELSE @]
  /\ rdr' = IF hw.count = 1 THEN ReaderAwake ELSE rdr
  /\ UNCHANGED told
StreamLockRelease ==
  /\ LockFree /\ hw.count > 0
  /\ hw' = [hw EXCEPT !.count = @ - 1, !.changed = @ \/ hw.count = 1]
  /\ rdr' = IF hw.count = 1 THEN ReaderAwake ELSE rdr
  /\ UNCHANGED told
HwdepLock == LockFree /\ hw.count = 0 /\ hw' = [hw EXCEPT !.count = -1]
             /\ UNCHANGED <<rdr, told>>
\* SNDRV_FIREWIRE_IOCTL_UNLOCK, and the file is closed.
HwdepUnlock == LockFree /\ hw.count = -1 /\ hw' = [hw EXCEPT !.count = 0] /\ UNCHANGED <<rdr, told>>

-----------------------------------------------------------------------------
(* What the unit sends. *)
Next1(p) == (p + 1) % HwQueue
EventLength(n) == 1 + (n % 2)            \* of efw's responses, in units of the ring
Pushed(r, n) == [r EXCEPT !.ring[r.push] = n, !.push = Next1(r.push)]
UnitSends == hw.kind # "none" /\ told.sent < HwMaxEvents
Sent == told.sent + 1

dice_notification ==
  /\ UnitSends /\ hw.kind = "dice"
  /\ hw' = [hw EXCEPT !.word = @ \union {Sent}, !.wake = TRUE]
  /\ told' = [told EXCEPT !.sent = Sent]
  /\ UNCHANGED rdr
\* dg00x and motu: a message that has not been read is replaced.
handle_message ==
  /\ UnitSends /\ hw.kind \in {"dg00x", "motu"}
  /\ hw' = [hw EXCEPT !.word = {Sent}, !.wake = TRUE]
  /\ told' = [told EXCEPT !.sent = Sent, !.over = @ \/ hw.word # {}]
  /\ UNCHANGED rdr
\* The rings of ff400 and tascam are never full.
ff400_handle_msg ==
  /\ UnitSends /\ hw.kind = "ff400"
  /\ hw' = Pushed(hw, Sent) /\ rdr' = ReaderAwake
  /\ told' = [told EXCEPT !.sent = Sent, !.over = @ \/ Next1(hw.push) = hw.pull]
read_status_messages ==
  /\ UnitSends /\ hw.kind = "tascam"
  /\ hw' = [Pushed(hw, Sent) EXCEPT !.wake = TRUE]
  /\ told' = [told EXCEPT !.sent = Sent, !.over = @ \/ Next1(hw.push) = hw.pull]
  /\ UNCHANGED rdr
\* motu's register DSP models: not under the lock that a reader takes.
QueueDspEvent ==
  /\ UnitSends /\ hw.kind = "motu dsp"
  /\ hw' = Pushed(hw, Sent) /\ rdr' = ReaderAwake
  /\ told' = [told EXCEPT !.sent = Sent, !.over = @ \/ Next1(hw.push) = hw.pull,
                          !.missed = @ \/ rdr.pc = "checked"]

Capacity == IF hw.push < hw.pull THEN hw.pull - hw.push ELSE HwQueue - (hw.push - hw.pull)
\* efw refuses what does not fit; what fits exactly makes the ring look empty.
copy_resp_to_buf ==
  /\ UnitSends /\ hw.kind = "efw" /\ Capacity >= EventLength(Sent)
  /\ hw' = IF EventLength(Sent) = 1 THEN Pushed(hw, Sent) ELSE Pushed(Pushed(hw, Sent), Sent)
  /\ rdr' = ReaderAwake
  /\ told' = [told EXCEPT !.sent = Sent, !.over = @ \/ Capacity = EventLength(Sent)]

\* wake_up() after the lock has been released.
WakesUp == hw.wake /\ hw' = [hw EXCEPT !.wake = FALSE] /\ rdr' = ReaderAwake /\ UNCHANGED told

-----------------------------------------------------------------------------
(* read() *)
HasMessage == hw.word # {} \/ hw.push # hw.pull
\* The condition of poll() and of read()'s loop.
hwdep_poll == hw.changed \/ HasMessage

\* The application is given the messages q.
Ascends(q, n) == \A i \in 1..Len(q) : q[i] > (IF i = 1 THEN n ELSE q[i - 1])
Gives(q, over) ==
  IF q = <<>> THEN [told EXCEPT !.over = @ \/ over]
  ELSE [told EXCEPT !.got = q[Len(q)], !.over = @ \/ over,
                    !.wrong = @ \/ ~Ascends(q, told.got)
                                \/ (~told.over /\ q # [i \in 1..Len(q) |-> told.got + i])]

HwdepRead ==
  /\ hw.kind # "none" /\ rdr.pc = "away"
  /\ \E room \in HwRooms, odd \in BOOLEAN :
       rdr' = [Away EXCEPT !.pc = "awake", !.room = room, !.odd = odd /\ hw.kind = "motu dsp"]
  /\ UNCHANGED <<hw, told>>

\* Nothing to read: to sleep; the lock is held until the thread waits.
FallsAsleep ==
  /\ rdr.pc = "awake" /\ ~hwdep_poll
  /\ rdr' = [rdr EXCEPT !.pc = IF hw.kind = "motu dsp" THEN "checked" ELSE "asleep"]
  /\ UNCHANGED <<hw, told>>
PreparesToWait == rdr.pc = "checked" /\ rdr' = [rdr EXCEPT !.pc = "asleep"]
                  /\ UNCHANGED <<hw, told>>

hwdep_read_locked ==
  /\ rdr.pc = "awake" /\ hw.changed /\ hw.kind # "efw"
  /\ hw' = [hw EXCEPT !.changed = FALSE]
  /\ told' = [told EXCEPT !.said = hw.count > 0]
  /\ rdr' = Away
\* efw takes the lock once more to tell what it has found.
efw_hwdep_read ==
  /\ rdr.pc = "awake" /\ hw.changed /\ hw.kind = "efw"
  /\ rdr' = [rdr EXCEPT !.pc = "telling"]
  /\ UNCHANGED <<hw, told>>
efw_hwdep_read_locked ==
  /\ rdr.pc = "telling"
  /\ hw' = [hw EXCEPT !.changed = FALSE]
  /\ told' = [told EXCEPT !.said = hw.count > 0]
  /\ rdr' = Away

Ordered(S) == IF S = {} THEN <<>> ELSE
  LET lo == CHOOSE n \in S : \A m \in S : n <= m
      hi == CHOOSE n \in S : \A m \in S : n >= m
  IN [i \in 1..hi - lo + 1 |-> lo + i - 1]
\* dice, dg00x and motu: everything there is.
hwdep_read_word ==
  /\ rdr.pc = "awake" /\ ~hw.changed /\ hw.word # {}
  /\ told' = Gives(Ordered(hw.word), FALSE)
  /\ hw' = [hw EXCEPT !.word = {}] /\ rdr' = Away

Reads(kind) == rdr.pc = "awake" /\ ~hw.changed /\ hw.kind = kind /\ hw.push # hw.pull

\* The longest run of entries up to the end of the ring, or away.
Span(pull, room) ==
  LET end == IF pull < hw.push THEN hw.push ELSE HwQueue
  IN IF pull = hw.push \/ room = 0 THEN Away
     ELSE [Away EXCEPT !.pc = "copying", !.room = room, !.from = pull, !.to = end]
tscm_hwdep_read_queue ==
  /\ Reads("tascam")
  /\ rdr' = Span(hw.pull, rdr.room)
  /\ UNCHANGED <<hw, told>>
TscmLength == IF rdr.room < rdr.to - rdr.from THEN rdr.room ELSE rdr.to - rdr.from
TscmCopies ==
  /\ rdr.pc = "copying" /\ hw.kind = "tascam"
  /\ told' = Gives([i \in 1..TscmLength |-> hw.ring[rdr.from + i - 1]], FALSE)
  /\ rdr' = [rdr EXCEPT !.pc = "copied"]
  /\ UNCHANGED hw
\* Entries that had no room are passed over.
TscmAdvances ==
  /\ rdr.pc = "copied" /\ hw.kind = "tascam"
  /\ hw' = [hw EXCEPT !.pull = rdr.to % HwQueue]
  /\ rdr' = Span(rdr.to % HwQueue, rdr.room - TscmLength)
  /\ told' = [told EXCEPT !.over = @ \/ TscmLength < rdr.to - rdr.from]

Ff400Reads == Reads("ff400") \/ (rdr.pc = "advanced" /\ hw.kind = "ff400")
ff400_copy_msg_to_user ==
  /\ Ff400Reads /\ rdr.room > 0 /\ hw.push # hw.pull
  /\ rdr' = [rdr EXCEPT !.pc = "copying"]
  /\ UNCHANGED <<hw, told>>
Ff400Copies ==
  /\ rdr.pc = "copying" /\ hw.kind = "ff400"
  /\ told' = Gives(<<hw.ring[hw.pull]>>, FALSE)
  /\ rdr' = [rdr EXCEPT !.pc = "copied"]
  /\ UNCHANGED hw
Ff400Advances ==
  /\ rdr.pc = "copied" /\ hw.kind = "ff400"
  /\ hw' = [hw EXCEPT !.pull = Next1(@)]
  /\ rdr' = [rdr EXCEPT !.pc = "advanced", !.room = @ - 1]
  /\ UNCHANGED told
Ff400Ends ==
  /\ Ff400Reads /\ (rdr.room = 0 \/ hw.push = hw.pull)
  /\ rdr' = Away
  /\ UNCHANGED <<hw, told>>

hwdep_read_resp_buf ==
  /\ Reads("efw")
  /\ rdr' = [rdr EXCEPT !.pc = "copying", !.from = hw.pull]
  /\ UNCHANGED <<hw, told>>
EfwCopies ==
  LET n == hw.ring[rdr.from]
  IN /\ rdr.pc = "copying" /\ hw.kind = "efw"
     /\ hw.push # rdr.from /\ EventLength(n) <= rdr.room
     /\ told' = Gives(<<n>>, FALSE)
     /\ rdr' = [rdr EXCEPT !.from = (@ + EventLength(n)) % HwQueue,
                           !.room = @ - EventLength(n)]
     /\ UNCHANGED hw
EfwEnds ==
  /\ rdr.pc = "copying" /\ hw.kind = "efw"
  /\ hw.push = rdr.from \/ EventLength(hw.ring[rdr.from]) > rdr.room
  /\ hw' = [hw EXCEPT !.pull = rdr.from]
  /\ rdr' = Away
  /\ UNCHANGED told

\* A buffer that ends inside an entry makes read() take and lose the entry.
motu_copy_event ==
  /\ Reads("motu dsp") \/ (rdr.pc = "advanced" /\ hw.kind = "motu dsp")
  /\ IF hw.pull = hw.push \/ (rdr.room = 0 /\ ~rdr.odd)
     THEN rdr' = Away /\ UNCHANGED <<hw, told>>
     ELSE /\ hw' = [hw EXCEPT !.pull = Next1(@)]
          /\ told' = IF rdr.room = 0 THEN Gives(<<>>, TRUE)
                     ELSE Gives(<<hw.ring[hw.pull]>>, FALSE)
          /\ rdr' = IF rdr.room = 0 THEN Away
                    ELSE [rdr EXCEPT !.pc = "advanced", !.room = @ - 1]

ReaderStep ==
  \/ FallsAsleep \/ PreparesToWait \/ hwdep_read_locked \/ efw_hwdep_read
  \/ efw_hwdep_read_locked \/ hwdep_read_word
  \/ tscm_hwdep_read_queue \/ TscmCopies \/ TscmAdvances
  \/ ff400_copy_msg_to_user \/ Ff400Copies \/ Ff400Advances \/ Ff400Ends
  \/ hwdep_read_resp_buf \/ EfwCopies \/ EfwEnds \/ motu_copy_event

HwNext ==
  \/ \E k \in HwKinds : HwdepCreate(k)
  \/ StreamLockTry \/ StreamLockRelease \/ HwdepLock \/ HwdepUnlock
  \/ dice_notification \/ handle_message \/ ff400_handle_msg \/ read_status_messages
  \/ QueueDspEvent \/ copy_resp_to_buf \/ WakesUp
  \/ HwdepRead \/ ReaderStep

\* The driver wakes whom it has to wake, and a thread in read() goes on.
HwFairness == WF_hwdepvars(WakesUp) /\ WF_hwdepvars(ReaderStep)

HwSpec == HwInit /\ [][HwNext]_hwdepvars /\ HwFairness

-----------------------------------------------------------------------------
HwTypeOK ==
  /\ hw.count \in -1..HwMaxLock /\ hw.push \in 0..HwQueue - 1 /\ hw.pull \in 0..HwQueue - 1
  /\ hw.word \subseteq 1..HwMaxEvents
  /\ rdr.pc \in {"away", "awake", "checked", "asleep", "telling", "copying", "copied", "advanced"}

(* An application that has read everything knows whether the kernel uses   *)
(* the streams: what it was told last differs from the lock's state only   *)
(* while dev_lock_changed is set.  It gets what the unit sends in order    *)
(* and without gaps until a message was replaced, overwritten or passed    *)
(* over, which no driver tells it; then still in order, except for tascam  *)
(* and efw, whose readers copy entries that are being overwritten.         *)
HwdepTellsTruth ==
  /\ HwTypeOK
  /\ ~hw.changed => told.said = (hw.count > 0)
  /\ told.wrong => told.over /\ hw.kind \in {"tascam", "efw"}

(* An application that sleeps in read() is woken when the lock changes or  *)
(* a message comes, except that motu's register DSP models queue an event  *)
(* between the reader's check and its sleep without waking it.             *)
ReaderWoken ==
  (rdr.pc = "asleep" /\ hwdep_poll) ~> (rdr.pc # "asleep" \/ ~hwdep_poll \/ told.missed)
====
