------------------------------ MODULE OhciIso ------------------------------
(***************************************************************************)
(* An isochronous DMA context of firewire-ohci: descriptor blocks that are *)
(* appended to the program the controller runs, the work item that retires *)
(* the blocks that are done, and the pages the blocks are allocated from,  *)
(* which go round in a list.  Blocks are appended under the lock of the    *)
(* card; they are retired without it.                                      *)
(*                                                                         *)
(* A block takes some units of a page; its number is its place among those *)
(* queued.  "it" transmits, "ir" receives a packet per buffer, "mc" fills  *)
(* buffers with the packets of several channels.  External: the controller *)
(* and the users of the context.                                           *)
(***************************************************************************)
EXTENDS Integers, Sequences

CONSTANTS IsoKinds,       \* which of "it", "ir", "mc"
          IsoPages,       \* pages of descriptors that can be had
          IsoUnits,       \* units of a page
          IsoSizes,       \* units of a block
          IsoHeaders,     \* headers that fit into the header buffer
          IsoFill,        \* times the controller writes into a block of "mc"
          Flusher,        \* processes that call fw_iso_context_flush_completions()
          IsoMaxBlocks    \* bound: blocks queued

VARIABLES ic,    \* struct iso_context and its descriptors
          dm,    \* the controller: [run, nxt, cur, id, ev]
          iw,    \* the work item and what retires: [due, pc, desc, by]
          fl,    \* the flushing processes
          us,    \* the user: [pc, sent, todo, irq]
          rep    \* sc and mc [hdr, mc], and ghosts [skip, got, owed, wrong, odd]

isovars == <<ic, dm, iw, fl, us, rep>>

NoAddr == <<0, 0>>
NoBlock == [id |-> 0, irq |-> FALSE, left |-> 0, next |-> NoAddr]
Addr == (1..IsoPages) \X (0..IsoUnits - 1)

IsoInit ==
  /\ ic = [kind |-> "none"]
  /\ dm = [run |-> FALSE, nxt |-> NoAddr, cur |-> NoAddr, id |-> 0, ev |-> FALSE]
  /\ iw = [due |-> FALSE, pc |-> "idle", desc |-> 0, by |-> "work"]
  /\ fl = [f \in Flusher |-> "idle"]
  /\ us = [pc |-> "none", sent |-> 0, todo |-> 0, irq |-> FALSE]
  /\ rep = [hdr |-> <<>>, skip |-> 0, mc |-> 0, got |-> 0, owed |-> 0, wrong |-> FALSE, odd |-> {}]

\* The program ends in a block that looks as if it had been sent.
context_init(kind, drop) ==
  /\ us.pc = "none"
  /\ ic' = [kind |-> kind, drop |-> drop, list |-> <<1>>, tail |-> 1,
            used |-> [b \in 1..IsoPages |-> IF b = 1 THEN 1 ELSE 0],
            mem |-> [a \in Addr |-> NoBlock], last |-> <<1, 0>>, prev |-> <<1, 0>>]
  /\ us' = [us EXCEPT !.pc = "idle"]
  /\ UNCHANGED <<dm, iw, fl, rep>>

-----------------------------------------------------------------------------
(* Queueing, under the lock of the card.                                   *)
Behind(c, b) == LET n == CHOOSE n \in 1..Len(c.list) : c.list[n] = b
                IN IF n = Len(c.list) THEN 0 ELSE c.list[n + 1]

\* Without room in the page the next one is taken, or a new one.
context_add_buffer(c) ==
  IF Len(c.list) = IsoPages THEN c
  ELSE [c EXCEPT !.list = Append(@, Len(@) + 1)]
HasRoom(c, z) == c.used[c.tail] + z <= IsoUnits
context_get_descriptors(c, z) ==
  IF HasRoom(c, z) THEN c
  ELSE CHOOSE r \in {[d EXCEPT !.tail = Behind(d, c.tail)] :
                     d \in {IF Behind(c, c.tail) = 0 THEN context_add_buffer(c) ELSE c}} : TRUE

context_append(c, z, blk) ==
  LET a == <<c.tail, c.used[c.tail]>>
      Over == {<<c.tail, c.used[c.tail] + k>> : k \in 0..z - 1}
      mem == [x \in Addr |-> IF x = a THEN blk ELSE IF x \in Over THEN NoBlock ELSE c.mem[x]]
  IN [c EXCEPT !.mem = [mem EXCEPT ![c.prev].next = a], !.prev = a, !.used[c.tail] = @ + z]

\* A packet that is received becomes several blocks, the last of which
\* interrupts (rep.owed); the controller may run the first ones while the
\* others are made.
ohci_queue_iso(n, irq) ==
  /\ us.pc = "idle" /\ us.sent + n <= IsoMaxBlocks
  /\ ic.kind = "it" => n = 1
  /\ us' = [us EXCEPT !.pc = "queueing", !.todo = n, !.irq = irq]
  /\ UNCHANGED <<ic, dm, iw, fl, rep>>
NewBlock == [id |-> us.sent + 1, irq |-> us.irq /\ us.todo = 1, next |-> NoAddr,
             left |-> IF ic.kind = "mc" THEN IsoFill ELSE 1]
AppendsBlock(z) ==
  /\ us.pc = "queueing"
  /\ \E c \in {context_get_descriptors(ic, z)} :
       \/ /\ c.tail = 0                                                \* -ENOMEM
          /\ us' = [us EXCEPT !.pc = "queued", !.todo = 0]
          /\ UNCHANGED <<ic, rep>>
       \/ /\ c.tail # 0
          /\ ic' = context_append(c, z, NewBlock)
          /\ us' = [us EXCEPT !.todo = @ - 1, !.sent = @ + 1,
                              !.pc = IF us.todo = 1 THEN "queued" ELSE @]
          /\ rep' = [rep EXCEPT !.owed = IF NewBlock.irq THEN NewBlock.id ELSE @]
  /\ UNCHANGED <<dm, iw, fl>>
queue_iso_transmit(z) == ic.kind = "it" /\ AppendsBlock(z)
queue_iso_packet_per_buffer(z) == ic.kind = "ir" /\ AppendsBlock(z)
queue_iso_buffer_fill == ic.kind = "mc" /\ AppendsBlock(1)

\* Mutant: the controller is not told.
NotWoken == us.pc = "queued" /\ us' = [us EXCEPT !.pc = "idle"] /\ UNCHANGED <<ic, dm, iw, fl, rep>>
\* fw_iso_context_queue_flush(): the controller looks at its last block again.
ohci_flush_queue_iso ==
  /\ us.pc = "queued"
  /\ us' = [us EXCEPT !.pc = "idle"]
  /\ dm' = IF dm.run /\ dm.nxt = NoAddr THEN [dm EXCEPT !.nxt = ic.mem[dm.cur].next] ELSE dm
  /\ UNCHANGED <<ic, iw, fl, rep>>

-----------------------------------------------------------------------------
(* The controller.                                                         *)
Executes ==
  /\ dm.run /\ dm.nxt # NoAddr
  /\ \E blk \in {ic.mem[dm.nxt]} :
       /\ ic' = [ic EXCEPT !.mem[dm.nxt].left = IF @ = 0 THEN 0 ELSE @ - 1]
       /\ IF blk.left > 1 THEN UNCHANGED <<dm, rep>>
          ELSE /\ dm' = [dm EXCEPT !.cur = dm.nxt, !.nxt = blk.next, !.id = @ + 1, !.ev = @ \/ blk.irq]
               /\ rep' = [rep EXCEPT !.wrong = @ \/ blk.id # dm.id + 1]
  /\ UNCHANGED <<iw, fl, us>>

Disabled == \E f \in Flusher : fl[f] # "idle"

\* irq_handler(): a work item that is disabled is not queued.
IsoInterrupt ==
  /\ dm.ev
  /\ dm' = [dm EXCEPT !.ev = FALSE]
  /\ IF Disabled THEN rep' = [rep EXCEPT !.odd = @ \cup {"missed"}] /\ UNCHANGED iw
                 ELSE iw' = [iw EXCEPT !.due = TRUE] /\ UNCHANGED rep
  /\ UNCHANGED <<ic, fl, us>>

-----------------------------------------------------------------------------
(* Reporting.  The operators take and return the value of rep.             *)
CaughtUp(r) == IF r.got >= r.owed THEN [r EXCEPT !.odd = @ \ {"missed"}] ELSE r
flush_iso_completions(r) == CaughtUp(
  [r EXCEPT !.hdr = <<>>, !.skip = 0, !.got = @ + Len(r.hdr) + r.skip,
            !.wrong = @ \/ \E k \in 1..Len(r.hdr) : r.hdr[k] # r.got + k])
copy_iso_headers(r, id) ==
  IF Len(r.hdr) < IsoHeaders THEN [r EXCEPT !.hdr = Append(@, id)]
  ELSE IF ic.drop THEN [r EXCEPT !.skip = @ + 1]
  ELSE [flush_iso_completions(r) EXCEPT !.hdr = <<id>>]
Interrupts(r, blk) == IF blk.irq THEN flush_iso_completions(r) ELSE r

handle_ir_packet_per_buffer(r, blk) == Interrupts(copy_iso_headers(r, blk.id), blk)
\* A packet whose header is dropped does not interrupt.
handle_it_packet(r, blk) ==
  IF Len(r.hdr) = IsoHeaders /\ ic.drop
  THEN [copy_iso_headers(r, blk.id) EXCEPT !.odd = IF blk.irq THEN @ \cup {"deaf"} ELSE @]
  ELSE Interrupts(copy_iso_headers(r, blk.id), blk)
\* The position reached counts in the writes of the controller.
ToldPosition(r, pos) == CaughtUp([r EXCEPT !.got = pos \div IsoFill, !.mc = 0,
                                           !.wrong = @ \/ pos \div IsoFill < r.got])
handle_ir_buffer_fill(r, blk) ==
  LET pos == blk.id * IsoFill - blk.left
      noted == IF blk.left < IsoFill THEN [r EXCEPT !.mc = pos] ELSE r
  IN IF blk.left = 0 /\ blk.irq THEN ToldPosition(noted, pos) ELSE noted

Callback(r, blk) ==
  CASE ic.kind = "mc" -> handle_ir_buffer_fill(r, blk)
    [] blk.left # 0 -> r
    [] ic.kind = "ir" -> handle_ir_packet_per_buffer(r, blk)
    [] OTHER -> handle_it_packet(r, blk)

-----------------------------------------------------------------------------
(* context_retire_descriptors(), run by the work item or by a process that *)
(* flushes.  Each block is looked at, and then the program moves on.       *)
RetireBegins(by) == iw' = [iw EXCEPT !.pc = "retire", !.by = by, !.desc = Head(ic.list),
                                     !.due = IF by = "work" THEN FALSE ELSE @]

ohci_isoc_context_work ==
  /\ iw.due /\ ~Disabled /\ iw.pc = "idle"
  /\ RetireBegins("work")
  /\ UNCHANGED <<ic, dm, fl, us, rep>>

\* The page the branch points into, found as the one behind wk.desc.
Advanced(b) == IF b[1] = iw.desc THEN iw.desc ELSE Behind(ic, iw.desc)
RetireLooks ==
  /\ iw.pc = "retire"
  /\ LET b == ic.mem[ic.last].next
         blk == ic.mem[b]
     IN IF b = NoAddr THEN iw' = [iw EXCEPT !.pc = "retired"] /\ UNCHANGED rep
        ELSE /\ iw' = [iw EXCEPT !.pc = IF blk.left = 0 THEN "moves" ELSE "retired"]
             /\ rep' = [Callback(rep, blk) EXCEPT !.wrong = @ \/ Advanced(b) # b[1]]
  /\ UNCHANGED <<ic, dm, fl, us>>

\* The page left behind goes to the end of the list.
Recycled(c, b) == [c EXCEPT !.used[b] = 0, !.list = Append(SelectSeq(@, LAMBDA x : x # b), b)]
\* Mutant: the page that has been reached is recycled.
RecyclesReached ==
  /\ iw.pc = "moves"
  /\ LET b == ic.mem[ic.last].next
         c == [ic EXCEPT !.last = b]
     IN /\ ic' = IF b[1] = iw.desc THEN c ELSE Recycled(c, b[1])
        /\ iw' = [iw EXCEPT !.pc = "retire", !.desc = b[1]]
  /\ UNCHANGED <<dm, fl, us, rep>>
RetireMoves ==
  /\ iw.pc = "moves"
  /\ LET b == ic.mem[ic.last].next
         c == [ic EXCEPT !.last = b]
     IN /\ ic' = IF b[1] = iw.desc THEN c ELSE Recycled(c, iw.desc)
        /\ iw' = [iw EXCEPT !.pc = "retire", !.desc = b[1]]
  /\ UNCHANGED <<dm, fl, us, rep>>

WorkEnds ==
  /\ iw.pc = "retired" /\ iw.by = "work"
  /\ iw' = [iw EXCEPT !.pc = "idle", !.desc = 0]
  /\ UNCHANGED <<ic, dm, fl, us, rep>>

-----------------------------------------------------------------------------
(* fw_iso_context_flush_completions(): the work item is disabled, and      *)
(* waited for; one process at a time flushes.                              *)
FlushDisables(f) ==
  /\ us.pc # "none" /\ fl[f] = "idle"
  /\ fl' = [fl EXCEPT ![f] = "off"]
  /\ iw' = [iw EXCEPT !.due = FALSE]
  /\ UNCHANGED <<ic, dm, us, rep>>
ohci_flush_iso_completions(f) ==
  /\ fl[f] = "off" /\ ~(iw.pc # "idle" /\ iw.by = "work")
  /\ IF \E g \in Flusher : fl[g] = "flush"
     THEN fl' = [fl EXCEPT ![f] = "on"] /\ UNCHANGED iw
     ELSE fl' = [fl EXCEPT ![f] = "flush"] /\ RetireBegins("flush")
  /\ UNCHANGED <<ic, dm, us, rep>>
FlushReports(f) ==
  /\ fl[f] = "flush" /\ iw.pc = "retired"
  /\ fl' = [fl EXCEPT ![f] = "on"]
  /\ iw' = [iw EXCEPT !.pc = "idle", !.desc = 0, !.by = "work"]
  /\ rep' = IF ic.kind = "mc" THEN IF rep.mc # 0 THEN ToldPosition(rep, rep.mc) ELSE rep
            ELSE IF rep.hdr # <<>> THEN flush_iso_completions(rep) ELSE rep
  /\ UNCHANGED <<ic, dm, us>>
FlushEnables(f) ==
  /\ fl[f] = "on"
  /\ fl' = [fl EXCEPT ![f] = "idle"]
  /\ UNCHANGED <<ic, dm, iw, us, rep>>

-----------------------------------------------------------------------------
(* Start and stop.                                                         *)
ohci_start_iso ==
  /\ us.pc = "idle" /\ ~dm.run /\ ic.mem[ic.last].next # NoAddr
  /\ LET b == ic.mem[ic.last].next
     IN /\ dm' = [dm EXCEPT !.run = TRUE, !.nxt = b, !.id = ic.mem[b].id - 1, !.ev = FALSE]
        /\ rep' = IF ic.mem[b].left = 0 \/ iw.pc # "idle"
                  THEN [rep EXCEPT !.odd = @ \cup {"again"}] ELSE rep
  /\ UNCHANGED <<ic, iw, fl, us>>

\* The work item is cancelled when the controller has stopped.
ohci_stop_iso ==
  /\ us.pc = "idle" /\ dm.run
  /\ dm' = [dm EXCEPT !.run = FALSE, !.nxt = NoAddr, !.ev = FALSE]
  /\ us' = [us EXCEPT !.pc = "stopping"]
  /\ UNCHANGED <<ic, iw, fl, rep>>
fw_iso_context_stop ==
  /\ us.pc = "stopping" /\ ~(iw.pc # "idle" /\ iw.by = "work")
  /\ us' = [us EXCEPT !.pc = "idle"]
  /\ iw' = [iw EXCEPT !.due = FALSE]
  /\ UNCHANGED <<ic, dm, fl, rep>>

\* The pages are freed, the work item is left alone.
ohci_free_iso_context ==
  /\ us.pc = "idle" /\ ~Disabled
  /\ IF iw.due \/ iw.pc # "idle" THEN /\ rep' = [rep EXCEPT !.odd = @ \cup {"freed"}]
                                      /\ UNCHANGED <<ic, dm, iw, us>>
     ELSE /\ ic' = [kind |-> "none"]
          /\ dm' = [run |-> FALSE, nxt |-> NoAddr, cur |-> NoAddr, id |-> 0, ev |-> FALSE]
          /\ us' = [us EXCEPT !.pc = "none", !.sent = 0, !.irq = FALSE]
          /\ rep' = [rep EXCEPT !.hdr = <<>>, !.skip = 0, !.mc = 0, !.got = 0, !.owed = 0]
          /\ UNCHANGED iw
  /\ UNCHANGED fl

-----------------------------------------------------------------------------
IsoWork == ohci_isoc_context_work \/ RetireLooks \/ RetireMoves \/ WorkEnds
FlushGoesOn(f) == ohci_flush_iso_completions(f) \/ FlushReports(f) \/ FlushEnables(f)
UserGoesOn ==
  \/ \E z \in IsoSizes : queue_iso_transmit(z) \/ queue_iso_packet_per_buffer(z)
  \/ queue_iso_buffer_fill \/ ohci_flush_queue_iso \/ fw_iso_context_stop

\* What comes after "again" and "freed" is memory used by two.
Sane == rep.odd \cap {"again", "freed"} = {}
IsoNext ==
  /\ Sane
  /\ \/ Executes \/ IsoInterrupt \/ IsoWork \/ UserGoesOn
     \/ \E f \in Flusher : FlushDisables(f) \/ FlushGoesOn(f)
     \/ \E kind \in IsoKinds, drop \in BOOLEAN : context_init(kind, drop /\ kind # "mc")
     \/ \E n \in 1..2, irq \in BOOLEAN : ohci_queue_iso(n, irq)
     \/ ohci_start_iso \/ ohci_stop_iso \/ ohci_free_iso_context

\* Interrupts are taken, work items run, and processes go on.
IsoFairness ==
  /\ WF_isovars(Sane /\ IsoInterrupt) /\ WF_isovars(Sane /\ IsoWork) /\ WF_isovars(Sane /\ UserGoesOn)
  /\ WF_isovars(Sane /\ Executes)
  /\ \A f \in Flusher : WF_isovars(Sane /\ FlushGoesOn(f))

IsoSpec == IsoInit /\ [][IsoNext]_isovars /\ IsoFairness

-----------------------------------------------------------------------------
IsoTypeOK ==
  /\ iw.pc \in {"idle", "retire", "moves", "retired"} /\ iw.desc \in 0..IsoPages
  /\ fl \in [Flusher -> {"idle", "off", "flush", "on"}]
  /\ us.sent \in 0..IsoMaxBlocks /\ rep.owed \in 0..IsoMaxBlocks

\* Each block that is not retired is whole and in its place in the program.
RECURSIVE InPlace(_, _)
InPlace(a, id) ==
  LET b == ic.mem[a].next
  IN IF b = NoAddr THEN id = us.sent ELSE ic.mem[b].id = id + 1 /\ InPlace(b, id + 1)

(* The descriptors from the last one retired on are the blocks that were   *)
(* queued, in their order, so no page is handed out for new blocks while   *)
(* the controller or the work item still needs it; the controller runs     *)
(* each of them once; and the callbacks report each packet once, in the    *)
(* order of the queue and only when it is done, with the headers of the    *)
(* first ones if the header buffer overflows.                              *)
IsoInOrder ==
  Sane => /\ IsoTypeOK /\ ~rep.wrong /\ rep.got <= dm.id
          /\ ic.kind # "none" => InPlace(ic.last, ic.mem[ic.last].id)

(* "The registered callback function is called [...] when a queued packet  *)
(* buffer with the interrupt flag is completed" (firewire.h:601), unless   *)
(* its interrupt came while a process was flushing ("missed"), or the      *)
(* packet was transmitted when the header buffer was full and headers are  *)
(* dropped ("deaf").                                                       *)
IsoReported ==
  []<>(~dm.run \/ rep.got >= rep.owed \/ rep.odd # {})

(* "The registered callback function is called when a queued packet buffer *)
(* with the interrupt flag is completed" (core-iso.c:225).                 *)
InterruptReported == []<>(~dm.run \/ rep.got >= rep.owed \/ rep.odd \ {"missed"} # {})
=============================================================================
