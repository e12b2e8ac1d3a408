------------------------------- MODULE OhciAr -------------------------------
(***************************************************************************)
(* The ring of pages into which an OHCI controller writes the asynchronous *)
(* packets it receives, and the work item that hands them to the core.     *)
(* Each page has a descriptor; res_count tells how much of the page is     *)
(* still free, PAGE_SIZE that it is empty.  The controller stops at the    *)
(* end of the page last_buffer_index, whose descriptor has no successor.   *)
(*                                                                         *)
(* Sizes count in units; a packet may be longer than a page, so that it    *)
(* lies in three of them.  External: the controller.                       *)
(***************************************************************************)
EXTENDS Integers, FiniteSets

CONSTANTS ArBuffers,      \* pages of the ring (AR_BUFFERS)
          ArPage,         \* units of a page
          ArLengths,      \* lengths of packets
          ArMaxPackets    \* bound: packets received

VARIABLES ring,   \* [res, last, mem, avail]: descriptors, data, what the controller may fill
          dma,    \* [pos, sent]: where the controller writes, packets written so far
          wk,     \* the work item
          arg     \* ghost: [got, wrong]

arvars == <<ring, dma, wk, arg>>

Size == ArBuffers * ArPage
Page == 0..ArBuffers - 1
ar_next_buffer_index(i) == (i + 1) % ArBuffers
ar_first_buffer_index == ar_next_buffer_index(ring.last)
NoUnit == [pkt |-> 0, off |-> 0, len |-> 0]

\* After ar_context_run(): every page has been linked.
ArInit ==
  /\ ring = [res |-> [i \in Page |-> ArPage], last |-> ArBuffers - 1, avail |-> Size,
             mem |-> [u \in 0..Size - 1 |-> NoUnit]]
  /\ dma = [pos |-> 0, sent |-> 0]
  /\ wk = [pc |-> "idle", due |-> FALSE, p |-> 0, i |-> 0, res |-> 0, end |-> 0,
           endpage |-> 0, wraps |-> FALSE]
  /\ arg = [got |-> 0, wrong |-> FALSE]

-----------------------------------------------------------------------------
(* The controller has received a packet.  The descriptor of a page that    *)
(* lies within the packet may never be updated.                            *)
Units(len) == {(dma.pos + k) % Size : k \in 0..len - 1}
Touched(len) == {u \div ArPage : u \in Units(len)}
Middle(len) == {i \in Touched(len) : /\ i # dma.pos \div ArPage
                                     /\ i # ((dma.pos + len - 1) % Size) \div ArPage}
Filled(i, len) == Cardinality({u \in Units(len) : u \div ArPage = i})

ReceivesPacket(len, updates) ==
  /\ dma.sent < ArMaxPackets /\ len <= ring.avail
  /\ ring' = [ring EXCEPT
       !.avail = @ - len,
       !.res = [i \in Page |-> IF i \in Touched(len) /\ (i \notin Middle(len) \/ updates)
                               THEN @[i] - Filled(i, len) ELSE @[i]],
       !.mem = [u \in 0..Size - 1 |-> IF u \in Units(len)
                THEN [pkt |-> dma.sent + 1, len |-> len, off |-> (u - dma.pos) % Size]
                ELSE @[u]]]
  /\ dma' = [pos |-> (dma.pos + len) % Size, sent |-> dma.sent + 1]
  /\ wk' = [wk EXCEPT !.due = TRUE]
  /\ UNCHANGED arg

-----------------------------------------------------------------------------
(* The work item.                                                          *)
ohci_ar_context_work ==
  /\ wk.pc = "idle" /\ wk.due
  /\ wk' = [wk EXCEPT !.due = FALSE, !.pc = "search", !.i = ar_first_buffer_index,
                      !.res = ring.res[ar_first_buffer_index]]
  /\ UNCHANGED <<ring, dma, arg>>

\* ar_search_last_active_buffer() stops at page wk.i.
Found ==
  [wk EXCEPT !.pc = "handle", !.end = wk.i * ArPage + ArPage - wk.res, !.endpage = wk.i,
             !.wraps = wk.i < ar_first_buffer_index]

ar_search_last_active_buffer ==
  /\ wk.pc = "search"
  /\ LET next == ar_next_buffer_index(wk.i)
     IN wk' = IF wk.i = ring.last \/ wk.res # 0 THEN Found
              ELSE IF ring.res[next] = ArPage THEN [wk EXCEPT !.pc = "peek"]
              ELSE [wk EXCEPT !.i = next, !.res = ring.res[next]]
  /\ UNCHANGED <<ring, dma, arg>>

\* Mutant: a packet in three pages is not thought of.
StopsAtEmpty ==
  /\ wk.pc = "peek"
  /\ wk' = Found
  /\ UNCHANGED <<ring, dma, arg>>

\* The page after the next, in case a packet lies in three pages.  The code
\* compares wk.i with the last page, not the next.
NextNextIsActive ==
  /\ wk.pc = "peek"
  /\ LET third == ar_next_buffer_index(ar_next_buffer_index(wk.i))
     IN wk' = IF ring.res[third] # ArPage
              THEN [wk EXCEPT !.pc = "search", !.i = third, !.res = ring.res[third]]
              ELSE Found
  /\ UNCHANGED <<ring, dma, arg>>

\* The beginning of the ring is mapped once more behind its end.
Limit == IF wk.wraps THEN Size ELSE wk.end
handle_ar_packet ==
  /\ wk.pc = "handle" /\ wk.p < Limit
  /\ LET u == ring.mem[wk.p % Size]
     IN /\ wk' = [wk EXCEPT !.p = @ + u.len]
        /\ arg' = [got |-> u.pkt, wrong |-> u.off # 0 \/ u.pkt # arg.got + 1 \/ arg.wrong]
  /\ UNCHANGED <<ring, dma>>
WrapsAround ==
  /\ wk.pc = "handle" /\ wk.wraps /\ wk.p >= Size
  /\ wk' = [wk EXCEPT !.p = @ - Size, !.wraps = FALSE]
  /\ UNCHANGED <<ring, dma, arg>>
\* "inconsistent descriptor": the context is stopped for good.
PacketsHandled ==
  /\ wk.pc = "handle" /\ ~wk.wraps /\ wk.p >= wk.end
  /\ wk' = [wk EXCEPT !.pc = IF wk.p > wk.end THEN "aborted" ELSE "recycle",
                      !.i = ar_first_buffer_index]
  /\ UNCHANGED <<ring, dma, arg>>

ar_context_link_page ==
  /\ wk.pc = "recycle" /\ wk.i # wk.endpage
  /\ ring' = [ring EXCEPT !.res[wk.i] = ArPage, !.avail = @ + ArPage, !.last = wk.i]
  /\ wk' = [wk EXCEPT !.i = ar_next_buffer_index(@)]
  /\ UNCHANGED <<dma, arg>>
\* Mutant: the page that is still being filled is recycled too.
RecyclesAll ==
  /\ wk.pc = "recycle" /\ wk.i = wk.endpage
  /\ ring' = [ring EXCEPT !.res[wk.i] = ArPage, !.avail = @ + ArPage, !.last = wk.i]
  /\ wk' = [wk EXCEPT !.pc = "idle", !.i = 0, !.res = 0, !.end = 0, !.endpage = 0]
  /\ UNCHANGED <<dma, arg>>
ar_recycle_buffers ==
  /\ wk.pc = "recycle" /\ wk.i = wk.endpage
  /\ wk' = [wk EXCEPT !.pc = "idle", !.i = 0, !.res = 0, !.end = 0, !.endpage = 0]
  /\ UNCHANGED <<ring, dma, arg>>

ArWork ==
  \/ ohci_ar_context_work \/ ar_search_last_active_buffer \/ NextNextIsActive
  \/ handle_ar_packet \/ WrapsAround \/ PacketsHandled
  \/ ar_context_link_page \/ ar_recycle_buffers

ArNext == ArWork \/ \E len \in ArLengths, updates \in BOOLEAN : ReceivesPacket(len, updates)

\* A queued work item runs, and ends.
ArFairness == WF_arvars(ArWork)

ArSpec == ArInit /\ [][ArNext]_arvars /\ ArFairness

-----------------------------------------------------------------------------
ArTypeOK ==
  /\ ring.res \in [Page -> 0..ArPage] /\ ring.last \in Page /\ ring.avail \in 0..Size
  /\ wk.p \in 0..Size + ArPage * 2 /\ wk.i \in Page

Undelivered == {u \in 0..Size - 1 : ring.mem[u].pkt > arg.got}

(* The core is handed every packet once, whole and in the order in which   *)
(* the controller has written them, however far the controller gets while  *)
(* the work item looks at the descriptors; the work item never finds them  *)
(* inconsistent; and the controller is never given a page that holds data  *)
(* the work item has not been through.                                     *)
ArInOrder ==
  /\ ArTypeOK
  /\ ~arg.wrong /\ wk.pc # "aborted"
  /\ ring.avail + Cardinality(Undelivered) <= Size

\* The page before the last is full, the last is empty, the first is not.
Trapped == /\ ring.res[ring.last] = ArPage /\ ring.res[ar_first_buffer_index] # ArPage
           /\ ring.res[(ring.last + ArBuffers - 1) % ArBuffers] = 0

(* Every packet received comes to be handed to the core, unless the ring   *)
(* stays filled to the end of the page before the last: the search then    *)
(* takes the full first page for the third part of a packet and goes round *)
(* the ring until another packet comes.                                    *)
ReceivedIsHandled ==
  <>[]Trapped \/ []<>(arg.got = dma.sent)

(* "If the next descriptor is still empty, we must stop at this            *)
(* descriptor" (ohci.c:608): the search for the last buffer comes to an    *)
(* end.                                                                    *)
SearchEnds == (wk.pc = "search") ~> (wk.pc = "handle")
====
