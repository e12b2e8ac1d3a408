----------------------------- MODULE FwInbound -----------------------------
(***************************************************************************)
(* Inbound requests of firewire-core (drivers/firewire/core-transaction.c):*)
(* registration and removal of address handlers, delivery of a request to  *)
(* the handler of an exclusive region or to all handlers of the FCP        *)
(* registers, and the life of struct fw_request from its allocation to the *)
(* transmission of the response.  Handlers are drivers, which answer in    *)
(* their callback, or clients of the character device (core-cdev.c), which *)
(* keep the request until the user answers or closes the file.             *)
(* Each request is handled in a context of its own: the receive context of *)
(* one of the cards, or the initiator when the request is local.           *)
(***************************************************************************)
EXTENDS Integers, Sequences, FiniteSets

CONSTANTS
    Handler,        \* struct fw_address_handler
    Client,         \* the handlers which belong to clients of the character device
    Region,         \* Region[h]: start, end and length that h asks for
    FcpStart, FcpEnd,   \* the FCP registers
    Request,        \* requests
    Offset,         \* offsets at which requests, one unit long, are made
    BufferSize,     \* BUFFER_ON_KERNEL_STACK_SIZE
    NoMemory,       \* whether allocations may fail
    BadAnswer       \* whether users answer with a wrong length

ASSUME InboundAssumption ==
    /\ Client \subseteq Handler
    /\ Region \in [Handler -> [start : Nat, end : Nat, length : Nat \ {0}]]
    /\ FcpStart \in Nat /\ FcpEnd \in Nat /\ Offset \subseteq Nat
    /\ BufferSize \in Nat \ {0} /\ NoMemory \in BOOLEAN /\ BadAnswer \in BOOLEAN

VARIABLES
    handlers,       \* address_handler_list, in its order
    handler,    \* state, offset and reference count of each handler
    grace,      \* readers for which the synchronize_rcu() of a removal waits
    closed,     \* clients with in_shutdown set
    request,    \* struct fw_request and the context that handles it
    held        \* held[r]: clients with an inbound_transaction_resource for r

inboundvars == <<handlers, handler, grace, closed, request, held>>

Absent == [pc |-> "absent", offset |-> 0, kref |-> 0]
NoRequest == [pc |-> "none", offset |-> 0, split |-> FALSE, kref |-> 0, todo |-> <<>>,
              inflight |-> FALSE, responses |-> 0]

InboundTypeOK ==
    /\ handlers \in Seq(Handler)
    /\ handler \in [Handler -> [pc : {"absent", "listed", "unlinked", "waiting"},
                                offset : Nat, kref : Nat]]
    /\ grace \in [Handler -> SUBSET Request]
    /\ closed \subseteq Client
    /\ request \in [Request -> [pc : {"none", "lookup", "running", "returning", "done"},
                                offset : Nat, split : BOOLEAN, kref : Nat, todo : Seq(Handler),
                                inflight : BOOLEAN, responses : Nat]]
    /\ held \in [Request -> SUBSET Client]

InboundInit ==
    /\ handlers = <<>>
    /\ handler = [h \in Handler |-> Absent]
    /\ grace = [h \in Handler |-> {}]
    /\ closed = {}
    /\ request = [r \in Request |-> NoRequest]
    /\ held = [r \in Request |-> {}]

-----------------------------------------------------------------------------
(* Address regions.                                                        *)

\* is_in_fcp_region()
InFcp(offset, length) == offset >= FcpStart /\ offset + length <= FcpEnd

Overlap(h, offset, length) ==
    /\ handler[h].offset < offset + length
    /\ offset < handler[h].offset + Region[h].length

\* is_enclosing_handler()
Encloses(h, offset) ==
    /\ handler[h].offset <= offset
    /\ offset + 1 <= handler[h].offset + Region[h].length

\* lookup_overlapping_address_handler(): the first one of the list, if any
Overlapping(offset, length) ==
    LET hit == {i \in DOMAIN handlers : Overlap(handlers[i], offset, length)}
    IN IF hit = {} THEN {} ELSE {handlers[CHOOSE i \in hit : \A j \in hit : i <= j]}

\* Offsets at which the region of h ends in the range asked for.
Offsets(h) == Region[h].start .. (Region[h].end - Region[h].length)

\* Another handler is in the way at offset o, except in the FCP registers.
Blocked(h, o) == ~InFcp(o, Region[h].length) /\ Overlapping(o, Region[h].length) # {}

\* The search of fw_core_add_address_handler() steps over the length of that handler.
After(h, o) == o + Region[CHOOSE x \in Overlapping(o, Region[h].length) : TRUE].length

\* The offsets it looks at: the smallest set that holds the first one and is closed.
Searched(h) ==
    {o \in Offsets(h) : \A S \in SUBSET Offsets(h) :
        /\ Region[h].start \in S
        /\ \A x \in S : Blocked(h, x) /\ After(h, x) \in Offsets(h) => After(h, x) \in S
        => o \in S}

\* fw_core_add_address_handler(); -EBUSY if there is no place
Add(h) ==
    /\ handler[h].pc = "absent" /\ h \notin closed
    /\ \E o \in Searched(h) :
          /\ ~Blocked(h, o)
          /\ handler' = [handler EXCEPT ![h] = [pc |-> "listed", offset |-> o, kref |-> 1]]
    /\ handlers' = Append(handlers, h)
    /\ UNCHANGED <<grace, closed, request, held>>

-----------------------------------------------------------------------------
(* fw_core_remove_address_handler()                                        *)

\* Readers inside an RCU read-side critical section.
Readers == {r \in Request : request[r].pc = "lookup"}

\* list_del_rcu() of entry i
Without(s, i) == [k \in 1 .. (Len(s) - 1) |-> IF k < i THEN s[k] ELSE s[k + 1]]

Unlink(h) ==
    /\ handler[h].pc = "listed"
    /\ \E i \in DOMAIN handlers : handlers[i] = h /\ handlers' = Without(handlers, i)
    /\ handler' = [handler EXCEPT ![h].pc = "unlinked"]
    /\ grace' = [grace EXCEPT ![h] = Readers]
    /\ UNCHANGED <<closed, request, held>>

\* Mutant: synchronize_rcu() is left out.
GraceIgnored(h) == TRUE

\* synchronize_rcu(): the readers of the time of the removal have left.
GraceOver(h) == grace[h] = {}

\* The reference of the registration is put.
PutHandler(h) ==
    /\ handler[h].pc = "unlinked"
    /\ GraceOver(h)
    /\ handler' = [handler EXCEPT ![h].pc = "waiting", ![h].kref = @ - 1]
    /\ UNCHANGED <<handlers, grace, closed, request, held>>

\* The function returns, after wait_for_completion() if references remained.
Removed(h) ==
    /\ handler[h].pc = "waiting" /\ handler[h].kref = 0
    /\ handler' = [handler EXCEPT ![h] = Absent]
    /\ UNCHANGED <<handlers, grace, closed, request, held>>

-----------------------------------------------------------------------------
(* Requests.                                                               *)

Fcp(r) == InFcp(request[r].offset, 1)

\* fw_core_handle_request(): the request is allocated, or dropped if there is no
\* memory.  It is split if it was acknowledged as pending and not broadcast.
Receive(r) ==
    /\ request[r].pc = "none"
    /\ \E offset \in Offset, split \in BOOLEAN :
          request' = [request EXCEPT ![r] = [NoRequest EXCEPT !.pc = "lookup", !.split = split,
                                                              !.offset = offset, !.kref = 1,
                                                              !.todo = handlers]]
    /\ UNCHANGED <<handlers, handler, grace, closed, held>>
Drop(r) ==
    /\ request[r].pc = "none" /\ NoMemory
    /\ request' = [request EXCEPT ![r].pc = "done"]
    /\ UNCHANGED <<handlers, handler, grace, closed, held>>

\* fw_request_put()
PutRequest(q) == [q EXCEPT !.kref = @ - 1]

\* fw_send_response(): a split transaction is answered, with a reference for the
\* packet in flight; any other request is put.
Send(q) ==
    IF q.split THEN [q EXCEPT !.kref = @ + 1, !.inflight = TRUE, !.responses = @ + 1]
    ELSE PutRequest(q)

\* The traversal of list s that takes the entries with indices in I, in their order
\* (one sequence).
Traversals(s, I) ==
    {[k \in DOMAIN e |-> s[e[k]]] :
        e \in {f \in [1 .. Cardinality(I) -> I] : \A k, l \in DOMAIN f : k < l => f[k] < f[l]}}

\* Entries of the list, as the reader sees it, whose region encloses the request.
Hits(r) == {i \in DOMAIN request[r].todo : Encloses(request[r].todo[i], request[r].offset)}

\* Sizes of the buffer, which is doubled when it is full, up to n.
Sizes(n) == {b \in 1 .. n : \E i \in 0 .. n : b = BufferSize * 2 ^ i}

\* Traversals that end when there is no memory for a larger buffer.
Truncated(S, n) == {SubSeq(s, 1, k) : s \in S, k \in IF NoMemory THEN Sizes(n) ELSE {}}

\* Handlers found: the first one of an exclusive region; all of the FCP registers, as
\* far as there is memory when the buffer has to grow.
Found(r) ==
    IF Fcp(r) THEN LET all == Traversals(request[r].todo, Hits(r))
                   IN all \cup Truncated(all, Cardinality(Hits(r)))
    ELSE Traversals(request[r].todo, {i \in Hits(r) : \A j \in Hits(r) : i <= j})

\* get_address_handler() for each handler found
Referenced(found, h) == handler[h].kref + (IF \E i \in DOMAIN found : found[i] = h THEN 1 ELSE 0)

\* Without handler for an exclusive region the response is RCODE_ADDRESS_ERROR,
\* without one for FCP it is RCODE_COMPLETE.
Delivered(q, found) ==
    IF found = <<>> THEN Send([q EXCEPT !.todo = found, !.pc = "done"])
    ELSE [q EXCEPT !.todo = found, !.pc = "running"]

\* The read-side critical section ends.
Lookup(r) ==
    /\ request[r].pc = "lookup"
    /\ \E found \in Found(r) :
          /\ handler' = [h \in Handler |-> [handler[h] EXCEPT !.kref = Referenced(found, h)]]
          /\ request' = [request EXCEPT ![r] = Delivered(@, found)]
    /\ grace' = [h \in Handler |-> grace[h] \ {r}]
    /\ UNCHANGED <<handlers, closed, held>>

\* The handler answers in its callback, except to the FCP registers.
Answered(q, fcp) == [(IF fcp THEN q ELSE Send(q)) EXCEPT !.pc = "returning"]

\* address_callback() of a driver
DriverCallback(r) ==
    /\ request[r].pc = "running" /\ Head(request[r].todo) \notin Client
    /\ request' = [request EXCEPT ![r] = Answered(@, Fcp(r))]
    /\ UNCHANGED <<handlers, handler, grace, closed, held>>

\* handle_request() of core-cdev.c: the client gets hold of the request.
ClientCallback(r) ==
    LET h == Head(request[r].todo)
    IN /\ request[r].pc = "running" /\ h \in Client /\ h \notin closed
       /\ held' = [held EXCEPT ![r] = @ \cup {h}]
       /\ request' = [request EXCEPT ![r].pc = "returning",
                                     ![r].kref = IF Fcp(r) THEN @ + 1 ELSE @]
       /\ UNCHANGED <<handlers, handler, grace, closed>>

\* It fails if the client is being closed or if there is no memory.
ClientCallbackFails(r) ==
    LET h == Head(request[r].todo)
    IN /\ request[r].pc = "running" /\ h \in Client
       /\ h \in closed \/ NoMemory
       /\ request' = [request EXCEPT ![r] = Answered(@, Fcp(r))]
       /\ UNCHANGED <<handlers, handler, grace, closed, held>>

\* The next handler; in the end the core answers a request to the FCP registers.
NextHandler(q, rest, fcp) ==
    IF rest # <<>> THEN [q EXCEPT !.todo = rest, !.pc = "running"]
    ELSE IF fcp THEN Send([q EXCEPT !.todo = rest, !.pc = "done"])
    ELSE [q EXCEPT !.todo = rest, !.pc = "done"]

\* put_address_handler(), when the callback has returned
Return(r) ==
    /\ request[r].pc = "returning"
    /\ handler' = [handler EXCEPT ![Head(request[r].todo)].kref = @ - 1]
    /\ request' = [request EXCEPT ![r] = NextHandler(@, Tail(@.todo), Fcp(r))]
    /\ UNCHANGED <<handlers, grace, closed, held>>

\* free_response_callback(): the response was sent or given up.
ResponseDone(r) ==
    /\ request[r].inflight
    /\ request' = [request EXCEPT ![r].inflight = FALSE, ![r].kref = @ - 2]
    /\ UNCHANGED <<handlers, handler, grace, closed, held>>

-----------------------------------------------------------------------------
(* Clients of the character device.                                        *)

\* ioctl_send_response()
ClientRespond(r, c) ==
    /\ c \in held[r] /\ c \notin closed
    /\ held' = [held EXCEPT ![r] = @ \ {c}]
    /\ \/ request' = [request EXCEPT ![r] = IF Fcp(r) THEN PutRequest(@) ELSE Send(@)]
       \/ /\ BadAnswer /\ ~Fcp(r)        \* -EINVAL, -EFAULT
          /\ request' = [request EXCEPT ![r] = PutRequest(@)]
    /\ UNCHANGED <<handlers, handler, grace, closed>>

\* fw_device_op_release(): no resource is added from here on.
ClientClose(c) ==
    /\ c \notin closed
    /\ closed' = closed \cup {c}
    /\ UNCHANGED <<handlers, handler, grace, request, held>>

\* Mutant: the reference is put without an answer.
ClosingSilently(q, fcp) == PutRequest(q)

\* release_request() of core-cdev.c
ReleaseAnswer(q, fcp) == IF fcp THEN PutRequest(q) ELSE Send(q)

ClientRelease(r, c) ==
    /\ c \in held[r] /\ c \in closed
    /\ held' = [held EXCEPT ![r] = @ \ {c}]
    /\ request' = [request EXCEPT ![r] = ReleaseAnswer(@, Fcp(r))]
    /\ UNCHANGED <<handlers, handler, grace, closed>>

-----------------------------------------------------------------------------
HandlerRemoval(h) == Unlink(h) \/ PutHandler(h) \/ Removed(h)
Handling(r) ==
    \/ Lookup(r) \/ DriverCallback(r) \/ ClientCallback(r) \/ ClientCallbackFails(r) \/ Return(r)

InboundNext ==
    \/ \E h \in Handler : Add(h) \/ HandlerRemoval(h)
    \/ \E r \in Request : Receive(r) \/ Drop(r) \/ Handling(r) \/ ResponseDone(r)
    \/ \E c \in Client : ClientClose(c) \/ \E r \in Request : ClientRespond(r, c) \/ ClientRelease(r, c)

InboundSpec == InboundInit /\ [][InboundNext]_inboundvars

(* Contexts run, responses are transmitted or given up, a removal that was  *)
(* begun goes on, and clients that have a request are closed some day.      *)
InboundFairness ==
    /\ \A r \in Request : WF_inboundvars(Handling(r)) /\ WF_inboundvars(ResponseDone(r))
    /\ \A h \in Handler : WF_inboundvars(PutHandler(h)) /\ WF_inboundvars(Removed(h))
    /\ \A c \in Client : /\ WF_inboundvars(ClientClose(c) /\ \E r \in Request : c \in held[r])
                         /\ \A r \in Request : WF_inboundvars(ClientRelease(r, c))
InboundFairSpec == InboundSpec /\ InboundFairness

-----------------------------------------------------------------------------
(* Properties.                                                             *)

\* A callback of h is about to run, or runs.
InUse(h) == {r \in Request : /\ request[r].pc \in {"running", "returning"}
                             /\ \E i \in DOMAIN request[r].todo : request[r].todo[i] = h}

\* When fw_core_remove_address_handler() has returned, the callback does not run
\* and will not be run for a request that was received before.
NoCallbackAfterRemoval == \A h \in Handler : handler[h].pc = "absent" => InUse(h) = {}

\* The references to a handler are the one of its registration and one for each
\* context which uses it (get_address_handler(), put_address_handler()).
HandlerKref ==
    \A h \in Handler :
        handler[h].kref = Cardinality(InUse(h))
                          + (IF handler[h].pc \in {"listed", "unlinked"} THEN 1 ELSE 0)

\* A handler that is removed while requests arrive on several cards is kept until its
\* last callback has returned, and is not called afterwards.
HandlerOutlivesCallbacks == NoCallbackAfterRemoval /\ HandlerKref

\* Address allocations are exclusive, except for the FCP registers.
RegionsExclusive == InboundTypeOK /\
    \A g, h \in Handler :
        /\ handler[g].pc = "listed" /\ handler[h].pc = "listed" /\ g # h
        /\ ~InFcp(handler[g].offset, Region[g].length)
        /\ ~InFcp(handler[h].offset, Region[h].length)
        => ~Overlap(g, handler[h].offset, Region[h].length)

\* Whoever may still touch a request: the context that handles it, until it or a
\* handler has answered, the clients, and the response packet.
Touches(r) ==
    \/ request[r].pc \in {"lookup", "running"}
    \/ request[r].pc = "returning" /\ Fcp(r)
    \/ held[r] # {}
    \/ request[r].inflight

\* struct fw_request is freed when nobody touches it any more, and not before
\* (fw_request_get(), fw_request_put()).
RequestFreedInTime ==
    \A r \in Request : request[r].pc # "none" => (request[r].kref > 0 <=> Touches(r))

\* A request is answered at most once, and only if an answer is expected
\* (fw_send_response()).
AnsweredOnce ==
    \A r \in Request : request[r].responses <= (IF request[r].split THEN 1 ELSE 0)

\* Handlers and requests live as long as somebody uses them, regions are exclusive,
\* and answers are single, whatever the order of removals, callbacks and closes.
HandlersAndRequestsExact ==
    RegionsExclusive /\ HandlerOutlivesCallbacks /\ RequestFreedInTime /\ AnsweredOnce

\* The comment on fw_address_callback_t: the callback is responsible that
\* fw_send_response() is called.  So a split request that is no more was answered.
SplitIsAnswered ==
    \A r \in Request : /\ request[r].split /\ request[r].pc = "done" /\ request[r].kref = 0
                       => request[r].responses = 1

\* The comment on fw_address_callback_t: it is called in RCU read-side context.
CallbackInReadSide ==
    \A r \in Request : request[r].pc = "running" => r \in Readers

\* Every split request that was taken is answered in the end.
EveryRequestAnswered ==
    \A r \in Request : request[r].split ~> request[r].responses = 1

\* fw_core_remove_address_handler() returns.
RemovalReturns ==
    \A h \in Handler : handler[h].pc = "unlinked" ~> handler[h].pc = "absent"

\* Nobody waits for ever: neither the requester nor whoever removes a handler.
RequestsAndRemovalsEnd == EveryRequestAnswered /\ RemovalReturns
=============================================================================
