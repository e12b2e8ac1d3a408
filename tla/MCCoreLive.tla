----------------------------- MODULE MCCoreLive -----------------------------
(***************************************************************************)
(* Instances, for TLC, of what others wait for in core-transaction.c: the  *)
(* callback of an outbound transaction, the answer to an inbound request   *)
(* and the removal of an address handler.  They are checked side by side,  *)
(* each with an environment of its own: only one of them, part, leaves its *)
(* initial state, where no fair action is enabled.                         *)
(***************************************************************************)
EXTENDS FwTransaction, FwInbound

CONSTANTS d2, c1, c2
VARIABLE part

\* Offsets 0 to 3 are ordinary memory, where c1 looks for a place; 4 and 5 are the
\* FCP registers, of d2 and c2.
MemoryAndFcp ==
    [h \in Handler |-> IF h = c1 THEN [start |-> 0, end |-> 3, length |-> 1]
                                 ELSE [start |-> 4, end |-> 6, length |-> 2]]

CoreInit == part \in {"transactions", "inbound"} /\ Init /\ InboundInit
CoreNext ==
    \/ part = "transactions" /\ Next /\ UNCHANGED <<part, inboundvars>>
    \/ part = "inbound" /\ InboundNext /\ UNCHANGED <<part, vars>>
CoreLiveSpec ==
    CoreInit /\ [][CoreNext]_<<part, vars, inboundvars>> /\ Fairness /\ InboundFairness
=============================================================================
