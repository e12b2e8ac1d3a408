---------------------------- MODULE MCCoreRaces ----------------------------
(***************************************************************************)
(* Instances, for TLC, of the parts of firewire-core that a bus reset sets *)
(* to work, and of inbound requests: the bus manager election, the         *)
(* topology and the address handlers.  They are checked side by side, each *)
(* with an environment of its own: only one of them, part, leaves its      *)
(* initial state.                                                          *)
(***************************************************************************)
EXTENDS FwBusManager, FwInbound, FwTopology

CONSTANTS h1, h2, p0, p1, p2, p3, d1, d2, c1, c2
VARIABLE part

PhyIds == [n \in Node |-> CASE n = h1 -> 0 [] n = h2 -> 1]

\* Offsets 0 to 3 are ordinary memory, 4 and 5 are the FCP registers.  d1 and c1
\* look for a place in memory, d2 and c2 for the FCP registers.
MemoryAndFcp ==
    [h \in Handler |-> CASE h = d1 -> [start |-> 0, end |-> 4, length |-> 2]
                         [] h = c1 -> [start |-> 0, end |-> 3, length |-> 1]
                         [] h \in {d2, c2} -> [start |-> 4, end |-> 6, length |-> 2]]

\* A hub with three ports, two PHYs with two, and a leaf.
Mixed == [p \in Phy |-> CASE p = p1 -> 3 [] p = p3 -> 1 [] OTHER -> 2]

RacesInit ==
    /\ part \in {"bus manager", "inbound", "topology"}
    /\ BmInit /\ InboundInit /\ TopoInit
RacesNext ==
    \/ part = "bus manager" /\ BmNext /\ UNCHANGED <<part, inboundvars, topovars>>
    \/ part = "inbound" /\ InboundNext /\ UNCHANGED <<part, bmvars, topovars>>
    \/ part = "topology" /\ TopoNext /\ UNCHANGED <<part, bmvars, inboundvars>>
RacesSpec == RacesInit /\ [][RacesNext]_<<part, bmvars, inboundvars, topovars>>
=============================================================================
