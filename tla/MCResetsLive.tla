---------------------------- MODULE MCResetsLive ----------------------------
(***************************************************************************)
(* Instances, for TLC, of what a bus reset sets going and must come to an  *)
(* end: the bus manager work, and the isochronous resources of userspace   *)
(* clients.  They are checked side by side, each with an environment of    *)
(* its own: only one of them, part, leaves its initial state, where no     *)
(* fair action is enabled.                                                 *)
(***************************************************************************)
EXTENDS FwBusManager, FwCdevIso

CONSTANTS h1, p1, p2
VARIABLE part

PhyIds == [n \in Node |-> CASE n = p1 -> 0 [] n = h1 -> 1 [] n = p2 -> 2]

\* A careful client that is served, and any client among others.
Careful == [contended |-> FALSE, careful |-> TRUE, resets |-> 4]
Any == [contended |-> TRUE, careful |-> FALSE, resets |-> 1]
CarefulOrAny == {Careful, Any}

\* Two operations, of other nodes or without a handle.
FewOthers == count.other + count.once <= 2

ResetsInit ==
    /\ part \in {"bus manager", "iso resources"}
    /\ BmInit /\ CdevIsoInit
    /\ part # "iso resources" => env = Careful
ResetsNext ==
    \/ part = "bus manager" /\ BmNext /\ UNCHANGED <<part, isoresvars>>
    \/ part = "iso resources" /\ CdevIsoNext /\ FewOthers' /\ UNCHANGED <<part, bmvars>>
ResetsSpec ==
    /\ ResetsInit /\ [][ResetsNext]_<<part, bmvars, isoresvars>>
    /\ BmFairness /\ CdevIsoFairness
=============================================================================
