---------------------------- MODULE MCStorageNet ----------------------------
(***************************************************************************)
(* Instances, for TLC, of the storage drivers on both sides of the bus and *)
(* of IP datagram reception: firewire-sbp2, the management agent and the   *)
(* command block agents of the SBP-2 target, and firewire-net.  They are   *)
(* checked side by side, each with an environment of its own: only one of  *)
(* them, part, leaves its initial state, where no fair action is enabled.  *)
(***************************************************************************)
EXTENDS FwSbp2, FwNetRx, SbpAgent
VARIABLE part

\* Three datagrams; the first one needs up to four fragments.
DatagramSizes == <<4, 2, 2>>

StorageInit ==
    /\ part \in {"sbp2", "net", "target", "agent"}
    /\ Sbp2Init /\ FwNetRxInit /\ SbpTargetInit /\ SbpAgentInit
StorageNext ==
    \/ part = "sbp2" /\ Sbp2Next /\ UNCHANGED <<part, rxvars, tgtvars, agvars>>
    \/ part = "net" /\ FwNetRxNext /\ UNCHANGED <<part, sbpvars, tgtvars, agvars>>
    \/ part = "target" /\ SbpTargetNext /\ UNCHANGED <<part, sbpvars, rxvars, agvars>>
    \/ part = "agent" /\ SbpAgentNext /\ UNCHANGED <<part, sbpvars, rxvars, tgtvars>>
StorageSpec ==
    /\ StorageInit /\ [][StorageNext]_<<part, sbpvars, rxvars, tgtvars, agvars>>
    /\ Sbp2Fairness
=============================================================================
