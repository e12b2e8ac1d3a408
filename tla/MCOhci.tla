------------------------------- MODULE MCOhci -------------------------------
(***************************************************************************)
(* Instances, for TLC, of firewire-ohci: bus reset handling, asynchronous  *)
(* receive DMA, isochronous DMA and the allocation of its contexts.  They  *)
(* are checked side by side, each with an environment of its own: only one *)
(* of them, part, leaves its initial state, where no fair action is        *)
(* enabled.                                                                *)
(***************************************************************************)
EXTENDS OhciBusReset, OhciAr, OhciIso, OhciIsoAlloc
VARIABLE part

OhciInit ==
    /\ part \in {"bus reset", "receive", "isochronous", "contexts"}
    /\ ResetInit /\ ArInit /\ IsoInit /\ AllocInit
OhciNext ==
    \/ part = "bus reset" /\ ResetNext /\ UNCHANGED <<part, arvars, isovars, allocvars>>
    \/ part = "receive" /\ ArNext /\ UNCHANGED <<part, resetvars, isovars, allocvars>>
    \/ part = "isochronous" /\ IsoNext /\ UNCHANGED <<part, resetvars, arvars, allocvars>>
    \/ part = "contexts" /\ AllocNext /\ UNCHANGED <<part, resetvars, arvars, isovars>>
OhciSpec ==
    /\ OhciInit /\ [][OhciNext]_<<part, resetvars, arvars, isovars, allocvars>>
    /\ ResetFairness /\ ArFairness /\ IsoFairness
=============================================================================
