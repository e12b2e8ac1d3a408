-------------------------- MODULE MCUserInterface --------------------------
(***************************************************************************)
(* Instances, for TLC, of what is between userspace and the bus: the       *)
(* streams and reference counts behind PCM and MIDI devices, the hwdep     *)
(* devices, and clients of the character devices.  They are checked side   *)
(* by side, each with an environment of its own: only one of them, part,   *)
(* leaves its initial state.                                               *)
(***************************************************************************)
EXTENDS SndDuplex, SndHwdep, FwCdevEvents
VARIABLE part

UserInit ==
    /\ part \in {"duplex", "hwdep", "client"}
    /\ DupInit /\ HwInit /\ CdevInit
UserNext ==
    \/ part = "duplex" /\ DupNext /\ UNCHANGED <<part, hwdepvars, cdevvars>>
    \/ part = "hwdep" /\ HwNext /\ UNCHANGED <<part, dupvars, cdevvars>>
    \/ part = "client" /\ CdevNext /\ UNCHANGED <<part, dupvars, hwdepvars>>
UserSpec == UserInit /\ [][UserNext]_<<part, dupvars, hwdepvars, cdevvars>>
=============================================================================
