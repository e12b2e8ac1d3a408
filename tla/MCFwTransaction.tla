-------------------------- MODULE MCFwTransaction --------------------------
(* Instances of FwTransaction for TLC.                                     *)
EXTENDS FwTransaction, TLC

Symmetry == Permutations(Txn)
=============================================================================
