------------------------------ MODULE MCFwDevice ------------------------------
(* Instances of FwDevice for TLC.                                              *)
EXTENDS FwDevice
CONSTANTS d1, d2, n1, n2, g1, g2

Quiet == [link_changes |-> FALSE, no_memory |-> FALSE, rom_goes_back |-> FALSE, resets |-> 3, fails |-> 1]
Rough == [link_changes |-> TRUE, no_memory |-> TRUE, rom_goes_back |-> TRUE, resets |-> 3, fails |-> 1]
QuietOrRough == {Quiet, Rough}
===============================================================================
