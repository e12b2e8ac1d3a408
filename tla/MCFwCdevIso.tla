---------------------------- MODULE MCFwCdevIso ----------------------------
(* Instances of FwCdevIso for TLC.                                         *)
EXTENDS FwCdevIso

Careless == [contended |-> FALSE, careful |-> FALSE, resets |-> 1]
Any == [contended |-> TRUE, careful |-> FALSE, resets |-> 1]
Careful == [contended |-> FALSE, careful |-> TRUE, resets |-> 4]

\* A careful client that is served, and any client among others.
CarefulOrAny == {Careful, Any}
OnlyCareless == {Careless}
AnyOnly == {Any}
=============================================================================
