---------------------------- MODULE MCStreaming ----------------------------
(***************************************************************************)
(* Instances, for TLC, of AMDTP streaming: the sequences of data blocks    *)
(* and time stamps, the streams of a domain, which start together, and the *)
(* isochronous resources they need.  They are checked side by side, each   *)
(* with an environment of its own: only one of them, part, leaves its      *)
(* initial state, where no fair action is enabled.                         *)
(***************************************************************************)
EXTENDS AmdtpSequence, AmdtpDomain, FwIsoManage

CONSTANTS t1, t2, r1, r2
VARIABLE part

Domain(list, kind, replay, fly) ==
    [list |-> list, kind |-> kind, replay |-> replay, fly |-> fly]

\* One to three streams, with and without CIP headers, replayed or not.
Domains ==
    { Domain(<<r1, t2, t1>>, "cip", FALSE, FALSE), Domain(<<r2, t1, r1>>, "cip", TRUE, FALSE),
      Domain(<<t1, r1>>, "no header", TRUE, TRUE), Domain(<<r1, t1>>, "jumbo", FALSE, FALSE),
      Domain(<<t1>>, "cip", FALSE, FALSE) }

\* Any channel and bandwidth, or bandwidth alone.
AnyOrNone == {Channel, {}}

StreamingInit ==
    /\ part \in {"sequence", "domain", "resources"}
    /\ AmdtpSequenceInit /\ AmdtpDomainInit /\ IrmInit
StreamingNext ==
    \/ part = "sequence" /\ AmdtpSequenceNext /\ UNCHANGED <<part, amvars, irmvars>>
    \/ part = "domain" /\ AmdtpDomainNext /\ UNCHANGED <<part, aseq, irmvars>>
    \/ part = "resources" /\ IrmNext /\ UNCHANGED <<part, aseq, amvars>>
StreamingSpec ==
    /\ StreamingInit /\ [][StreamingNext]_<<part, aseq, amvars, irmvars>>
    /\ AmdtpDomainFairness
=============================================================================
