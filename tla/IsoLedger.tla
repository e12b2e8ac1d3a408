----------------------------- MODULE IsoLedger -----------------------------
(***************************************************************************)
(* What fw_iso_resource_manage() promises to its callers, whoever they are: *)
(* an isochronous channel has one owner at most, no more bandwidth is given *)
(* away than there is, and a bus reset takes everything back.  A user gives *)
(* back what is its own, except after an answer of the IRM was lost: then a *)
(* user that tries again may give back what meanwhile belongs to another,   *)
(* and bandwidth may be given away twice.                                   *)
(***************************************************************************)
EXTENDS Naturals, FiniteSets

CONSTANTS User, Channel, Initial

VARIABLES
    channels,   \* channels each user owns
    units,      \* bandwidth units each user owns
    lost        \* an answer of the IRM was lost since the bus reset

ledger == <<channels, units, lost>>

Init ==
    /\ channels = [u \in User |-> {}]
    /\ units = [u \in User |-> 0]
    /\ lost = FALSE

\* Bandwidth that is given away, unit by unit.
Given == UNION {{u} \X (1 .. units[u]) : u \in User}

\* The answer to a change may be lost.
Lose == lost' \in {lost, TRUE}

TakeChannel(u, c) ==
    /\ \A v \in User : c \notin channels[v]
    /\ channels' = [channels EXCEPT ![u] = @ \cup {c}]
    /\ Lose
    /\ UNCHANGED units
GiveChannel(u, c) ==
    /\ c \in channels[u]
    /\ channels' = [channels EXCEPT ![u] = @ \ {c}]
    /\ Lose
    /\ UNCHANGED units
GiveForeignChannel(c) ==
    /\ lost /\ UNCHANGED lost
    /\ channels' = [u \in User |-> channels[u] \ {c}]
    /\ UNCHANGED units
TakeBandwidth(u, n) ==
    /\ lost \/ Cardinality(Given) + n <= Initial
    /\ units' = [units EXCEPT ![u] = @ + n]
    /\ Lose
    /\ UNCHANGED channels
GiveBandwidth(u, n) ==
    /\ n <= units[u]
    /\ units' = [units EXCEPT ![u] = @ - n]
    /\ Lose
    /\ UNCHANGED channels
LoseAnswer ==
    /\ lost' = TRUE
    /\ UNCHANGED <<channels, units>>
BusReset == Init'

Next ==
    \/ \E u \in User, c \in Channel : TakeChannel(u, c) \/ GiveChannel(u, c)
    \/ \E c \in Channel : GiveForeignChannel(c)
    \/ \E u \in User, n \in 1 .. Initial : TakeBandwidth(u, n) \/ GiveBandwidth(u, n)
    \/ LoseAnswer \/ BusReset

Spec == Init /\ [][Next]_ledger
=============================================================================
