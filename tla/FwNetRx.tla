------------------------------- MODULE FwNetRx ------------------------------
(***************************************************************************)
(* Reception of IP over 1394 (drivers/firewire/net.c): reassembly of the    *)
(* datagrams of one peer from fragments that arrive in any order, get lost, *)
(* or arrive twice, while bus resets change the peer's node ID.             *)
(*                                                                          *)
(* The length of a datagram is counted in units; every fragment carries one *)
(* unit.  Datagram labels do not wrap: 65536 datagrams are sent before one  *)
(* is used again.                                                           *)
(***************************************************************************)
EXTENDS Integers, SequencesExt, FiniteSetsExt

CONSTANTS
    DgSize,         \* the datagrams that the peer sends: a sequence of sizes
    MaxPartial,     \* FWNET_MAX_FRAGMENTS
    RxMaxGen,       \* bound: number of bus resets
    RxMaxTwice,     \* bound: number of fragments that arrive twice
    RxMaxNoMem      \* bound: number of failed allocations

ASSUME RxAssumption ==
    /\ DgSize \in Seq(Nat \ {0}) /\ MaxPartial \in Nat \ {0}
    /\ RxMaxGen \in Nat /\ RxMaxTwice \in Nat /\ RxMaxNoMem \in Nat

VARIABLES
    rxPeer,     \* struct fwnet_peer: generation, pd_list and pdg_size
    rxNet,      \* generation of the bus and the fragments on their way
    rxUp,       \* what was passed to the networking core
    rxCount     \* faults so far

rxvars == <<rxPeer, rxNet, rxUp, rxCount>>

Datagram == DOMAIN DgSize
UnitsOf(k) == {<<k, u>> : u \in 0 .. DgSize[k] - 1}

FwNetRxInit ==
    /\ rxPeer = [gen |-> 0, pd_list |-> <<>>, pdg_size |-> 0]
    /\ rxNet = [gen |-> 0, wire |-> {}, sent |-> 0]
    /\ rxUp = {}
    /\ rxCount = [twice |-> 0, nomem |-> 0]

-----------------------------------------------------------------------------
(* The fragment list of a partial datagram: entries [off, len].             *)

FragEnd(f) == f.off + f.len

fwnet_frag_overlap(fi, off, len) ==
    \E i \in DOMAIN fi : off < FragEnd(fi[i]) /\ off + len > fi[i].off

\* The loop of fwnet_frag_new() stops at the first entry that the new fragment touches,
\* that lies below it, or that lies above it.
Decides(f, off, len) ==
    FragEnd(f) = off \/ off + len = f.off \/ off > FragEnd(f) \/ off + len < f.off

\* The new fragment continues entry i and may close the gap to the next entry.
TackOnEnd(fi, i, off, len) ==
    IF i < Len(fi) /\ off + len = fi[i + 1].off
    THEN RemoveAt([fi EXCEPT ![i].len = @ + len + fi[i + 1].len], i + 1)
    ELSE [fi EXCEPT ![i].len = @ + len]

\* The new fragment precedes entry i and may close the gap to the previous entry.
TackOnBeginning(fi, i, off, len) ==
    IF i > 1 /\ FragEnd(fi[i - 1]) = off
    THEN RemoveAt([fi EXCEPT ![i - 1].len = @ + len + fi[i].len], i)
    ELSE [fi EXCEPT ![i].off = off, ![i].len = @ + len]

fwnet_frag_new(fi, off, len) ==
    LET hits == {i \in DOMAIN fi : Decides(fi[i], off, len)}
        new  == [off |-> off, len |-> len]
        i    == Min(hits)
    IN IF hits = {} THEN <<new>> \o fi
       ELSE IF FragEnd(fi[i]) = off THEN TackOnEnd(fi, i, off, len)
       ELSE IF off + len = fi[i].off THEN TackOnBeginning(fi, i, off, len)
       ELSE IF off > FragEnd(fi[i]) THEN InsertAt(fi, i + 1, new)
       ELSE InsertAt(fi, i, new)

\* Only the first entry is looked at.
fwnet_pd_is_complete(pd) == pd.fi_list[1].len = DgSize[pd.label]

-----------------------------------------------------------------------------
(* Partial datagrams of the peer; got is the payload copied to the buffer,  *)
(* runs the largest number of entries that fi_list has had.                 *)

fwnet_pd_new(label, off) ==
    [label |-> label, fi_list |-> fwnet_frag_new(<<>>, off, 1), got |-> {<<label, off>>},
     runs |-> 1]

fwnet_pd_find(list, label) == {i \in DOMAIN list : list[i].label = label}

fwnet_pd_update(pd, off) ==
    LET fi == fwnet_frag_new(pd.fi_list, off, 1)
    IN [pd EXCEPT !.fi_list = fi, !.got = @ \cup {<<pd.label, off>>}, !.runs = Max({@, Len(fi)})]

\* The oldest partial datagrams make room for a new one.
RoomFor(list, size) ==
    LET drop == IF size >= MaxPartial THEN size - MaxPartial + 1 ELSE 0
    IN [list |-> SubSeq(list, drop + 1, Len(list)), size |-> size - drop]

\* Mutant: an overlapping fragment does not discard the old datagram.
StoredOverlapping(label, off, mem) ==
    LET list  == rxPeer.pd_list
        found == fwnet_pd_find(list, label)
        room  == RoomFor(list, rxPeer.pdg_size)
    IN IF found = {}
       THEN [list |-> Append(room.list, fwnet_pd_new(label, off)), size |-> room.size + 1]
       ELSE LET i == CHOOSE i \in found : TRUE
            IN [list |-> Append(RemoveAt(list, i), fwnet_pd_update(list[i], off)),
                size |-> rxPeer.pdg_size]

\* The list and its counter after a fragment was stored, or could not be for want of
\* memory: then a new datagram is not begun and an old one is dropped.
Stored(label, off, mem) ==
    LET list  == rxPeer.pd_list
        found == fwnet_pd_find(list, label)
        room  == RoomFor(list, rxPeer.pdg_size)
    IN IF found = {}
       THEN IF mem THEN [list |-> Append(room.list, fwnet_pd_new(label, off)),
                         size |-> room.size + 1]
            ELSE room
       ELSE LET i == CHOOSE i \in found : TRUE IN
            IF ~mem THEN [list |-> RemoveAt(list, i), size |-> rxPeer.pdg_size - 1]
            ELSE [list |-> Append(RemoveAt(list, i),
                            IF fwnet_frag_overlap(list[i].fi_list, off, 1)
                            THEN fwnet_pd_new(label, off)
                            ELSE fwnet_pd_update(list[i], off)),
                  size |-> rxPeer.pdg_size]

\* fwnet_incoming_packet() of a fragment, under dev->lock: a complete datagram goes to
\* fwnet_finish_incoming_packet().
fwnet_incoming_packet(label, off, mem) ==
    LET s    == Stored(label, off, mem)
        last == Len(s.list)
    IN IF rxPeer.gen # rxNet.gen \/ fwnet_pd_find(s.list, label) = {}
       THEN /\ rxPeer' = IF rxPeer.gen # rxNet.gen THEN rxPeer
                         ELSE [rxPeer EXCEPT !.pd_list = s.list, !.pdg_size = s.size]
            /\ UNCHANGED rxUp
       ELSE IF fwnet_pd_is_complete(s.list[last])
       THEN /\ rxPeer' = [rxPeer EXCEPT !.pd_list = Front(s.list), !.pdg_size = s.size - 1]
            /\ rxUp' = rxUp \cup {s.list[last].got}
       ELSE /\ rxPeer' = [rxPeer EXCEPT !.pd_list = s.list, !.pdg_size = s.size]
            /\ UNCHANGED rxUp

-----------------------------------------------------------------------------
\* The peer sends its next datagram.
PeerSends ==
    /\ rxNet.sent < Len(DgSize)
    /\ rxNet' = [rxNet EXCEPT !.sent = @ + 1, !.wire = @ \cup UnitsOf(rxNet.sent + 1)]
    /\ UNCHANGED <<rxPeer, rxUp, rxCount>>

\* fwnet_receive_packet(), the handler of the FIFO: a fragment arrives, perhaps not for
\* the last time, and there may be no memory for it.
fwnet_receive_packet ==
    \E f \in rxNet.wire, again \in BOOLEAN, mem \in BOOLEAN :
        /\ again => rxCount.twice < RxMaxTwice
        /\ ~mem => rxCount.nomem < RxMaxNoMem
        /\ fwnet_incoming_packet(f[1], f[2], mem)
        /\ rxNet' = [rxNet EXCEPT !.wire = IF again THEN @ ELSE @ \ {f}]
        /\ rxCount' = [twice |-> rxCount.twice + (IF again THEN 1 ELSE 0),
                       nomem |-> rxCount.nomem + (IF mem THEN 0 ELSE 1)]

RxBusReset ==
    /\ rxNet.gen < RxMaxGen /\ rxNet.sent > 0
    /\ rxNet' = [rxNet EXCEPT !.gen = @ + 1]
    /\ UNCHANGED <<rxPeer, rxUp, rxCount>>

\* fwnet_update(): partial datagrams are kept.
fwnet_update ==
    /\ rxPeer.gen # rxNet.gen
    /\ rxPeer' = [rxPeer EXCEPT !.gen = rxNet.gen]
    /\ UNCHANGED <<rxNet, rxUp, rxCount>>

FwNetRxNext == PeerSends \/ fwnet_receive_packet \/ RxBusReset \/ fwnet_update

FwNetRxSpec == FwNetRxInit /\ [][FwNetRxNext]_rxvars

-----------------------------------------------------------------------------
FwNetRxTypeOK ==
    /\ rxPeer.gen \in 0 .. RxMaxGen /\ rxNet.gen \in 0 .. RxMaxGen
    /\ rxNet.sent \in 0 .. Len(DgSize)
    /\ \A i \in DOMAIN rxPeer.pd_list : rxPeer.pd_list[i].label \in Datagram

Units(pd) == UNION {fi.off .. FragEnd(fi) - 1 : fi \in ToSet(pd.fi_list)}

(* Reassembly (net.c:276-443, 562-704): what goes up is one whole datagram; *)
(* the fragment list holds exactly the units that arrived, without overlap; *)
(* pdg_size counts the partial datagrams and stays within the limit; and a  *)
(* datagram is passed up with its last unit, unless its fragments arrived   *)
(* so much out of order that its list had three entries: fwnet_frag_new()   *)
(* then fails to join neighbours, and the datagram is never complete.       *)
ReassemblyExact ==
    /\ FwNetRxTypeOK
    /\ \A d \in rxUp : \E k \in Datagram : d = UnitsOf(k)
    /\ rxPeer.pdg_size = Len(rxPeer.pd_list) /\ rxPeer.pdg_size <= MaxPartial
    /\ \A i \in DOMAIN rxPeer.pd_list : LET pd == rxPeer.pd_list[i] IN
        /\ {<<pd.label, u>> : u \in Units(pd)} = pd.got
        /\ MapThenSumSet(LAMBDA j : pd.fi_list[j].len, DOMAIN pd.fi_list) = Cardinality(pd.got)
        /\ pd.got = UnitsOf(pd.label) => pd.runs > 2
=============================================================================
