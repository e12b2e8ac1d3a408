----------------------------- MODULE FwTopology -----------------------------
(***************************************************************************)
(* The topology of the bus as the core sees it (core-topology.c): PHYs     *)
(* with ports and cables send their self ID packets after a bus reset,     *)
(* build_tree() makes a tree of struct fw_node out of them, update_tree()  *)
(* merges it into the tree of the card and reports nodes that came, stayed *)
(* or left to the device code.                                             *)
(*                                                                         *)
(* The bus changes by at most one cable per bus reset (plugging or pulling *)
(* a cable is a bus reset).  A bus reset may be missed, or its self IDs    *)
(* garbled.  A node record keeps, for the properties only, the PHY it was  *)
(* made for.                                                               *)
(***************************************************************************)
EXTENDS Integers, Sequences, FiniteSetsExt

CONSTANTS
  Phy,           \* PHYs that may be on the bus
  Local,         \* the PHY of the card
  Contenders,    \* PHYs that contend for isochronous resource manager
  NPorts,        \* ports a self ID sequence has room for
  PortsOf,       \* how many ports each PHY has
  Switchable,    \* PHYs whose link layer is switched on and off
  Garbled,       \* whether the cables may change at a bus reset whose self IDs are
                 \* inconsistent
  MaxMissed,     \* bound: bus resets in a row whose self IDs were not processed
  Unconnected

ASSUME TopologyAssumption ==
  /\ Local \in Phy /\ Contenders \subseteq Phy /\ Switchable \subseteq Phy /\ NPorts \in Nat \ {0}
  /\ MaxMissed \in Nat /\ Garbled \in BOOLEAN /\ Unconnected \notin Phy

Ports == 1..NPorts

ASSUME PortsAssumption == PortsOf \in [Phy -> Ports]

VARIABLES
  wiring,   \* cables: for each port of a PHY what it is connected to; link layer on
  behind,   \* bus resets since the last processed self IDs
  topo      \* struct fw_card: tree, local, root and IRM node, nodes with a device

topovars == <<wiring, behind, topo>>

(***************************************************************************)
(* The bus: cables and the self ID packets of a tree.                      *)
(***************************************************************************)

Neighbours(cable, p) == {cable[p][i][1] : i \in {j \in Ports : cable[p][j] # Unconnected}}

RECURSIVE Component(_, _)
Component(cable, seen) ==
  LET more == seen \cup UNION {Neighbours(cable, p) : p \in seen}
  IN  IF more = seen THEN seen ELSE Component(cable, more)

\* The PHYs below p, behind its ports up to n, children first.
RECURSIVE Postorder(_, _, _, _)
Postorder(cable, p, parent, n) ==
  IF n = 0 THEN <<>>
  ELSE Postorder(cable, p, parent, n - 1) \o
       IF cable[p][n] = Unconnected \/ cable[p][n][1] = parent THEN <<>>
       ELSE Append(Postorder(cable, cable[p][n][1], p, NPorts), <<cable[p][n][1], p>>)

Status(cable, p, parent, i) ==
  IF i > PortsOf[p] THEN "none"
  ELSE IF cable[p][i] = Unconnected THEN "nconn"
  ELSE IF cable[p][i][1] = parent THEN "parent" ELSE "child"

\* What the PHYs send: PHY IDs count from 0, the root comes last.
SelfIds(cable, link, root) ==
  LET order == Append(Postorder(cable, root, Unconnected, NPorts), <<root, Unconnected>>)
  IN  [k \in 1..Len(order) |->
         [phy |-> order[k][1], id |-> k - 1, link |-> link[order[k][1]],
          ports |-> [i \in Ports |-> Status(cable, order[k][1], order[k][2], i)]]]

(***************************************************************************)
(* build_tree().  Nodes are named by the elements of name.                 *)
(***************************************************************************)

WithStatus(sid, s) == {i \in Ports : sid.ports[i] = s}

TotalPorts(sid) == NPorts - Cardinality(WithStatus(sid, "none"))

\* The ports that the second loop of build_tree() looks at, with the given status.
Scanned(sid, s) == {i \in WithStatus(sid, s) : i <= TotalPorts(sid)}

\* update_hop_count()
HopCount(tree, kids) ==
  LET deepest == Max({-1} \cup {tree[k].depth : k \in kids})
      first == CHOOSE k \in kids : tree[k].depth = deepest
      second == IF kids = {} THEN -1 ELSE Max({-1} \cup {tree[k].depth : k \in kids \ {first}})
  IN  [depth |-> deepest + 1,
       hops |-> Max({tree[k].hops : k \in kids} \cup {0, deepest + second + 2})]

\* Mutant: the nodes are taken off the stack from its top.
NthFromTop(sid, i) == Cardinality({j \in Scanned(sid, "child") : j >= i})

\* How many scanned child ports there are up to port i, that is, which of the nodes
\* popped off the stack belongs to port i.
Nth(sid, i) == Cardinality({j \in Scanned(sid, "child") : j <= i})

ParentPort(sid) ==
  LET parents == Scanned(sid, "parent")
  IN  IF parents = {} THEN 1 ELSE Max(parents)

BuildNode(acc, k, sid, me, last) ==
  LET nkids == Cardinality(WithStatus(sid, "child"))
      rest == Len(acc.stack) - nkids
      kids == [j \in 1..nkids |-> acc.stack[rest + j]]
      linked == {kids[Nth(sid, i)] : i \in Scanned(sid, "child")}
      parents == Cardinality(Scanned(sid, "parent"))
      hop == HopCount(acc.tree, linked)
      record == [phy |-> sid.phy, id |-> sid.id, link |-> sid.link,
                 depth |-> hop.depth, hops |-> hop.hops, up |-> ParentPort(sid),
                 ports |-> [i \in Ports |->
                              IF i \in Scanned(sid, "child") THEN kids[Nth(sid, i)] ELSE Unconnected]]
  IN
  IF \/ ~acc.ok
     \/ sid.id # k - 1                               \* PHY ID mismatch
     \/ nkids > Len(acc.stack)                       \* topology stack underflow
     \/ parents # IF last THEN 0 ELSE 1              \* parent port inconsistency
  THEN [acc EXCEPT !.ok = FALSE]
  ELSE [ok |-> TRUE,
        stack |-> SubSeq(acc.stack, 1, rest) \o <<me>>,
        tree |-> [x \in DOMAIN acc.tree \cup {me} |->
                    IF x = me THEN record
                    ELSE IF x \in linked
                    THEN [acc.tree[x] EXCEPT !.ports[acc.tree[x].up] = me]
                    ELSE acc.tree[x]]]

BuildTree(sids, name) ==
  LET built[k \in 0..Len(sids)] ==
        IF k = 0 THEN [ok |-> TRUE, stack |-> <<>>, tree |-> [x \in {} |-> Unconnected]]
        ELSE BuildNode(built[k - 1], k, sids[k], name[k], k = Len(sids))
  IN  built[Len(sids)]

(***************************************************************************)
(* for_each_fw_node(), update_tree(), move_tree()                          *)
(***************************************************************************)

\* What is left of a node when it is in the tree of the card: max_depth, and the port
\* remembered in color, are only used by build_tree().
Kept(record) == [record EXCEPT !.depth = 0, !.up = 1]

\* The nodes reached from n without passing through from.
RECURSIVE Reached(_, _, _)
Reached(tree, n, from) ==
  {n} \cup UNION {Reached(tree, tree[n].ports[i], n) :
                    i \in {j \in Ports : tree[n].ports[j] \notin {Unconnected, from}}}

\* The pairs of an old and a new node that update_tree() compares, starting at the
\* local node.
RECURSIVE Pairs(_, _, _, _, _)
Pairs(old, new, a, b, from) ==
  {<<a, b>>} \cup
  UNION {Pairs(old, new, old[a].ports[i], new[b].ports[i], a) :
           i \in {j \in Ports : /\ old[a].ports[j] \notin {Unconnected, from}
                                /\ new[b].ports[j] # Unconnected}}

\* Where old and new node of a pair differ: <<pair, port>> with nothing in the tree
\* one and something in the tree two.
Differ(pairs, one, two, x, y) ==
  {q \in pairs \X Ports : one[q[1][x]].ports[q[2]] = Unconnected /\ two[q[1][y]].ports[q[2]] # Unconnected}

\* The nodes that were unplugged, and those that were plugged in.
Lost(old, new, pairs) ==
  UNION {Reached(old, old[q[1][1]].ports[q[2]], q[1][1]) : q \in Differ(pairs, new, old, 2, 1)}
FoundNodes(old, new, pairs) ==
  UNION {Reached(new, new[q[1][2]].ports[q[2]], q[1][2]) : q \in Differ(pairs, old, new, 1, 2)}

Merge(old, new, local0, local1) ==
  LET pairs == Pairs(old, new, local0, local1, Unconnected)
      Old(b) == (CHOOSE p \in pairs : p[2] = b)[1]
      New(a) == (CHOOSE p \in pairs : p[1] = a)[2]
      kept == {p[1] : p \in pairs}
      found == FoundNodes(old, new, pairs)
      Moved(b) == IF b # Unconnected /\ \E p \in pairs : p[2] = b THEN Old(b) ELSE b
      KeptPort(a, i) == IF new[New(a)].ports[i] = Unconnected THEN Unconnected
                        ELSE IF old[a].ports[i] = Unconnected THEN new[New(a)].ports[i]
                        ELSE old[a].ports[i]
  IN
  [found |-> found, lost |-> Lost(old, new, pairs),
   node |-> [b \in {p[2] : p \in pairs} \cup found |-> Moved(b)],
   tree |-> [x \in kept \cup found |->
     IF x \in kept
     THEN [Kept(new[New(x)]) EXCEPT !.phy = old[x].phy,
                                    !.ports = [i \in Ports |-> KeptPort(x, i)]]
     ELSE [Kept(new[x]) EXCEPT !.ports = [i \in Ports |-> Moved(new[x].ports[i])]]]]

(***************************************************************************)
(* fw_core_handle_bus_reset()                                              *)
(***************************************************************************)

Names == Phy \X {0, 1}

\* Memory for new nodes, distinct from the nodes of the tree.
FreshNames(tree, sids) ==
  [k \in 1..Len(sids) |->
     CHOOSE x \in Names : x[1] = sids[k].phy /\ x \notin DOMAIN tree]

NoTree == [x \in {} |-> Unconnected]

EmptyCard == [tree |-> NoTree, local |-> Unconnected, root |-> Unconnected, irm |-> Unconnected,
              devices |-> {}]

\* The contender with the highest PHY ID.
LastContender(sids, name) ==
  LET c == {k \in 1..Len(sids) : sids[k].phy \in Contenders}
  IN  IF c = {} THEN Unconnected ELSE name[Max(c)]

NodeOf(sids, name, phy) ==
  LET k == {j \in 1..Len(sids) : sids[j].phy = phy}
  IN  IF k = {} THEN Unconnected ELSE name[CHOOSE j \in k : TRUE]

\* fw_destroy_nodes(), when the self IDs are not the successors of the last ones.
Destroyed(c) ==
  IF c.local = Unconnected THEN c
  ELSE [c EXCEPT !.tree = NoTree, !.local = Unconnected,
                 !.devices = @ \ Reached(c.tree, c.local, Unconnected)]

FoundTree(c, sids, name, built) ==
  LET local == NodeOf(sids, name, Local)
      reached == Reached(built.tree, local, Unconnected)
  IN  [tree |-> [x \in reached |-> Kept(built.tree[x])], local |-> local,
       root |-> name[Len(sids)], irm |-> LastContender(sids, name),
       devices |-> c.devices \cup reached]

Updated(c, sids, name, built) ==
  LET m == Merge(c.tree, built.tree, c.local, NodeOf(sids, name, Local))
      At(b) == IF b \in DOMAIN m.node THEN m.node[b] ELSE b
  IN  [tree |-> m.tree, local |-> c.local,
       root |-> At(name[Len(sids)]), irm |-> At(LastContender(sids, name)),
       devices |-> (c.devices \ m.lost) \cup m.found]

fw_core_handle_bus_reset(c0, sids, successor) ==
  LET c == IF successor THEN c0 ELSE Destroyed(c0)
      name == FreshNames(c.tree, sids)
      built == BuildTree(sids, name)
  IN  IF ~built.ok THEN c
      ELSE IF c.local = Unconnected THEN FoundTree(c, sids, name, built)
      ELSE Updated(c, sids, name, built)

(***************************************************************************)
(* Behaviour                                                               *)
(***************************************************************************)

Free(p) == {i \in 1..PortsOf[p] : wiring.cable[p][i] = Unconnected}

\* The changes of the cables one bus reset can stand for.
Changes ==
  {wiring.cable}
  \cup {[wiring.cable EXCEPT ![p][i] = Unconnected, ![wiring.cable[p][i][1]][wiring.cable[p][i][2]] = Unconnected] :
          <<p, i>> \in {q \in Phy \X Ports : wiring.cable[q[1]][q[2]] # Unconnected}}
  \cup {[wiring.cable EXCEPT ![p][i] = <<q, j>>, ![q][j] = <<p, i>>] :
          <<p, i, q, j>> \in {x \in Phy \X Ports \X Phy \X Ports :
             /\ x[2] \in Free(x[1]) /\ x[4] \in Free(x[3])
             /\ x[3] \notin Component(wiring.cable, {x[1]})}}

Switched(link) ==
  {link} \cup {[link EXCEPT ![p] = ~@] : p \in Switchable}

TopoInit ==
  /\ wiring = [cable |-> [p \in Phy |-> [i \in Ports |-> Unconnected]],
            link |-> [p \in Phy |-> TRUE]]
  /\ behind = 0
  /\ topo = fw_core_handle_bus_reset(EmptyCard, SelfIds(wiring.cable, wiring.link, Local), TRUE)

\* A bus reset whose self IDs are read, after at most one cable was plugged or pulled, or
\* one link layer switched; root is whoever won the arbitration.
SelfIdsRead ==
  /\ \E cable \in Changes, link \in Switched(wiring.link) :
       /\ cable = wiring.cable \/ link = wiring.link
       /\ wiring' = [cable |-> cable, link |-> link]
       /\ \E root \in Component(cable, {Local}) :
            topo' = fw_core_handle_bus_reset(topo, SelfIds(cable, link, root), behind = 0)
  /\ behind' = 0

\* A bus reset that another one followed before its self IDs were read.
MissedReset ==
  /\ behind < MaxMissed
  /\ \E cable \in Changes : wiring' = [wiring EXCEPT !.cable = cable]
  /\ behind' = behind + 1
  /\ UNCHANGED topo

\* A bus reset whose self IDs do not form a tree: build_tree() fails, card->generation
\* is the new one nevertheless.
GarbledReset ==
  /\ \E cable \in IF Garbled THEN Changes ELSE {wiring.cable} :
       wiring' = [wiring EXCEPT !.cable = cable]
  /\ topo' = fw_core_handle_bus_reset(topo, << [phy |-> Local, id |-> 1, link |-> TRUE,
                                      ports |-> [i \in Ports |-> "nconn"]] >>, behind = 0)
  /\ behind' = 0

TopoNext == SelfIdsRead \/ MissedReset \/ GarbledReset

TopoSpec == TopoInit /\ [][TopoNext]_topovars

(***************************************************************************)
(* Properties                                                              *)
(***************************************************************************)

\* The card has a tree, made from the self IDs of the last bus reset.
Current == behind = 0 /\ topo.local # Unconnected

\* Type correctness; hop counts are those of a tree.
TopoTypeOK ==
  /\ behind \in 0..MaxMissed
  /\ DOMAIN topo.tree \subseteq Names /\ topo.devices \subseteq Names
  /\ topo.local \in DOMAIN topo.tree \cup {Unconnected}
  /\ {topo.root, topo.irm} \subseteq Names \cup {Unconnected}
  /\ \A x \in DOMAIN topo.tree :
       topo.tree[x] \in [phy : Phy, id : 0..(Cardinality(Phy) - 1), link : BOOLEAN,
                         depth : {0}, hops : 0..(Cardinality(Phy) - 1), up : {1}, ports : [Ports -> Names \cup {Unconnected}]]

\* The tree of struct fw_node is the bus: its nodes stand for the PHYs that are
\* connected to the card, each for the one it was made for, port by port, although only
\* the changes were moved into it.
TreeMirrorsBus ==
  Current =>
    /\ {topo.tree[x].phy : x \in DOMAIN topo.tree} = Component(wiring.cable, {Local})
    /\ \A x, y \in DOMAIN topo.tree : topo.tree[x].phy = topo.tree[y].phy => x = y
    /\ topo.tree[topo.local].phy = Local
    /\ \A x \in DOMAIN topo.tree : topo.tree[x].link = wiring.link[topo.tree[x].phy]
    /\ \A x \in DOMAIN topo.tree, i \in Ports :
         LET y == topo.tree[x].ports[i]
             far == wiring.cable[topo.tree[x].phy][i]
         IN  IF far = Unconnected THEN y = Unconnected
             ELSE y \in DOMAIN topo.tree /\ topo.tree[y].phy = far[1]

\* Nodes get FW_NODE_CREATED when they enter the tree and FW_NODE_DESTROYED when they
\* leave it, also when bus resets were missed: the device code knows the nodes of the
\* tree and no other.
DevicesExact == TopoTypeOK /\ topo.devices = DOMAIN topo.tree

\* card->root_node and card->irm_node are nodes of the tree, not the ones that were
\* built and merged: the node with the highest PHY ID, and the contender with the
\* highest PHY ID.
RootAndIrm ==
  Current =>
    LET tree == topo.tree
        contenders == {x \in DOMAIN tree : tree[x].phy \in Contenders}
    IN  /\ {tree[x].id : x \in DOMAIN tree} = 0..(Cardinality(DOMAIN tree) - 1)
        /\ topo.root \in DOMAIN tree
        /\ \A x \in DOMAIN tree : tree[x].id <= tree[topo.root].id
        /\ IF contenders = {} THEN topo.irm = Unconnected
           ELSE topo.irm \in contenders /\ \A x \in contenders : tree[x].id <= tree[topo.irm].id

\* How many cables are between p and q: a reference for max_hops.
RECURSIVE Within(_, _, _)
Within(cable, seen, q) ==
  IF q \in seen THEN 0
  ELSE 1 + Within(cable, seen \cup UNION {Neighbours(cable, p) : p \in seen}, q)

\* The comment at update_hop_count(): max_hops is the maximum number of connections
\* between any two nodes below; at the root this is the diameter of the bus, which
\* bm_work() sets the gap count from.
HopsAreDiameter ==
  Current =>
    LET phys == Component(wiring.cable, {Local})
    IN  topo.tree[topo.root].hops = Max({Within(wiring.cable, {p}, q) : p, q \in phys})

\* What fw_core_handle_bus_reset() makes of the self IDs: the tree is the bus, with the
\* identity of its nodes and their devices, and its root, IRM and hop count are right.
TopologyExact == TreeMirrorsBus /\ DevicesExact /\ RootAndIrm /\ HopsAreDiameter
=============================================================================
