------------------------- MODULE FwBusManagerProofs -------------------------
(* Proofs of the safety properties of FwBusManager for any number of hosts *)
(* and passive nodes, whatever the PHYs do with the configuration packets  *)
(* and whichever node resets the bus; and of FwCdevIso, for any number of  *)
(* resources of a client.  (MCResetsLive checks both, side by side.)       *)
EXTENDS FwBusManager, FwCdevIso, FiniteSetTheorems, TLAPS

-----------------------------------------------------------------------------
(* The inductive invariant: the register of the IRM, and for each host its *)
(* card c with the places w and r of its two work items, given generation  *)
(* and broadcast channel of the bus.                                       *)

BusType ==
    [gen : Gen, initiator : Node, root : Node, irm : Node, gap : Gap, reg : 0 .. 63,
     chan31 : BOOLEAN, cfg : [root : Node \cup {NoNode}, gap : Gap], cmstr : BOOLEAN]
CardType ==
    [gen : Gen, tree : BOOLEAN, root : Node, irm : Node, gap : Gap, bm_gen : Gen,
     bm_node_id : 0 .. NoNode, retries : 0 .. MaxRetries, bcast : BOOLEAN,
     late : BOOLEAN, grace : BOOLEAN, abdicate : BOOLEAN, kref : Nat \ {0},
     bm_pending : BOOLEAN, br_pending : BOOLEAN]
WorkType ==
    [pc : {"idle", "lock", "only_irm", "only_irm_store", "config", "reset",
           "cmstr", "bcast", "bcast_store"},
     gen : Gen, root : Node, irm : Node, old : 0 .. 63 \cup {-1}, new_root : Node]
BrType == {"idle", "config", "reset"}

One(b) == IF b THEN 1 ELSE 0

\* References, with running work items k; what the card has noted of the channel is true.
CardOk(c, k, r, gen, chan) ==
    /\ c \in CardType /\ c.gen <= gen
    /\ c.kref = 1 + One(c.bm_pending) + One(c.br_pending) + k + One(r # "idle")
    /\ c.bcast /\ c.gen = gen => chan \/ c.late

\* bm_work() between the allocation of the channel and its note on the card.
WorkOk(w, gen, chan) ==
    /\ w \in WorkType /\ w.gen <= gen
    /\ w.pc \in {"only_irm_store", "bcast_store"} /\ w.gen = gen => chan

HostOk(c, w, r, gen, chan) ==
    /\ CardOk(c, One(w.pc # "idle"), r, gen, chan)
    /\ WorkOk(w, gen, chan) /\ r \in BrType

\* The winner of the contention is in the register.
ManagerRegistered == \A n \in manager : bus.reg = PhyId[n]

BmInv ==
    /\ BmTypeOK /\ ManagerRegistered
    /\ \A n \in Host : HostOk(fwcard[n], bm[n], br[n], bus.gen, bus.chan31)

LEMMA Typed ==
    BmTypeOK <=> /\ bus \in BusType /\ fwcard \in [Host -> CardType]
                 /\ dev \in [Host -> [Node -> {"none", "probing", "running"}]]
                 /\ bm \in [Host -> WorkType] /\ br \in [Host -> BrType]
                 /\ external \in 0 .. MaxExternal /\ manager \subseteq Host
BY DEF BmTypeOK, BusType, CardType, WorkType, BrType

-----------------------------------------------------------------------------
(* What the parts of the work items do to a card.                          *)

LEMMA IdleOk ==
    ASSUME NEW n \in Host, NEW gen \in Gen, NEW chan
    PROVE  WorkOk(Idle(n), gen, chan) /\ Idle(n).pc = "idle"
BY BusAssumption DEF WorkOk, WorkType, Idle, Gen, Node

LEMMA OneType == ASSUME NEW b PROVE One(b) \in 0 .. 1
BY DEF One

LEMMA ScheduleBmOk ==
    ASSUME NEW c, NEW k \in 0 .. 1, NEW r, NEW gen \in Gen, NEW chan, CardOk(c, k, r, gen, chan)
    PROVE  CardOk(ScheduleBm(c), k, r, gen, chan)
<1>1. CASE c.bm_pending
    BY <1>1 DEF ScheduleBm
<1>2. CASE ~c.bm_pending
  <2> DEFINE m == c.kref + 1
             e == [c EXCEPT !.bm_pending = TRUE, !.kref = m]
  <2>1. c \in CardType /\ c.kref \in Nat \ {0} /\ m \in Nat \ {0} /\ m = c.kref + 1
      BY DEF CardOk, CardType
  <2>2. ScheduleBm(c) = e
      BY <1>2 DEF ScheduleBm
  <2> HIDE DEF m
  <2>3. e \in CardType /\ e.kref = m /\ e.bm_pending /\ e.br_pending = c.br_pending
        /\ e.gen = c.gen /\ e.bcast = c.bcast /\ e.late = c.late
      BY <2>1 DEF CardType
  <2> HIDE DEF e
  <2>4. One(e.bm_pending) = 1 /\ One(c.bm_pending) = 0
      BY <1>2, <2>3 DEF One
  <2>5. c.kref = 1 + 0 + One(c.br_pending) + k + One(r # "idle")
      BY <2>4 DEF CardOk
  <2>6. e.kref = 1 + 1 + One(e.br_pending) + k + One(r # "idle")
      BY <2>1, <2>3, <2>5, OneType
  <2>7. CardOk(e, k, r, gen, chan)
      BY <2>3, <2>4, <2>6 DEF CardOk
  <2>8. QED
      BY <2>2, <2>7
<1>3. QED
    BY <1>1, <1>2

\* A work item ends and puts its reference.
LEMMA PutOk ==
    ASSUME NEW c, NEW r, NEW gen \in Gen, NEW chan, CardOk(c, 1, r, gen, chan)
    PROVE  CardOk([c EXCEPT !.kref = c.kref - 1], 0, r, gen, chan)
<1> DEFINE m == c.kref - 1
           e == [c EXCEPT !.kref = m]
<1>1. c \in CardType /\ m \in Nat \ {0} /\ m = c.kref - 1 /\ c.kref \in Nat
    BY OneType DEF CardOk, CardType
<1> HIDE DEF m
<1>2. e \in CardType /\ e.kref = m /\ e.bm_pending = c.bm_pending
      /\ e.br_pending = c.br_pending
      /\ e.gen = c.gen /\ e.bcast = c.bcast /\ e.late = c.late
    BY <1>1 DEF CardType
<1> HIDE DEF e
<1>3. CardOk(e, 0, r, gen, chan)
    BY <1>1, <1>2, OneType DEF CardOk
<1>4. QED
    BY <1>3 DEF e, m

\* A work item starts.
LEMMA TakenOk ==
    ASSUME NEW c, NEW r, NEW gen \in Gen, NEW chan, CardOk(c, 0, r, gen, chan), c.bm_pending
    PROVE  CardOk([c EXCEPT !.bm_pending = FALSE], 1, r, gen, chan)
<1> DEFINE e == [c EXCEPT !.bm_pending = FALSE]
<1>1. c \in CardType
    BY DEF CardOk
<1>2. e \in CardType /\ e.kref = c.kref /\ e.bm_pending = FALSE /\ e.br_pending = c.br_pending
      /\ e.gen = c.gen /\ e.bcast = c.bcast /\ e.late = c.late
    BY <1>1 DEF CardType
<1> HIDE DEF e
<1>3. One(e.bm_pending) = 0 /\ One(c.bm_pending) = 1
    BY <1>2 DEF One
<1>4. c.kref = 1 + 1 + One(c.br_pending) + 0 + One(r # "idle")
    BY <1>3 DEF CardOk
<1>5. e.kref = 1 + 0 + One(e.br_pending) + 1 + One(r # "idle")
    BY <1>2, <1>4, OneType
<1>6. CardOk(e, 1, r, gen, chan)
    BY <1>2, <1>3, <1>5 DEF CardOk
<1>7. QED
    BY <1>6 DEF e

\* Other fields of a card.
LEMMA CardKept ==
    ASSUME NEW c, NEW e \in CardType, NEW k, NEW r, NEW gen \in Gen, NEW chan,
           CardOk(c, k, r, gen, chan),
           e.kref = c.kref, e.bm_pending = c.bm_pending, e.br_pending = c.br_pending,
           e.gen = c.gen, e.bcast /\ e.gen = gen => chan \/ e.late
    PROVE  CardOk(e, k, r, gen, chan)
BY DEF CardOk

\* What a step makes of host n.
Moves(n, chan) ==
    \E c \in CardType, w \in WorkType :
        /\ fwcard' = [fwcard EXCEPT ![n] = c] /\ bm' = [bm EXCEPT ![n] = w]
        /\ HostOk(c, w, br[n], bus.gen, chan)

LEMMA DoneOk ==
    ASSUME NEW n \in Host, NEW c, NEW chan, BmInv, Done(n, c),
           CardOk(c, 1, br[n], bus.gen, chan)
    PROVE  Moves(n, chan)
<1> DEFINE e == [c EXCEPT !.kref = c.kref - 1]
<1>1. bus.gen \in Gen /\ br[n] \in BrType
    BY Typed DEF BmInv, BusType
<1>2. CardOk(e, 0, br[n], bus.gen, chan)
    BY <1>1, PutOk
<1>3. WorkOk(Idle(n), bus.gen, chan) /\ Idle(n).pc = "idle"
    BY <1>1, IdleOk
<1>4. HostOk(e, Idle(n), br[n], bus.gen, chan)
    BY <1>1, <1>2, <1>3 DEF HostOk, One
<1>5. e \in CardType /\ Idle(n) \in WorkType
    BY <1>2, <1>3 DEF CardOk, WorkOk
<1>6. fwcard' = [fwcard EXCEPT ![n] = e] /\ bm' = [bm EXCEPT ![n] = Idle(n)]
    BY DEF Done
<1> HIDE DEF e
<1>7. QED
    BY <1>4, <1>5, <1>6 DEF Moves

LEMMA InvestigateOk ==
    ASSUME NEW n \in Host, NEW c, NEW w \in WorkType, NEW stand \in BOOLEAN, NEW chan, BmInv,
           CardOk(c, 1, br[n], bus.gen, chan), w.gen <= bus.gen,
           Investigate(n, w, c, stand)
    PROVE  Moves(n, chan)
<1>1. bus.gen \in Gen /\ br[n] \in BrType /\ c \in CardType /\ n \in Node
    BY Typed DEF BmInv, BusType, CardOk, Node
<1>2. CASE Done(n, c)
    BY <1>2, DoneOk
<1>3. CASE \E r \in 0 .. MaxRetries, new \in Node, pc \in {"config", "cmstr"} :
              /\ fwcard' = [fwcard EXCEPT ![n] = [c EXCEPT !.retries = r]]
              /\ bm' = [bm EXCEPT ![n] = [w EXCEPT !.new_root = new, !.old = -1, !.pc = pc]]
  <2> PICK r \in 0 .. MaxRetries, new \in Node, pc \in {"config", "cmstr"} :
              /\ fwcard' = [fwcard EXCEPT ![n] = [c EXCEPT !.retries = r]]
              /\ bm' = [bm EXCEPT ![n] = [w EXCEPT !.new_root = new, !.old = -1, !.pc = pc]]
      BY <1>3
  <2> DEFINE e == [c EXCEPT !.retries = r]
             v == [w EXCEPT !.new_root = new, !.old = -1, !.pc = pc]
  <2>1. /\ e \in CardType /\ e.kref = c.kref /\ e.bm_pending = c.bm_pending
        /\ e.br_pending = c.br_pending /\ e.gen = c.gen /\ e.bcast = c.bcast /\ e.late = c.late
      BY <1>1 DEF CardType
  <2>2. v \in WorkType /\ v.pc = pc /\ v.gen = w.gen
      BY DEF WorkType
  <2>3. fwcard' = [fwcard EXCEPT ![n] = e] /\ bm' = [bm EXCEPT ![n] = v]
      OBVIOUS
  <2> HIDE DEF e, v
  <2>4. CardOk(e, 1, br[n], bus.gen, chan)
      BY <1>1, <2>1 DEF CardOk
  <2>5. WorkOk(v, bus.gen, chan) /\ One(v.pc # "idle") = 1
      BY <2>2 DEF WorkOk, One
  <2>6. QED
      BY ZenonT(30), <1>1, <2>1, <2>2, <2>3, <2>4, <2>5 DEF Moves, HostOk
<1>4. QED
  <2> DEFINE mismatch == ~stand /\ c.gap = Mismatched
             inquire == ~stand /\ ~mismatch
             st == stand \/ mismatch \/ (inquire /\ Unfit(n, w.root))
             new == IF st THEN n ELSE w.root
             retries == IF mismatch THEN 0 ELSE c.retries
             r == IF retries < MaxRetries THEN retries + 1 ELSE retries
             pc == IF retries < MaxRetries /\ (c.gap # ExpectedGap \/ new # w.root)
                   THEN "config" ELSE "cmstr"
  <2>1. new \in Node /\ pc \in {"config", "cmstr"}
      BY <1>1 DEF WorkType
  <2>2. c.retries \in 0 .. MaxRetries
      BY <1>1 DEF CardType
  <2>3. retries \in 0 .. MaxRetries
      BY <2>2, BusAssumption
  <2>4. r \in 0 .. MaxRetries
      BY <2>3, BusAssumption
  <2>5. \/ Done(n, c)
        \/ /\ fwcard' = [fwcard EXCEPT ![n] = [c EXCEPT !.retries = r]]
           /\ bm' = [bm EXCEPT ![n] = [w EXCEPT !.new_root = new, !.old = -1, !.pc = pc]]
      BY Zenon DEF Investigate
  <2> HIDE DEF new, r, pc
  <2>6. QED
      BY <1>2, <1>3, <2>1, <2>4, <2>5

-----------------------------------------------------------------------------
(* The other hosts, and the bus.                                           *)

\* What is true of a host remains so when channel 31 is allocated and after a bus reset.
LEMMA HostLater ==
    ASSUME NEW c, NEW w, NEW r, NEW gen \in Gen, NEW chan, NEW gen2 \in Gen, NEW chan2,
           HostOk(c, w, r, gen, chan), gen2 > gen \/ (gen2 = gen /\ (chan => chan2))
    PROVE  HostOk(c, w, r, gen2, chan2)
<1>1. c.gen \in Gen /\ w.gen \in Gen
    BY DEF HostOk, CardOk, WorkOk, CardType, WorkType
<1>2. c.gen <= gen2 /\ w.gen <= gen2
    BY <1>1 DEF HostOk, CardOk, WorkOk, Gen
<1>3. (c.gen = gen2 => gen2 = gen) /\ (w.gen = gen2 => gen2 = gen)
    BY <1>1 DEF HostOk, CardOk, WorkOk, Gen
<1>4. (c.gen = gen2 => (chan => chan2)) /\ (w.gen = gen2 => (chan => chan2))
    BY <1>3, <1>1, <1>2 DEF Gen
<1>5. CardOk(c, One(w.pc # "idle"), r, gen2, chan2)
    BY <1>2, <1>3, <1>4, Zenon DEF HostOk, CardOk
<1>6. WorkOk(w, gen2, chan2)
    BY <1>2, <1>3, <1>4, Zenon DEF HostOk, WorkOk
<1>7. QED
    BY <1>5, <1>6 DEF HostOk

HostsOk ==
    /\ fwcard \in [Host -> CardType] /\ bm \in [Host -> WorkType] /\ br \in [Host -> BrType]
    /\ \A n \in Host : HostOk(fwcard[n], bm[n], br[n], bus.gen, bus.chan31)

LEMMA HostsMove ==
    ASSUME BmInv, NEW n \in Host, NEW c \in CardType, NEW w \in WorkType, NEW r \in BrType, NEW chan,
           fwcard' = [fwcard EXCEPT ![n] = c], bm' = [bm EXCEPT ![n] = w],
           br' = [br EXCEPT ![n] = r], HostOk(c, w, r, bus.gen, chan), bus' \in BusType,
           \/ bus'.gen > bus.gen
           \/ bus'.gen = bus.gen /\ (bus.chan31 => bus'.chan31) /\ (chan => bus'.chan31)
    PROVE  HostsOk'
<1>1. /\ fwcard' \in [Host -> CardType] /\ fwcard'[n] = c
      /\ \A m \in Host : m # n => fwcard'[m] = fwcard[m]
    BY Typed DEF BmInv
<1>2. /\ bm' \in [Host -> WorkType] /\ bm'[n] = w /\ \A m \in Host : m # n => bm'[m] = bm[m]
    BY Typed DEF BmInv
<1>3. /\ br' \in [Host -> BrType] /\ br'[n] = r /\ \A m \in Host : m # n => br'[m] = br[m]
    BY Typed DEF BmInv
<1>4. bus.gen \in Gen /\ bus'.gen \in Gen
    BY Typed DEF BmInv, BusType
<1>5. HostOk(c, w, r, bus'.gen, bus'.chan31)
    BY <1>4, HostLater
<1>6. ASSUME NEW m \in Host, m # n
      PROVE  HostOk(fwcard[m], bm[m], br[m], bus'.gen, bus'.chan31)
    BY <1>4, HostLater DEF BmInv
<1>7. QED
    BY <1>1, <1>2, <1>3, <1>5, <1>6 DEF HostsOk

\* A step of bm_work() of host n.
LEMMA WorkMoves ==
    ASSUME BmInv, NEW n \in Host, NEW chan, Moves(n, chan), UNCHANGED br, bus' \in BusType,
           \/ bus'.gen > bus.gen
           \/ bus'.gen = bus.gen /\ (bus.chan31 => bus'.chan31) /\ (chan => bus'.chan31)
    PROVE  HostsOk'
<1>1. PICK c \in CardType, w \in WorkType :
        /\ fwcard' = [fwcard EXCEPT ![n] = c] /\ bm' = [bm EXCEPT ![n] = w]
        /\ HostOk(c, w, br[n], bus.gen, chan)
    BY DEF Moves
<1>2. br[n] \in BrType /\ br' = [br EXCEPT ![n] = br[n]]
    BY Typed DEF BmInv
<1>3. QED
    BY <1>1, <1>2, HostsMove

\* Only the bus changes.
LEMMA BusMoves ==
    ASSUME BmInv, UNCHANGED <<fwcard, bm, br>>, bus' \in BusType,
           bus'.gen > bus.gen \/ (bus'.gen = bus.gen /\ (bus.chan31 => bus'.chan31))
    PROVE  HostsOk'
<1>1. bus.gen \in Gen /\ bus'.gen \in Gen
    BY Typed DEF BmInv, BusType
<1>2. \A n \in Host : HostOk(fwcard[n], bm[n], br[n], bus'.gen, bus'.chan31)
    BY <1>1, HostLater DEF BmInv
<1>3. QED
    BY <1>2, Typed DEF BmInv, HostsOk

LEMMA IrmIsNode == \A r \in Node : IrmFor(r) \subseteq Node
BY DEF IrmFor, Node

LEMMA BusResetOk ==
    ASSUME BmInv, NEW p \in Node, BusReset(p)
    PROVE  bus' \in BusType /\ bus'.gen > bus.gen /\ manager' = {}
<1>1. PICK r \in Node, g \in Gap : \E i \in IrmFor(r) :
        bus' = [bus EXCEPT !.gen = bus.gen + 1, !.initiator = p, !.root = r, !.irm = i, !.gap = g,
                           !.reg = NotRegistered, !.chan31 = FALSE, !.cfg = NoCfg,
                           !.cmstr = bus.cmstr /\ r = bus.root]
    BY DEF BusReset
<1>2. PICK i \in IrmFor(r) :
        bus' = [bus EXCEPT !.gen = bus.gen + 1, !.initiator = p, !.root = r, !.irm = i, !.gap = g,
                           !.reg = NotRegistered, !.chan31 = FALSE, !.cfg = NoCfg,
                           !.cmstr = bus.cmstr /\ r = bus.root]
    BY <1>1
<1>3. bus \in BusType /\ i \in Node
    BY Typed, IrmIsNode DEF BmInv
<1>4. bus.gen + 1 \in Gen /\ bus.gen + 1 > bus.gen
    BY BusAssumption DEF BusReset, Gen
<1>5. NoCfg \in [root : Node \cup {NoNode}, gap : Gap] /\ NotRegistered \in 0 .. 63
    BY DEF NoCfg, Gap, NotRegistered
<1>6. (bus.cmstr /\ r = bus.root) \in BOOLEAN
    OBVIOUS
<1> DEFINE gen == bus.gen + 1
           cmstr == bus.cmstr /\ r = bus.root
<1> HIDE DEF gen, cmstr
<1>7. bus' = [bus EXCEPT !.gen = gen, !.initiator = p, !.root = r, !.irm = i, !.gap = g,
                         !.reg = NotRegistered, !.chan31 = FALSE, !.cfg = NoCfg, !.cmstr = cmstr]
    BY <1>2 DEF gen, cmstr
<1>8. bus' \in BusType /\ bus'.gen = gen
    BY <1>3, <1>4, <1>5, <1>6, <1>7 DEF BusType, gen, cmstr
<1>9. QED
    BY <1>4, <1>8 DEF BusReset, gen

-----------------------------------------------------------------------------
(* The steps of the work items.                                            *)

RestOk == dev \in [Host -> [Node -> {"none", "probing", "running"}]] /\ external \in 0 .. MaxExternal

LEMMA OfHost ==
    ASSUME BmInv, NEW n \in Host
    PROVE  /\ bus \in BusType /\ bus.gen \in Gen /\ n \in Node
           /\ fwcard[n] \in CardType /\ bm[n] \in WorkType /\ br[n] \in BrType
           /\ CardOk(fwcard[n], One(bm[n].pc # "idle"), br[n], bus.gen, bus.chan31)
           /\ WorkOk(bm[n], bus.gen, bus.chan31) /\ RestOk
BY Typed DEF BmInv, BusType, HostOk, Node, RestOk

\* A running bm_work() of n, with its reference.
LEMMA OfRunning ==
    ASSUME BmInv, NEW n \in Host, bm[n].pc # "idle"
    PROVE  CardOk(fwcard[n], 1, br[n], bus.gen, bus.chan31) /\ bm[n].gen <= bus.gen
BY OfHost DEF One, WorkOk

LEMMA Gather ==
    ASSUME HostsOk', RestOk', bus' \in BusType, (manager \subseteq Host)', ManagerRegistered'
    PROVE  BmInv'
BY Typed DEF BmInv, HostsOk, RestOk, BmTypeOK, BusType, CardType, WorkType, BrType

LEMMA SendPhyConfigOk ==
    ASSUME bus \in BusType, NEW gen, NEW root \in Node \cup {NoNode}, NEW gap \in Gap
    PROVE  /\ SendPhyConfig(gen, root, gap) \in BusType
           /\ SendPhyConfig(gen, root, gap).gen = bus.gen
           /\ SendPhyConfig(gen, root, gap).reg = bus.reg
           /\ SendPhyConfig(gen, root, gap).chan31 = bus.chan31
BY DEF SendPhyConfig, BusType

\* The bus, as seen by the register and by those who allocated the channel.
BusKept == bus' \in BusType /\ bus'.gen = bus.gen /\ bus'.reg = bus.reg /\ (bus.chan31 => bus'.chan31)

\* A step of bm_work() that does not reset the bus or swap the register.
LEMMA WorkStep ==
    ASSUME BmInv, NEW n \in Host, NEW chan, Moves(n, chan), chan => bus'.chan31,
           BusKept, UNCHANGED <<dev, br, external, manager>>
    PROVE  BmInv'
<1>1. HostsOk'
    BY WorkMoves DEF BusKept
<1>2. RestOk' /\ (manager \subseteq Host)' /\ ManagerRegistered'
    BY OfHost, Typed DEF RestOk, BmInv, ManagerRegistered, BusKept
<1>3. QED
    BY <1>1, <1>2, Gather DEF BusKept

LEMMA SameBus == ASSUME BmInv, UNCHANGED bus PROVE BusKept
BY Typed DEF BmInv, BusKept

\* bm_work() goes on from one place to another and leaves the card alone.
LEMMA PlaceMoves ==
    ASSUME BmInv, NEW n \in Host, NEW w \in WorkType, NEW chan, UNCHANGED fwcard,
           bm' = [bm EXCEPT ![n] = w], bm[n].pc # "idle", w.pc # "idle", w.gen = bm[n].gen,
           w.pc \in {"only_irm_store", "bcast_store"} => chan, bus.chan31 => chan
    PROVE  Moves(n, chan)
<1>1. CardOk(fwcard[n], 1, br[n], bus.gen, chan)
    BY OfHost, OfRunning DEF CardOk
<1>2. WorkOk(w, bus.gen, chan)
    BY OfRunning DEF WorkOk
<1>3. HostOk(fwcard[n], w, br[n], bus.gen, chan)
    BY <1>1, <1>2, OfHost DEF HostOk, One
<1>4. fwcard' = [fwcard EXCEPT ![n] = fwcard[n]] /\ fwcard[n] \in CardType
    BY Typed DEF BmInv
<1>5. QED
    BY <1>3, <1>4 DEF Moves

LEMMA BmStartStep ==
    ASSUME BmInv, NEW n \in Host, BmStart(n)
    PROVE  BmInv'
<1> DEFINE c == [fwcard[n] EXCEPT !.bm_pending = FALSE]
           w == [bm[n] EXCEPT !.gen = c.gen, !.root = c.root, !.irm = c.irm]
<1>1. /\ bm[n].pc = "idle" /\ fwcard[n].bm_pending
      /\ \/ Done(n, c) \/ Done(n, ScheduleBm(c))
         \/ Investigate(n, w, c, TRUE) \/ Investigate(n, w, c, FALSE)
         \/ fwcard' = [fwcard EXCEPT ![n] = c] /\ bm' = [bm EXCEPT ![n] = [w EXCEPT !.pc = "lock"]]
      /\ UNCHANGED <<bus, dev, br, external, manager>>
    BY DEF BmStart
<1>2. CardOk(fwcard[n], 0, br[n], bus.gen, bus.chan31)
    BY <1>1, OfHost DEF One
<1>3. CardOk(c, 1, br[n], bus.gen, bus.chan31)
    BY <1>1, <1>2, OfHost, TakenOk
<1>4. c \in CardType /\ c.gen <= bus.gen
    BY <1>3 DEF CardOk
<1> HIDE DEF c
<1>5. w \in WorkType /\ w.gen = c.gen
  <2>1. c.gen \in Gen /\ c.root \in Node /\ c.irm \in Node
      BY <1>4 DEF CardType
  <2>2. QED
      BY <2>1, OfHost DEF WorkType
<1>6. Moves(n, bus.chan31)
  <2>1. CASE Done(n, c)
      BY <2>1, <1>3, DoneOk
  <2>2. CASE Done(n, ScheduleBm(c))
      BY <2>2, <1>3, OfHost, ScheduleBmOk, DoneOk
  <2>3. CASE Investigate(n, w, c, TRUE) \/ Investigate(n, w, c, FALSE)
      BY <2>3, <1>3, <1>4, <1>5, InvestigateOk
  <2>4. CASE fwcard' = [fwcard EXCEPT ![n] = c] /\ bm' = [bm EXCEPT ![n] = [w EXCEPT !.pc = "lock"]]
    <3> DEFINE v == [w EXCEPT !.pc = "lock"]
    <3>1. v \in WorkType /\ v.pc = "lock" /\ v.gen = c.gen
        BY <1>5 DEF WorkType
    <3>2. fwcard' = [fwcard EXCEPT ![n] = c] /\ bm' = [bm EXCEPT ![n] = v]
        BY <2>4
    <3> HIDE DEF v
    <3>3. HostOk(c, v, br[n], bus.gen, bus.chan31)
        BY <1>3, <1>4, <3>1, OfHost DEF HostOk, WorkOk, One
    <3>4. QED
        BY <1>4, <3>1, <3>2, <3>3 DEF Moves
  <2>5. QED
      BY <1>1, <2>1, <2>2, <2>3, <2>4
<1>7. QED
    BY <1>1, <1>6, SameBus, WorkStep

LEMMA LockAtIrmStep ==
    ASSUME BmInv, NEW n \in Host, LockAtIrm(n)
    PROVE  BmInv'
<1> DEFINE reg == CompareSwap(bus.reg, n)
           w == [bm[n] EXCEPT !.old = bus.reg]
<1>1. PhyId[n] \in 0 .. 62 /\ bus.reg \in 0 .. 63
    BY BusAssumption, OfHost DEF BusType
<1>2. reg = IF bus.reg = NotRegistered THEN PhyId[n] ELSE bus.reg
  <2>1. (65472 + PhyId[n]) % 64 = PhyId[n]
      BY <1>1
  <2>2. QED
      BY <2>1 DEF CompareSwap, NodeIdOf
<1>3. reg \in 0 .. 63
    BY <1>1, <1>2
<1>4. /\ bus' = [bus EXCEPT !.reg = reg] /\ bm' = [bm EXCEPT ![n] = w]
      /\ UNCHANGED <<fwcard, dev, br, external>> /\ bm[n].pc = "lock"
      /\ manager' = IF bus.reg = NotRegistered THEN manager \cup {n} ELSE manager
    BY Typed DEF LockAtIrm, BmInv
<1>5. w \in WorkType /\ w.pc = "lock" /\ w.gen = bm[n].gen
    BY <1>1, <1>4, OfHost DEF WorkType
<1> HIDE DEF reg, w
<1>6. bus' \in BusType /\ bus'.gen = bus.gen /\ bus'.chan31 = bus.chan31 /\ bus'.reg = reg
    BY <1>3, <1>4, OfHost DEF BusType
<1>7. HostsOk'
    BY <1>4, <1>5, <1>6, PlaceMoves, WorkMoves
<1>8. ManagerRegistered' /\ (manager \subseteq Host)'
  <2>1. bus.reg = NotRegistered => manager = {}
    <3>1. \A m \in manager : PhyId[m] # 63
        BY SMTT(30), BusAssumption, Typed DEF BmInv, Node
    <3>2. QED
        BY <3>1 DEF BmInv, ManagerRegistered, NotRegistered
  <2>2. QED
      BY <1>2, <1>4, <1>6, <2>1, Typed DEF BmInv, ManagerRegistered
<1>9. RestOk'
    BY <1>4, OfHost DEF RestOk
<1>10. QED
    BY <1>6, <1>7, <1>8, <1>9, Gather

LEMMA IntervalMember ==
    ASSUME NEW x \in Nat, NEW m \in Nat, x <= m
    PROVE  x \in 0 .. m
OBVIOUS

LEMMA ManagerIdType ==
    ASSUME NEW n \in Host, NEW old \in 0 .. 63
    PROVE  BmNodeId(n, old) \in 0 .. NoNode
<1>1. PhyId[n] \in 0 .. 62
    BY BusAssumption DEF Node
<1>2. NoNode \in Nat /\ 0 <= NoNode
    BY DEF NoNode
<1>3. 65472 + PhyId[n] \in Nat /\ 65472 + PhyId[n] <= NoNode
    BY <1>1 DEF NoNode
<1>4. NodeIdOf(n) \in 0 .. NoNode /\ 0 \in 0 .. NoNode
    BY <1>2, <1>3, IntervalMember DEF NodeIdOf
<1>5. old \div 64 = 0 /\ 0 * 64 = 0
    OBVIOUS
<1>6. QED
    BY <1>4, <1>5, Zenon DEF BmNodeId

LEMMA LockCompleteStep ==
    ASSUME BmInv, NEW n \in Host, LockComplete(n)
    PROVE  BmInv'
<1> DEFINE id == BmNodeId(n, bm[n].old)
           c == [fwcard[n] EXCEPT !.bm_node_id = id]
           e == [c EXCEPT !.bm_gen = bm[n].gen]
           w == [bm[n] EXCEPT !.pc = "only_irm", !.old = -1]
<1>1. /\ bm[n].pc = "lock" /\ bm[n].old # -1
      /\ \/ fwcard' = [fwcard EXCEPT ![n] = c] /\ bm' = [bm EXCEPT ![n] = w]
         \/ Investigate(n, bm[n], e, FALSE)
      /\ UNCHANGED <<bus, dev, br, external, manager>>
    BY Typed DEF LockComplete, BmInv
<1>2. id \in 0 .. NoNode
  <2>1. bm[n].old \in 0 .. 63
      BY <1>1, OfHost DEF WorkType
  <2>2. QED
      BY <2>1, ManagerIdType
<1> HIDE DEF id
<1>3. /\ c \in CardType /\ e \in CardType /\ e.kref = fwcard[n].kref /\ c.kref = fwcard[n].kref
      /\ c.bm_pending = fwcard[n].bm_pending /\ e.bm_pending = fwcard[n].bm_pending
      /\ c.br_pending = fwcard[n].br_pending /\ e.br_pending = fwcard[n].br_pending
      /\ c.gen = fwcard[n].gen /\ e.gen = fwcard[n].gen
      /\ c.bcast = fwcard[n].bcast /\ e.bcast = fwcard[n].bcast
      /\ c.late = fwcard[n].late /\ e.late = fwcard[n].late
    BY ZenonT(30), <1>2, OfHost DEF CardType, WorkType
<1>4. w \in WorkType /\ w.pc = "only_irm" /\ w.gen = bm[n].gen
    BY OfHost DEF WorkType
<1> HIDE DEF c, e, w
<1>5. CardOk(c, 1, br[n], bus.gen, bus.chan31) /\ CardOk(e, 1, br[n], bus.gen, bus.chan31)
    BY <1>1, <1>3, OfRunning DEF CardOk
<1>6. Moves(n, bus.chan31)
  <2>1. CASE Investigate(n, bm[n], e, FALSE)
      BY <1>1, <1>5, <2>1, OfHost, OfRunning, InvestigateOk
  <2>2. CASE fwcard' = [fwcard EXCEPT ![n] = c] /\ bm' = [bm EXCEPT ![n] = w]
    <3>1. HostOk(c, w, br[n], bus.gen, bus.chan31)
        BY <1>1, <1>4, <1>5, OfHost, OfRunning DEF HostOk, WorkOk, One
    <3>2. QED
        BY <1>3, <1>4, <2>2, <3>1 DEF Moves
  <2>3. QED
      BY <1>1, <2>1, <2>2
<1>7. QED
    BY <1>1, <1>6, SameBus, WorkStep

LEMMA LockFailsStep ==
    ASSUME BmInv, NEW n \in Host, LockFails(n)
    PROVE  BmInv'
<1>1. bm[n].pc # "idle" /\ UNCHANGED <<bus, dev, br, external, manager>>
    BY DEF LockFails
<1>2. Done(n, fwcard[n]) \/ Done(n, ScheduleBm(fwcard[n])) \/ Investigate(n, bm[n], fwcard[n], TRUE)
    BY DEF LockFails
<1> DEFINE c == ScheduleBm(fwcard[n])
<1> HIDE DEF c
<1>3. CardOk(c, 1, br[n], bus.gen, bus.chan31)
    BY <1>1, OfHost, OfRunning, ScheduleBmOk DEF c
<1>4. Moves(n, bus.chan31)
  <2>1. CASE Done(n, fwcard[n])
      BY <1>1, <2>1, OfRunning, DoneOk
  <2>2. CASE Done(n, c)
      BY <1>3, <2>2, DoneOk
  <2>3. CASE Investigate(n, bm[n], fwcard[n], TRUE)
      BY <1>1, <2>3, OfHost, OfRunning, InvestigateOk
  <2>4. QED
      BY <1>2, <2>1, <2>2, <2>3 DEF c
<1>5. QED
    BY <1>1, <1>4, SameBus, WorkStep

LEMMA AllocateStep ==
    ASSUME BmInv, NEW n \in Host, NEW from \in {"only_irm", "bcast"},
           NEW to \in {"only_irm_store", "bcast_store"}, Allocate(n, from, to)
    PROVE  BmInv'
<1> DEFINE w == [bm[n] EXCEPT !.pc = to]
<1>1. /\ bm[n].pc = from /\ bus' = [bus EXCEPT !.chan31 = TRUE] /\ bm' = [bm EXCEPT ![n] = w]
      /\ UNCHANGED <<fwcard, dev, br, external, manager>>
    BY Typed DEF Allocate, BmInv
<1>2. w \in WorkType /\ w.pc = to /\ w.gen = bm[n].gen
    BY OfHost DEF WorkType
<1>3. BusKept /\ bus'.chan31 = TRUE
    BY <1>1, OfHost DEF BusKept, BusType
<1> HIDE DEF w
<1>4. Moves(n, TRUE)
    BY <1>1, <1>2, PlaceMoves
<1>5. QED
    BY <1>1, <1>3, <1>4, WorkStep

\* The note of the channel is true, or late.
LEMMA NoteChannelOk ==
    ASSUME BmInv, NEW n \in Host, bm[n].pc # "idle", NEW c,
           CardOk(c, 1, br[n], bus.gen, bus.chan31)
    PROVE  CardOk(NoteChannel(n, c), 1, br[n], bus.gen, bus.chan31)
<1>1. CASE bm[n].pc \in {"only_irm_store", "bcast_store"}
  <2> DEFINE late == c.gen # bm[n].gen
             e == [c EXCEPT !.bcast = TRUE, !.late = late]
  <2>1. late \in BOOLEAN /\ c \in CardType
      BY DEF CardOk
  <2>2. ~late /\ c.gen = bus.gen => bus.chan31
      BY <1>1, OfHost DEF WorkOk
  <2> HIDE DEF late
  <2>3. e \in CardType /\ e.kref = c.kref /\ e.bm_pending = c.bm_pending
        /\ e.br_pending = c.br_pending /\ e.gen = c.gen /\ e.bcast = TRUE /\ e.late = late
      BY <2>1 DEF CardType
  <2>4. NoteChannel(n, c) = e
      BY <1>1 DEF NoteChannel, late
  <2> HIDE DEF e
  <2>5. e.bcast /\ e.gen = bus.gen => bus.chan31 \/ e.late
      BY <2>2, <2>3
  <2>6. CardOk(e, 1, br[n], bus.gen, bus.chan31)
      BY <2>3, <2>5, OfHost, CardKept
  <2>7. QED
      BY <2>4, <2>6
<1>2. QED
    BY <1>1 DEF NoteChannel

LEMMA OnlyIrmDoneStep ==
    ASSUME BmInv, NEW n \in Host, OnlyIrmDone(n)
    PROVE  BmInv'
<1> DEFINE c == [fwcard[n] EXCEPT !.bm_gen = bm[n].gen]
<1>1. /\ bm[n].pc # "idle" /\ Investigate(n, bm[n], NoteChannel(n, c), FALSE)
      /\ UNCHANGED <<bus, dev, br, external, manager>>
    BY DEF OnlyIrmDone
<1>2. /\ c \in CardType /\ c.kref = fwcard[n].kref /\ c.bm_pending = fwcard[n].bm_pending
      /\ c.br_pending = fwcard[n].br_pending /\ c.gen = fwcard[n].gen
      /\ c.bcast = fwcard[n].bcast /\ c.late = fwcard[n].late
    BY OfHost DEF CardType, WorkType
<1> HIDE DEF c
<1>3. CardOk(c, 1, br[n], bus.gen, bus.chan31)
    BY <1>1, <1>2, OfRunning DEF CardOk
<1>4. CardOk(NoteChannel(n, c), 1, br[n], bus.gen, bus.chan31)
    BY <1>1, <1>3, NoteChannelOk
<1> DEFINE e == NoteChannel(n, c)
<1> HIDE DEF e
<1>5. CardOk(e, 1, br[n], bus.gen, bus.chan31) /\ Investigate(n, bm[n], e, FALSE)
    BY <1>1, <1>4 DEF e
<1>6. Moves(n, bus.chan31)
    BY <1>1, <1>5, OfHost, OfRunning, InvestigateOk
<1>7. QED
    BY <1>1, <1>6, SameBus, WorkStep

LEMMA BcastDoneStep ==
    ASSUME BmInv, NEW n \in Host, BcastDone(n)
    PROVE  BmInv'
<1>1. /\ bm[n].pc # "idle" /\ Done(n, NoteChannel(n, fwcard[n]))
      /\ UNCHANGED <<bus, dev, br, external, manager>>
    BY DEF BcastDone
<1>2. CardOk(NoteChannel(n, fwcard[n]), 1, br[n], bus.gen, bus.chan31)
    BY <1>1, OfRunning, NoteChannelOk
<1>3. Moves(n, bus.chan31)
    BY <1>1, <1>2, DoneOk
<1>4. QED
    BY <1>1, <1>3, SameBus, WorkStep

LEMMA BmConfigStep ==
    ASSUME BmInv, NEW n \in Host, BmConfig(n)
    PROVE  BmInv'
<1> DEFINE w == [bm[n] EXCEPT !.pc = "reset"]
<1>1. /\ bm[n].pc = "config" /\ bus' = SendPhyConfig(bm[n].gen, bm[n].new_root, ExpectedGap)
      /\ bm' = [bm EXCEPT ![n] = w] /\ UNCHANGED <<fwcard, dev, br, external, manager>>
    BY Typed DEF BmConfig, BmInv
<1>2. w \in WorkType /\ w.pc = "reset" /\ w.gen = bm[n].gen
    BY OfHost DEF WorkType
<1>3. BusKept
  <2>1. bm[n].new_root \in Node /\ ExpectedGap \in Gap
      BY OfHost DEF WorkType, Gap
  <2>2. QED
      BY <1>1, <2>1, OfHost, SendPhyConfigOk DEF BusKept
<1> HIDE DEF w
<1>4. Moves(n, bus.chan31)
    BY <1>1, <1>2, PlaceMoves
<1>5. QED
    BY <1>1, <1>3, <1>4, WorkStep DEF BusKept

LEMMA BmCmstrStep ==
    ASSUME BmInv, NEW n \in Host, BmCmstr(n)
    PROVE  BmInv'
<1> DEFINE w == [bm[n] EXCEPT !.pc = "bcast"]
<1>1. /\ bm[n].pc = "cmstr" /\ (bus' = [bus EXCEPT !.cmstr = TRUE] \/ bus' = bus)
      /\ Done(n, fwcard[n]) \/ (bm' = [bm EXCEPT ![n] = w] /\ UNCHANGED fwcard)
      /\ UNCHANGED <<dev, br, external, manager>>
    BY Typed DEF BmCmstr, BmInv
<1>2. w \in WorkType /\ w.pc = "bcast" /\ w.gen = bm[n].gen
    BY OfHost DEF WorkType
<1>3. BusKept
    BY <1>1, OfHost DEF BusKept, BusType
<1> HIDE DEF w
<1>4. Moves(n, bus.chan31)
  <2>1. CASE Done(n, fwcard[n])
      BY <1>1, <2>1, OfRunning, DoneOk
  <2>2. CASE bm' = [bm EXCEPT ![n] = w] /\ UNCHANGED fwcard
      BY <1>1, <1>2, <2>2, PlaceMoves
  <2>3. QED
      BY <1>1, <2>1, <2>2
<1>5. QED
    BY <1>1, <1>3, <1>4, WorkStep DEF BusKept

LEMMA BmResetStep ==
    ASSUME BmInv, NEW n \in Host, BmReset(n)
    PROVE  BmInv'
<1>1. /\ bm[n].pc = "reset" /\ BusReset(n) /\ Done(n, fwcard[n])
      /\ UNCHANGED <<dev, br, external>>
    BY DEF BmReset
<1>2. bus' \in BusType /\ bus'.gen > bus.gen /\ manager' = {}
    BY <1>1, OfHost, BusResetOk
<1>3. Moves(n, bus.chan31)
    BY <1>1, OfRunning, DoneOk
<1>4. HostsOk'
    BY <1>1, <1>2, <1>3, WorkMoves
<1>5. QED
    BY <1>1, <1>2, <1>4, OfHost, Gather DEF RestOk, ManagerRegistered

\* br_work()
LEMMA BrStep ==
    ASSUME BmInv, NEW n \in Host, BrWork(n)
    PROVE  BmInv'
<1> USE OfHost
<1>1. CASE BrStart(n)
  <2> DEFINE c == [fwcard[n] EXCEPT !.br_pending = FALSE]
  <2>1. /\ br[n] = "idle" /\ fwcard[n].br_pending /\ fwcard' = [fwcard EXCEPT ![n] = c]
        /\ br' = [br EXCEPT ![n] = "config"] /\ UNCHANGED <<bus, dev, bm, external, manager>>
      BY <1>1, Typed DEF BrStart, BmInv
  <2>2. c \in CardType /\ c.kref = fwcard[n].kref /\ c.bm_pending = fwcard[n].bm_pending
        /\ c.br_pending = FALSE /\ c.gen = fwcard[n].gen
        /\ c.bcast = fwcard[n].bcast /\ c.late = fwcard[n].late
      BY DEF CardType
  <2> HIDE DEF c
  <2>3. One(c.br_pending) = 0 /\ One(fwcard[n].br_pending) = 1
        /\ One(br[n] # "idle") = 0 /\ One("config" # "idle") = 1
      BY <2>1, <2>2 DEF One
  <2>4. fwcard[n].kref = 1 + One(fwcard[n].bm_pending) + 1 + One(bm[n].pc # "idle") + 0
      BY <2>3 DEF CardOk
  <2>5. c.kref = 1 + One(c.bm_pending) + 0 + One(bm[n].pc # "idle") + 1
      BY <2>2, <2>4, OneType
  <2>6. HostOk(c, bm[n], "config", bus.gen, bus.chan31)
      BY <2>2, <2>3, <2>5 DEF HostOk, CardOk, BrType
  <2>7. bm' = [bm EXCEPT ![n] = bm[n]] /\ "config" \in BrType
      BY <2>1, Typed DEF BmInv, BrType
  <2>8. HostsOk'
      BY <2>1, <2>2, <2>6, <2>7, HostsMove
  <2>9. QED
      BY <2>1, <2>8, Typed, Gather DEF BmInv, RestOk, ManagerRegistered
<1>2. CASE BrConfig(n)
  <2>1. br[n] = "config" /\ br' = [br EXCEPT ![n] = "reset"]
        /\ UNCHANGED <<fwcard, dev, bm, external, manager>>
      BY <1>2 DEF BrConfig
  <2>2. BusKept
    <3>1. PICK own \in Gap : bus' = IF own = 63 THEN bus ELSE SendPhyConfig(fwcard[n].gen, NoNode, own)
        BY <1>2 DEF BrConfig, BusType
    <3>2. QED
        BY <3>1, SendPhyConfigOk DEF BusKept
  <2>3. HostOk(fwcard[n], bm[n], "reset", bus.gen, bus.chan31)
    <3>1. One("reset" # "idle") = One(br[n] # "idle")
        BY <2>1 DEF One
    <3>2. QED
        BY <3>1 DEF HostOk, CardOk, BrType
  <2>4. fwcard' = [fwcard EXCEPT ![n] = fwcard[n]] /\ bm' = [bm EXCEPT ![n] = bm[n]]
        /\ "reset" \in BrType
      BY <2>1, Typed DEF BmInv, BrType
  <2>5. HostsOk'
      BY <2>1, <2>2, <2>3, <2>4, HostsMove DEF BusKept
  <2>6. QED
      BY <2>1, <2>2, <2>5, Typed, Gather DEF BmInv, RestOk, ManagerRegistered, BusKept
<1>3. CASE BrReset(n)
  <2> DEFINE m == fwcard[n].kref - 1
             c == [fwcard[n] EXCEPT !.kref = m]
  <2>1. /\ br[n] = "reset" /\ fwcard' = [fwcard EXCEPT ![n] = c] /\ BusReset(n)
        /\ br' = [br EXCEPT ![n] = "idle"] /\ UNCHANGED <<dev, bm, external>>
      BY <1>3, Typed DEF BrReset, BmInv
  <2>2. One(br[n] # "idle") = 1 /\ One("idle" # "idle") = 0
      BY <2>1 DEF One
  <2>3. m \in Nat \ {0} /\ m = fwcard[n].kref - 1 /\ fwcard[n].kref \in Nat
      BY <2>2, OneType DEF CardOk, CardType
  <2> HIDE DEF m
  <2>4. c \in CardType /\ c.kref = m /\ c.bm_pending = fwcard[n].bm_pending
        /\ c.br_pending = fwcard[n].br_pending /\ c.gen = fwcard[n].gen
        /\ c.bcast = fwcard[n].bcast /\ c.late = fwcard[n].late
      BY <2>3 DEF CardType
  <2> HIDE DEF c
  <2>5. CardOk(c, One(bm[n].pc # "idle"), "idle", bus.gen, bus.chan31)
    <3>1. fwcard[n].kref = 1 + One(fwcard[n].bm_pending) + One(fwcard[n].br_pending)
                           + One(bm[n].pc # "idle") + 1
        BY <2>2 DEF CardOk
    <3>2. c.kref = 1 + One(c.bm_pending) + One(c.br_pending) + One(bm[n].pc # "idle") + 0
        BY <2>3, <2>4, <3>1, OneType
    <3>3. QED
        BY <2>2, <2>4, <3>2 DEF CardOk
  <2>6. HostOk(c, bm[n], "idle", bus.gen, bus.chan31)
      BY <2>5 DEF HostOk, BrType
  <2>7. bm' = [bm EXCEPT ![n] = bm[n]] /\ "idle" \in BrType
      BY <2>1, Typed DEF BmInv, BrType
  <2>8. bus' \in BusType /\ bus'.gen > bus.gen /\ manager' = {}
      BY <2>1, BusResetOk
  <2>9. HostsOk'
      BY <2>1, <2>4, <2>6, <2>7, <2>8, HostsMove
  <2>10. QED
      BY <2>1, <2>8, <2>9, Gather DEF RestOk, ManagerRegistered
<1>4. QED
    BY <1>1, <1>2, <1>3 DEF BrWork

-----------------------------------------------------------------------------
(* The steps of the bus, of interrupts and of time.                        *)

\* The card of a host changes and nothing else of its work items.
LEMMA CardStep ==
    ASSUME BmInv, NEW n \in Host, NEW c, fwcard' = [fwcard EXCEPT ![n] = c],
           CardOk(c, One(bm[n].pc # "idle"), br[n], bus.gen, bus.chan31),
           UNCHANGED <<bus, bm, br, manager>>, RestOk'
    PROVE  BmInv'
<1>1. c \in CardType /\ HostOk(c, bm[n], br[n], bus.gen, bus.chan31)
    BY OfHost DEF HostOk, CardOk
<1>2. bm' = [bm EXCEPT ![n] = bm[n]] /\ br' = [br EXCEPT ![n] = br[n]]
    BY Typed DEF BmInv
<1>3. HostsOk'
    BY <1>1, <1>2, OfHost, HostsMove
<1>4. QED
    BY <1>3, Typed, Gather DEF BmInv, ManagerRegistered

LEMMA ScheduleBusResetStep ==
    ASSUME BmInv, NEW n \in Host, ScheduleBusReset(n)
    PROVE  BmInv'
<1> USE OfHost
<1>1. /\ external' = external + 1 /\ external < MaxExternal /\ UNCHANGED <<bus, dev, bm, br, manager>>
      /\ external' \in 0 .. MaxExternal
    BY BusAssumption DEF ScheduleBusReset, RestOk
<1>2. CASE fwcard[n].br_pending
  <2>1. fwcard' = [fwcard EXCEPT ![n] = fwcard[n]]
      BY <1>2, Typed DEF ScheduleBusReset, BmInv
  <2>2. QED
      BY <1>1, <2>1, CardStep DEF RestOk
<1>3. CASE ~fwcard[n].br_pending
  <2> DEFINE m == fwcard[n].kref + 1
             c == [fwcard[n] EXCEPT !.br_pending = TRUE, !.kref = m]
  <2>1. fwcard' = [fwcard EXCEPT ![n] = c]
      BY <1>3, Typed DEF ScheduleBusReset, BmInv
  <2>2. m \in Nat \ {0} /\ m = fwcard[n].kref + 1 /\ fwcard[n].kref \in Nat
      BY DEF CardType
  <2> HIDE DEF m
  <2>3. c \in CardType /\ c.kref = m /\ c.bm_pending = fwcard[n].bm_pending
        /\ c.br_pending = TRUE /\ c.gen = fwcard[n].gen
        /\ c.bcast = fwcard[n].bcast /\ c.late = fwcard[n].late
      BY <2>2 DEF CardType
  <2> HIDE DEF c
  <2>4. One(c.br_pending) = 1 /\ One(fwcard[n].br_pending) = 0
      BY <1>3, <2>3 DEF One
  <2>5. fwcard[n].kref = 1 + One(fwcard[n].bm_pending) + 0 + One(bm[n].pc # "idle") + One(br[n] # "idle")
      BY <2>4 DEF CardOk
  <2>6. c.kref = 1 + One(c.bm_pending) + 1 + One(bm[n].pc # "idle") + One(br[n] # "idle")
      BY <2>2, <2>3, <2>5, OneType
  <2>7. CardOk(c, One(bm[n].pc # "idle"), br[n], bus.gen, bus.chan31)
      BY <2>3, <2>4, <2>6 DEF CardOk
  <2>8. QED
      BY <1>1, <2>1, <2>7, CardStep DEF RestOk
<1>4. QED
    BY <1>2, <1>3

LEMMA HandleBusResetStep ==
    ASSUME BmInv, NEW n \in Host, HandleBusReset(n)
    PROVE  BmInv'
<1> USE OfHost
<1> DEFINE skipped == fwcard[n].tree /\ bus.gen # fwcard[n].gen + 1
<1> HIDE DEF skipped
<1>1. PICK abdicate \in Abdicate :
        /\ fwcard' = [fwcard EXCEPT ![n] = ScheduleBm(NewGeneration(fwcard[n], abdicate, skipped))]
        /\ \/ dev' = [dev EXCEPT ![n] = FreshDevices] \/ dev' = dev
           \/ dev' = [dev EXCEPT ![n][bus.initiator] = "probing"]
    BY DEF HandleBusReset, skipped
<1>2. UNCHANGED <<bus, bm, br, external, manager>>
    BY DEF HandleBusReset
<1>3. FreshDevices \in [Node -> {"none", "probing", "running"}]
    BY DEF FreshDevices
<1>4. RestOk'
    BY <1>1, <1>2, <1>3 DEF RestOk
<1> DEFINE retries == IF skipped \/ ~fwcard[n].tree THEN 0 ELSE fwcard[n].retries
           c == [fwcard[n] EXCEPT
                    !.gen = bus.gen, !.tree = TRUE, !.root = bus.root, !.irm = bus.irm,
                    !.gap = bus.gap, !.bm_node_id = NoNode, !.grace = FALSE,
                    !.bcast = FALSE, !.late = FALSE, !.abdicate = abdicate, !.retries = retries]
<1>5. NewGeneration(fwcard[n], abdicate, skipped) = c
    BY DEF NewGeneration
<1>6. /\ retries \in 0 .. MaxRetries /\ abdicate \in BOOLEAN /\ NoNode \in 0 .. NoNode
      /\ bus.root \in Node /\ bus.irm \in Node /\ bus.gap \in Gap
  <2>1. fwcard[n].retries \in 0 .. MaxRetries /\ 0 \in 0 .. MaxRetries
      BY BusAssumption DEF CardType
  <2>2. abdicate \in BOOLEAN /\ NoNode \in 0 .. NoNode
      BY BusAssumption DEF NoNode
  <2>3. QED
      BY <2>1, <2>2 DEF BusType
<1> HIDE DEF retries
<1>7. c \in CardType /\ c.kref = fwcard[n].kref /\ c.bm_pending = fwcard[n].bm_pending
      /\ c.br_pending = fwcard[n].br_pending /\ c.gen = bus.gen /\ c.bcast = FALSE
    BY ZenonT(30), <1>6 DEF CardType
<1> HIDE DEF c
<1>8. CardOk(c, One(bm[n].pc # "idle"), br[n], bus.gen, bus.chan31)
    BY <1>7 DEF CardOk, Gen
<1>9. One(bm[n].pc # "idle") \in 0 .. 1
    BY OneType
<1>10. CardOk(ScheduleBm(c), One(bm[n].pc # "idle"), br[n], bus.gen, bus.chan31)
    BY <1>8, <1>9, ScheduleBmOk
<1>11. QED
    BY <1>1, <1>2, <1>4, <1>5, <1>10, CardStep

LEMMA GraceExpiresStep ==
    ASSUME BmInv, NEW n \in Host, GraceExpires(n)
    PROVE  BmInv'
<1> USE OfHost
<1> DEFINE c == [fwcard[n] EXCEPT !.grace = TRUE]
<1>1. fwcard' = [fwcard EXCEPT ![n] = c] /\ UNCHANGED <<bus, dev, bm, br, external, manager>>
    BY Typed DEF GraceExpires, BmInv
<1>2. c \in CardType /\ c.kref = fwcard[n].kref /\ c.bm_pending = fwcard[n].bm_pending
      /\ c.br_pending = fwcard[n].br_pending /\ c.gen = fwcard[n].gen
      /\ c.bcast = fwcard[n].bcast /\ c.late = fwcard[n].late
    BY DEF CardType
<1> HIDE DEF c
<1>3. CardOk(c, One(bm[n].pc # "idle"), br[n], bus.gen, bus.chan31)
    BY <1>2 DEF CardOk
<1>4. QED
    BY <1>1, <1>3, CardStep DEF RestOk

LEMMA ProbeStep ==
    ASSUME BmInv, NEW n \in Host, NEW p \in Node, Probe(n, p)
    PROVE  BmInv'
<1> USE OfHost
<1> DEFINE c == IF p = fwcard[n].root THEN ScheduleBm(fwcard[n]) ELSE fwcard[n]
<1>1. fwcard' = [fwcard EXCEPT ![n] = c] /\ UNCHANGED <<bus, bm, br, external, manager>>
    BY DEF Probe
<1>2. RestOk'
    BY DEF Probe, RestOk
<1>3. One(bm[n].pc # "idle") \in 0 .. 1
    BY OneType
<1>4. CardOk(c, One(bm[n].pc # "idle"), br[n], bus.gen, bus.chan31)
    BY <1>3, ScheduleBmOk
<1> HIDE DEF c
<1>5. QED
    BY <1>1, <1>2, <1>4, CardStep

LEMMA ResetStep ==
    ASSUME BmInv, FirstReset \/ ExternalReset
    PROVE  BmInv'
<1>1. bus \in BusType /\ RestOk /\ manager \subseteq Host
    BY Typed DEF BmInv, RestOk
<1>2. CASE FirstReset
  <2>1. PICK r \in Node, g \in Gap : \E i \in IrmFor(r) :
          bus' = [bus EXCEPT !.gen = 1, !.initiator = r, !.root = r, !.irm = i, !.gap = g]
      BY <1>2 DEF FirstReset
  <2>2. PICK i \in Node :
          bus' = [bus EXCEPT !.gen = 1, !.initiator = r, !.root = r, !.irm = i, !.gap = g]
      BY <2>1, IrmIsNode
  <2>3. 1 \in Gen
      BY BusAssumption DEF Gen
  <2>4. bus' \in BusType /\ bus'.gen = 1 /\ bus'.reg = bus.reg
      BY <1>1, <2>2, <2>3 DEF BusType
  <2>0. bus.gen = 0 /\ UNCHANGED <<fwcard, dev, bm, br, external, manager>>
      BY <1>2 DEF FirstReset
  <2>5. bus'.gen > bus.gen /\ UNCHANGED <<fwcard, dev, bm, br, external, manager>>
      BY <2>0, <2>4
  <2>6. HostsOk'
      BY <2>4, <2>5, BusMoves
  <2>7. QED
      BY <1>1, <2>4, <2>5, <2>6, Gather DEF RestOk, ManagerRegistered, BmInv
<1>3. CASE ExternalReset
  <2>1. bus' \in BusType /\ bus'.gen > bus.gen /\ manager' = {}
      BY <1>3, BusResetOk DEF ExternalReset
  <2>2. UNCHANGED <<fwcard, dev, bm, br>> /\ external' \in 0 .. MaxExternal
      BY <1>1, <1>3, BusAssumption DEF ExternalReset, RestOk
  <2>3. HostsOk'
      BY <2>1, <2>2, BusMoves
  <2>4. QED
      BY <1>1, <2>1, <2>2, <2>3, Gather DEF RestOk, ManagerRegistered
<1>4. QED
    BY <1>2, <1>3

LEMMA BmStep == BmInv /\ [BmNext]_bmvars => BmInv'
<1> SUFFICES ASSUME BmInv, [BmNext]_bmvars PROVE BmInv'
    OBVIOUS
<1>1. ASSUME NEW n \in Host, BmWork(n) PROVE BmInv'
    BY <1>1, BmStartStep, LockAtIrmStep, LockCompleteStep, LockFailsStep, AllocateStep,
       OnlyIrmDoneStep, BmConfigStep, BmResetStep, BmCmstrStep, BcastDoneStep
       DEF BmWork, OnlyIrmAllocate, BcastAllocate
<1>2. ASSUME NEW n \in Host,
             ScheduleBusReset(n) \/ HandleBusReset(n) \/ GraceExpires(n)
             \/ (\E p \in Node : Probe(n, p))
      PROVE  BmInv'
    BY <1>2, ScheduleBusResetStep, HandleBusResetStep, GraceExpiresStep, ProbeStep
<1>3. CASE UNCHANGED bmvars
  <2>1. HostsOk' /\ RestOk' /\ bus' \in BusType /\ (manager \subseteq Host)' /\ ManagerRegistered'
      BY <1>3, Typed DEF bmvars, BmInv, HostsOk, RestOk, ManagerRegistered
  <2>2. QED
      BY <2>1, Gather
<1>4. QED
    BY <1>1, <1>2, <1>3, BrStep, ResetStep DEF BmNext

LEMMA BmStart0 == BmInit => BmInv
<1> SUFFICES ASSUME BmInit PROVE BmInv
    OBVIOUS
<1>1. 0 \in Gen /\ Host \subseteq Node /\ 63 \in Gap /\ NoNode \in 0 .. NoNode
      /\ 0 \in 0 .. MaxRetries /\ 0 \in 0 .. MaxExternal /\ NotRegistered \in 0 .. 63
      /\ NoCfg \in [root : Node \cup {NoNode}, gap : Gap]
    BY BusAssumption DEF Gen, Node, Gap, NoNode, NotRegistered, NoCfg
<1>2. bus \in BusType /\ bus.gen = 0
  <2> DEFINE h == CHOOSE n \in Host : TRUE
  <2>1. h \in Node
      BY <1>1, BusAssumption
  <2> HIDE DEF h
  <2>2. bus = [gen |-> 0, initiator |-> h, root |-> h, irm |-> h, gap |-> 63,
               reg |-> NotRegistered, chan31 |-> FALSE, cfg |-> NoCfg, cmstr |-> FALSE]
      BY DEF BmInit, h
  <2>3. QED
      BY <1>1, <2>1, <2>2 DEF BusType
<1>3. RestOk /\ manager = {}
    BY <1>1 DEF BmInit, RestOk, FreshDevices
<1>4. ASSUME NEW n \in Host
      PROVE  HostOk(fwcard[n], bm[n], br[n], bus.gen, bus.chan31)
  <2>1. fwcard[n] = [gen |-> 0, tree |-> FALSE, root |-> n, irm |-> n, gap |-> 63, bm_gen |-> 0,
                     bm_node_id |-> NoNode, retries |-> 0, bcast |-> FALSE, late |-> FALSE,
                     grace |-> FALSE, abdicate |-> FALSE, kref |-> 1, bm_pending |-> FALSE,
                     br_pending |-> FALSE]
      BY DEF BmInit
  <2>2. fwcard[n] \in CardType /\ fwcard[n].gen = 0 /\ fwcard[n].kref = 1
        /\ fwcard[n].bm_pending = FALSE /\ fwcard[n].br_pending = FALSE /\ fwcard[n].bcast = FALSE
      BY <1>1, <2>1 DEF CardType
  <2>3. bm[n] = Idle(n) /\ br[n] = "idle"
      BY DEF BmInit
  <2>4. WorkOk(bm[n], bus.gen, bus.chan31) /\ bm[n].pc = "idle"
      BY <1>1, <1>2, <2>3, IdleOk
  <2>5. CardOk(fwcard[n], One(bm[n].pc # "idle"), br[n], bus.gen, bus.chan31)
      BY <1>2, <2>2, <2>3, <2>4 DEF CardOk, One
  <2>6. QED
      BY <2>3, <2>4, <2>5 DEF HostOk, BrType
<1>5. BmTypeOK
    BY <1>2, <1>3, <1>4, Typed DEF BmInit, RestOk, HostOk, CardOk, WorkOk
<1>6. QED
    BY <1>3, <1>4, <1>5 DEF BmInv, ManagerRegistered

\* However bus resets fall between the steps of their work items: at most one host wins the
\* contention in a generation and it is the one the IRM has registered
\* (contend_for_bm()); a card that has noted the broadcast channel can rely on it
\* (allocate_broadcast_channel()); and each queued or running work item holds a reference
\* to its card (fw_schedule_bm_work(), br_work(), bm_work()).
THEOREM BusManagerCorrect == BmSpec => []BusManagerExact
<1>1. BmInv => BusManagerExact
  <2> SUFFICES ASSUME BmInv PROVE BusManagerExact
      OBVIOUS
  <2>1. OneManagerPerGeneration
    <3>1. \A m, n \in manager : m = n
        BY BusAssumption, Typed DEF BmInv, ManagerRegistered, Node
    <3>2. CASE manager = {}
        BY <3>2, FS_EmptySet DEF OneManagerPerGeneration, BmInv
    <3>3. CASE manager # {}
      <4>1. PICK n \in manager : manager = {n}
          BY <3>1, <3>3
      <4>2. Cardinality(manager) = 1
          BY <4>1, FS_Singleton
      <4>3. QED
          BY <4>2 DEF OneManagerPerGeneration, BmInv, ManagerRegistered
    <3>4. QED
        BY <3>2, <3>3
  <2>2. BroadcastChannelHeld
      BY DEF BroadcastChannelHeld, BmInv, HostOk, CardOk
  <2>3. KrefCountsWork
      BY DEF KrefCountsWork, BmInv, HostOk, CardOk, One
  <2>4. QED
      BY <2>1, <2>2, <2>3 DEF BusManagerExact
<1>2. QED
    BY <1>1, BmStart0, BmStep, PTL DEF BmSpec

-----------------------------------------------------------------------------
(* Isochronous resources of a client: the inductive invariant.             *)

\* Who is doing what with user.res.
CallsInv ==
    /\ user.pc = "idle" => user.res = {}
    /\ user.pc = "release" =>
          /\ ~client.in_shutdown
          /\ \A r \in user.res : ~res[r].listed /\ user.res = {r}
    /\ user.pc = "closing" => client.in_shutdown

\* Nobody but the work item can reach the resource any more.
Parted(r) == (res[r].listed => client.in_shutdown) /\ r \notin user.res

\* A resource is used only while it lives; when its work item has seen that it is to be
\* freed, or is about to see it, only the ioctl that allocates it can still reach it; that
\* ioctl is alone with the resource, or was overtaken; the event objects are used once.
ResourceInv(r) ==
    /\ res[r].state = "none" => res[r] = NoRes
    /\ res[r].state # "live" => Parted(r) /\ work[r] = [queued |-> "no", run |-> NoRun]
    /\ res[r].todo = "dealloc" \/ work[r].run.todo = "dealloc" \/ work[r].run.free => Parted(r)
    /\ work[r].run.pc = "idle" => work[r].run = NoRun
    /\ work[r].run.pc = "free" => work[r].run.free /\ (work[r].queued # "no" => res[r].early)
    /\ res[r].used => res[r].early
    /\ res[r].call # "no" =>
          /\ ~client.in_shutdown
          /\ res[r].early \/ (res[r].state = "live" /\ work[r] = [queued |-> "no", run |-> NoRun])
    /\ res[r].e_alloc => events[r].alloc = 0 /\ work[r].run.event # "alloc"
    /\ res[r].e_dealloc => events[r].dealloc = 0 /\ work[r].run.event # "dealloc"
    /\ work[r].run.event = "alloc" => events[r].alloc = 0
    /\ work[r].run.event = "dealloc" => events[r].dealloc = 0

CdevIsoInv == CdevIsoTypeOK /\ CallsInv /\ (\A r \in Res : ResourceInv(r)) /\ KrefCovers

\* References that no resource has, and those that one resource has.
Base == (IF client.in_shutdown /\ user.pc = "idle" THEN 0 ELSE 1) + (IF once.pc = "idle" THEN 0 ELSE 1)
Weight(r) ==
    (IF r \in Held THEN 1 ELSE 0) + (IF r \in Queued THEN 1 ELSE 0) + (IF r \in Running THEN 1 ELSE 0)

LEMMA LeastChannel ==
    ASSUME NEW S \in SUBSET Channel, S # {}
    PROVE  Min(S) \in S
<1> DEFINE R == OpToRel(<, Nat)
<1>1. IsWellFoundedOn(R, Nat)
    BY NatLessThanWellFounded
<1>2. \A x, y \in Nat : x < y => <<x, y>> \in R
    BY DEF OpToRel
<1> HIDE DEF R
<1>3. S \in SUBSET Nat
    BY CdevIsoAssumption
<1>4. PICK x \in S : \A y \in S : ~ (<<y, x>> \in R)
    BY <1>1, <1>3, WFMin
<1>5. ASSUME NEW y \in S PROVE x <= y
  <2>1. ~ (y < x)
      BY <1>2, <1>3, <1>4
  <2>2. QED
      BY <1>3, <2>1
<1>6. QED
    BY <1>5 DEF Min

LEMMA TakenTyped ==
    ASSUME irm \in IrmType, NEW o \in Owner, NEW c \in Channel, irm.bw >= Units
    PROVE  Taken(o, c, Units) \in IrmType
<1>1. irm.units[o] + Units \in Nat /\ irm.bw - Units \in 0 .. Initial
    BY CdevIsoAssumption DEF IrmType
<1>2. QED
    BY <1>1 DEF IrmType, Taken

LEMMA FreedTyped ==
    ASSUME irm \in IrmType, NEW o \in Owner, NEW mask \in SUBSET Channel
    PROVE  Freed(o, mask) \in IrmType
<1> DEFINE taken == mask \ irm.avail
           n == IF irm.bw + Units <= Initial THEN Units ELSE 0
           avail == irm.avail \cup (IF taken = {} THEN {} ELSE {Min(taken)})
           owner == [d \in Channel |-> IF taken # {} /\ d = Min(taken) /\ irm.owner[d] = o
                                       THEN "free" ELSE irm.owner[d]]
           units == [irm.units EXCEPT ![o] = IF @ >= n THEN @ - n ELSE @]
<1>1. avail \in SUBSET Channel
    BY LeastChannel DEF IrmType
<1>2. owner \in [Channel -> Owner \cup {"free"}]
    BY DEF IrmType
<1>3. n \in Nat /\ irm.bw + n \in 0 .. Initial
    BY CdevIsoAssumption DEF IrmType
<1>4. units \in [Owner -> Nat]
    BY <1>3 DEF IrmType
<1>5. Freed(o, mask) = [irm EXCEPT !.avail = avail, !.owner = owner, !.bw = irm.bw + n, !.units = units]
    BY DEF Freed, IrmType
<1> HIDE DEF avail, owner, n, units
<1>6. QED
    BY <1>1, <1>2, <1>3, <1>4, <1>5 DEF IrmType

LEMMA OneMore ==
    ASSUME NEW S \in SUBSET Res, NEW r \in Res
    PROVE  /\ IsFiniteSet(S) /\ Cardinality(S) \in Nat
           /\ Cardinality(S \cup {r}) = Cardinality(S) + (IF r \in S THEN 0 ELSE 1)
           /\ Cardinality(S \ {r}) = Cardinality(S) - (IF r \in S THEN 1 ELSE 0)
           /\ r \in S => Cardinality(S) >= 1
<1>1. IsFiniteSet(S)
    BY CdevIsoAssumption, FS_Subset
<1>2. Cardinality(S) \in Nat /\ Cardinality(S \ {r}) \in Nat
    BY <1>1, FS_CardinalityType, FS_RemoveElement
<1>3. Cardinality(S \cup {r}) = Cardinality(S) + (IF r \in S THEN 0 ELSE 1)
  <2>1. Cardinality(S \cup {r}) = IF r \in S THEN Cardinality(S) ELSE Cardinality(S) + 1
      BY <1>1, FS_AddElement
  <2>2. QED
      BY <1>2, <2>1
<1>4. Cardinality(S \ {r}) = Cardinality(S) - (IF r \in S THEN 1 ELSE 0)
  <2>1. Cardinality(S \ {r}) = IF r \in S THEN Cardinality(S) - 1 ELSE Cardinality(S)
      BY <1>1, FS_RemoveElement
  <2>2. QED
      BY <1>2, <2>1
<1>5. QED
    BY <1>1, <1>2, <1>3, <1>4

LEMMA AtLeastOne ==
    \A S \in SUBSET Res, r \in Res : Cardinality(S) >= (IF r \in S THEN 1 ELSE 0)
<1> TAKE S \in SUBSET Res, r \in Res
<1>1. Cardinality(S) \in Nat /\ (r \in S => Cardinality(S) >= 1)
    BY OneMore
<1>2. QED
    BY <1>1

\* A set changes in one element only.
LEMMA ChangesInOne ==
    ASSUME NEW S \in SUBSET Res, NEW T \in SUBSET Res, NEW r \in Res, S \ {r} = T \ {r}
    PROVE  /\ Cardinality(S) \in Nat /\ Cardinality(T) \in Nat
           /\ Cardinality(T) = Cardinality(S) - (IF r \in S THEN 1 ELSE 0) + (IF r \in T THEN 1 ELSE 0)
<1>1. Cardinality(S) \in Nat /\ Cardinality(T) \in Nat
    BY OneMore
<1>2. Cardinality(S \ {r}) = Cardinality(S) - (IF r \in S THEN 1 ELSE 0)
    BY OneMore
<1>3. Cardinality(T \ {r}) = Cardinality(T) - (IF r \in T THEN 1 ELSE 0)
    BY OneMore
<1>4. QED
    BY <1>1, <1>2, <1>3

ReferencesAdd ==
    /\ Cardinality(Held) \in Nat /\ Cardinality(Queued) \in Nat /\ Cardinality(Running) \in Nat
    /\ References = Base + Cardinality(Held) + Cardinality(Queued) + Cardinality(Running)
    /\ Base \in Nat /\ References \in Nat /\ References >= Base
    /\ \A r \in Res : Weight(r) \in 0 .. 3 /\ References >= Base + Weight(r)

LEMMA ReferencesAreNat == CdevIsoTypeOK => ReferencesAdd
<1> SUFFICES ASSUME CdevIsoTypeOK PROVE ReferencesAdd
    OBVIOUS
<1>1. Held \in SUBSET Res /\ Queued \in SUBSET Res /\ Running \in SUBSET Res
    BY DEF CdevIsoTypeOK, Held, Queued, Running
<1>2. \A S \in SUBSET Res : Cardinality(S) \in Nat
    BY CdevIsoAssumption, FS_Subset, FS_CardinalityType
<1>3. Cardinality(Held) \in Nat /\ Cardinality(Queued) \in Nat /\ Cardinality(Running) \in Nat
    BY <1>1, <1>2
<1>4. References = Base + Cardinality(Held) + Cardinality(Queued) + Cardinality(Running)
    BY <1>3 DEF References, Base
<1>5. Base \in Nat
    BY DEF Base
<1>6. ASSUME NEW r \in Res
      PROVE  Weight(r) \in 0 .. 3 /\ References >= Base + Weight(r)
  <2>1. /\ Cardinality(Held) >= (IF r \in Held THEN 1 ELSE 0)
        /\ Cardinality(Queued) >= (IF r \in Queued THEN 1 ELSE 0)
        /\ Cardinality(Running) >= (IF r \in Running THEN 1 ELSE 0)
      BY <1>2, <1>1, AtLeastOne
  <2>2. QED
      BY <1>3, <1>4, <1>5, <2>1 DEF Weight
<1>7. QED
    BY <1>3, <1>4, <1>5, <1>6 DEF ReferencesAdd

\* A step that is about one resource.
OthersUntouched(r) ==
    /\ \A q \in Res \ {r} : res'[q] = res[q] /\ work'[q] = work[q] /\ events'[q] = events[q]
    /\ user'.res \ {r} = user.res \ {r}
    /\ client'.in_shutdown = client.in_shutdown

LEMMA StepOfOne ==
    ASSUME CdevIsoInv, CdevIsoTypeOK', NEW r \in Res, OthersUntouched(r)
    PROVE  /\ References' = References - Base + Base' - Weight(r) + Weight(r)'
           /\ \A q \in Res \ {r} : ResourceInv(q)'
<1>1. \A q \in Res \ {r} : /\ q \in Held' <=> q \in Held
                           /\ q \in Queued' <=> q \in Queued
                           /\ q \in Running' <=> q \in Running
    BY DEF OthersUntouched, Held, Queued, Running
<1>2. /\ Held \in SUBSET Res /\ Queued \in SUBSET Res /\ Running \in SUBSET Res
      /\ Held' \in SUBSET Res /\ Queued' \in SUBSET Res /\ Running' \in SUBSET Res
    BY DEF CdevIsoInv, CdevIsoTypeOK, Held, Queued, Running
<1>3. Held \ {r} = Held' \ {r} /\ Queued \ {r} = Queued' \ {r} /\ Running \ {r} = Running' \ {r}
    BY <1>1, <1>2
<1>4. Cardinality(Held)' = Cardinality(Held) - (IF r \in Held THEN 1 ELSE 0) + (IF r \in Held' THEN 1 ELSE 0)
    BY <1>2, <1>3, ChangesInOne
<1>5. Cardinality(Queued)' = Cardinality(Queued) - (IF r \in Queued THEN 1 ELSE 0) + (IF r \in Queued' THEN 1 ELSE 0)
    BY <1>2, <1>3, ChangesInOne
<1>6. Cardinality(Running)' = Cardinality(Running) - (IF r \in Running THEN 1 ELSE 0) + (IF r \in Running' THEN 1 ELSE 0)
    BY <1>2, <1>3, ChangesInOne
<1>7. /\ References' = Base' + Cardinality(Held)' + Cardinality(Queued)' + Cardinality(Running)'
      /\ Base' \in Nat
  <2>1. ReferencesAdd'
      BY ReferencesAreNat, PTL
  <2>2. QED
      BY <2>1 DEF ReferencesAdd
<1>8. /\ References = Base + Cardinality(Held) + Cardinality(Queued) + Cardinality(Running)
      /\ Base \in Nat /\ Cardinality(Held) \in Nat /\ Cardinality(Queued) \in Nat /\ Cardinality(Running) \in Nat
    BY ReferencesAreNat DEF CdevIsoInv, ReferencesAdd
<1>9. References' = References - Base + Base' - Weight(r) + Weight(r)'
    BY <1>4, <1>5, <1>6, <1>7, <1>8 DEF Weight
<1>10. ASSUME NEW q \in Res \ {r} PROVE ResourceInv(q)'
  <2>1. ResourceInv(q) /\ res'[q] = res[q] /\ work'[q] = work[q] /\ events'[q] = events[q]
        /\ (Parted(q)' <=> Parted(q)) /\ client'.in_shutdown = client.in_shutdown
      BY DEF CdevIsoInv, OthersUntouched, Parted
  <2>2. QED
      BY <2>1 DEF ResourceInv
<1>11. QED
    BY <1>9, <1>10

\* What is left to show for such a step.
LEMMA StepOfOnePreserves ==
    ASSUME CdevIsoInv, CdevIsoTypeOK', NEW r \in Res, OthersUntouched(r),
           CallsInv', ResourceInv(r)',
           client'.kref - client.kref >= Base' + Weight(r)' - Base - Weight(r),
           client'.freed <=> client'.kref = 0
    PROVE  CdevIsoInv'
<1>1. References' = References - Base + Base' - Weight(r) + Weight(r)'
    BY StepOfOne
<1>2. \A q \in Res : ResourceInv(q)'
    BY StepOfOne
<1>3. client.kref >= References /\ client.kref \in Nat /\ client'.kref \in Nat
    BY DEF CdevIsoInv, CdevIsoTypeOK, KrefCovers
<1>4. References \in Nat /\ Base \in Nat /\ Weight(r) \in Int
    BY ReferencesAreNat DEF CdevIsoInv, ReferencesAdd
<1>5. Base' \in Int /\ Weight(r)' \in Int
    BY DEF Base, Weight
<1>6. client'.kref >= References'
    BY <1>1, <1>3, <1>4, <1>5
<1>7. QED
    BY <1>2, <1>6 DEF CdevIsoInv, KrefCovers

\* What is left to show for a step that is about no resource.
LEMMA StepOfNonePreserves ==
    ASSUME CdevIsoInv, CdevIsoTypeOK', UNCHANGED <<res, work, events>>,
           user'.res = user.res, client'.in_shutdown = client.in_shutdown,
           CallsInv',
           client'.kref - client.kref >= Base' - Base,
           client'.freed <=> client'.kref = 0
    PROVE  CdevIsoInv'
<1>1. Held' = Held /\ Queued' = Queued /\ Running' = Running
    BY DEF Held, Queued, Running
<1>2. References' = Base' + Cardinality(Held) + Cardinality(Queued) + Cardinality(Running)
  <2>1. ReferencesAdd'
      BY ReferencesAreNat, PTL
  <2>2. QED
      BY <1>1, <2>1 DEF ReferencesAdd
<1>3. /\ References = Base + Cardinality(Held) + Cardinality(Queued) + Cardinality(Running)
      /\ Base \in Nat /\ Cardinality(Held) \in Nat /\ Cardinality(Queued) \in Nat /\ Cardinality(Running) \in Nat
    BY ReferencesAreNat DEF CdevIsoInv, ReferencesAdd
<1>4. client.kref >= References /\ client.kref \in Nat /\ client'.kref \in Nat
    BY DEF CdevIsoInv, CdevIsoTypeOK, KrefCovers
<1>5. Base' \in Int
    BY DEF Base
<1>6. client'.kref >= References'
    BY <1>2, <1>3, <1>4, <1>5
<1>7. ASSUME NEW q \in Res PROVE ResourceInv(q)'
  <2>1. ResourceInv(q) /\ (Parted(q)' <=> Parted(q))
      BY DEF CdevIsoInv, Parted
  <2>2. QED
      BY <2>1 DEF ResourceInv
<1>8. QED
    BY <1>6, <1>7 DEF CdevIsoInv, KrefCovers

-----------------------------------------------------------------------------
(* The steps that are about no resource.                                   *)

LEMMA NothingAlive ==
    ASSUME CdevIsoInv, IrmReset \/ GraceEnds \/ OtherTakes \/ DeviceGeneration \/ OnceStart
    PROVE  CdevIsoInv'
<1>1. CdevIsoTypeOK'
  <2>1. irm' \in IrmType
    <3>1. CASE IrmReset
        BY <3>1, CdevIsoAssumption DEF CdevIsoInv, CdevIsoTypeOK, IrmReset, IrmType, Owner
    <3>2. CASE GraceEnds
        BY <3>2 DEF CdevIsoInv, CdevIsoTypeOK, GraceEnds, IrmType
    <3>3. CASE OtherTakes
      <4>1. irm \in IrmType /\ irm.bw >= Units /\ "other" \in Owner
          BY <3>3 DEF CdevIsoInv, CdevIsoTypeOK, OtherTakes, Owner
      <4>2. PICK c \in irm.avail : irm' = Taken("other", c, Units)
          BY <3>3 DEF OtherTakes
      <4>3. c \in Channel
          BY <4>1, <4>2 DEF IrmType
      <4>4. QED
          BY <4>1, <4>2, <4>3, TakenTyped
    <3>4. CASE DeviceGeneration \/ OnceStart
        BY <3>4 DEF CdevIsoInv, CdevIsoTypeOK, DeviceGeneration, OnceStart
    <3>5. QED
        BY <3>1, <3>2, <3>3, <3>4
  <2>2. device' \in [gen : 0 .. MaxGenerations, told : BOOLEAN]
    <3>1. device' = device \/ device' = [gen |-> irm.gen, told |-> FALSE]
        BY DEF IrmReset, GraceEnds, OtherTakes, DeviceGeneration, OnceStart
    <3>2. irm.gen \in 0 .. MaxGenerations
        BY DEF CdevIsoInv, CdevIsoTypeOK, IrmType
    <3>3. device \in [gen : 0 .. MaxGenerations, told : BOOLEAN]
        BY DEF CdevIsoInv, CdevIsoTypeOK
    <3>4. CASE device' = device
        BY <3>3, <3>4
    <3>5. CASE device' = [gen |-> irm.gen, told |-> FALSE]
        BY <3>2, <3>5
    <3>6. QED
        BY <3>1, <3>4, <3>5
  <2>3. once' \in [pc : {"idle", "queued", "manage"}, gen : 0 .. MaxGenerations, allocate : BOOLEAN]
      BY DEF CdevIsoInv, CdevIsoTypeOK, IrmReset, GraceEnds, OtherTakes, DeviceGeneration, OnceStart
  <2>4. count' \in [other : 0 .. MaxOther, once : 0 .. MaxOnce]
      BY CdevIsoAssumption DEF CdevIsoInv, CdevIsoTypeOK, IrmReset, GraceEnds, OtherTakes, DeviceGeneration, OnceStart
  <2>5. QED
      BY <2>1, <2>2, <2>3, <2>4
         DEF CdevIsoInv, CdevIsoTypeOK, IrmReset, GraceEnds, OtherTakes, DeviceGeneration, OnceStart
<1>2. UNCHANGED <<res, work, user, client, events>>
    BY DEF IrmReset, GraceEnds, OtherTakes, DeviceGeneration, OnceStart
<1>3. Base' = Base /\ Base \in Int
  <2>1. once'.pc = "idle" <=> once.pc = "idle"
      BY DEF CdevIsoInv, CdevIsoTypeOK, IrmReset, GraceEnds, OtherTakes, DeviceGeneration, OnceStart
  <2>2. QED
      BY <1>2, <2>1 DEF Base
<1>4. CallsInv'
    BY <1>2 DEF CdevIsoInv, CallsInv
<1>5. client.kref \in Nat /\ (client.freed <=> client.kref = 0)
    BY DEF CdevIsoInv, CdevIsoTypeOK, KrefCovers
<1>6. QED
    BY <1>1, <1>2, <1>3, <1>4, <1>5, StepOfNonePreserves

LEMMA IoctlOncePreserves ==
    ASSUME CdevIsoInv, IoctlOnce
    PROVE  CdevIsoInv'
<1>1. client.kref \in Nat /\ client.kref >= 1 /\ (client.freed <=> client.kref = 0)
    BY ReferencesAreNat DEF CdevIsoInv, CdevIsoTypeOK, KrefCovers, ReferencesAdd, Base, IoctlOnce, MayCall
<1>2. /\ client' = [client EXCEPT !.kref = client.kref + 1]
      /\ client \in [in_shutdown : BOOLEAN, kref : Nat, freed : BOOLEAN]
    BY DEF IoctlOnce, Get, CdevIsoInv, CdevIsoTypeOK
<1>3. /\ client' \in [in_shutdown : BOOLEAN, kref : Nat, freed : BOOLEAN]
      /\ client'.kref = client.kref + 1 /\ client'.in_shutdown = client.in_shutdown
      /\ client'.freed = client.freed
    BY <1>1, <1>2
<1>4. CdevIsoTypeOK'
  <2>1. count' \in [other : 0 .. MaxOther, once : 0 .. MaxOnce]
      BY CdevIsoAssumption DEF IoctlOnce, CdevIsoInv, CdevIsoTypeOK
  <2>2. once' \in [pc : {"idle", "queued", "manage"}, gen : 0 .. MaxGenerations, allocate : BOOLEAN]
      BY CdevIsoAssumption DEF IoctlOnce
  <2>3. QED
      BY <1>3, <2>1, <2>2 DEF IoctlOnce, CdevIsoInv, CdevIsoTypeOK
<1>5. Base' = Base + 1 /\ Base \in Int
    BY <1>3 DEF Base, IoctlOnce
<1>6. CallsInv'
    BY <1>3 DEF CdevIsoInv, CallsInv, IoctlOnce
<1>7. UNCHANGED <<res, work, events>> /\ user' = user
    BY DEF IoctlOnce
<1>8. QED
    BY <1>1, <1>3, <1>4, <1>5, <1>6, <1>7, StepOfNonePreserves

\* client_put() by somebody who has a reference.
LEMMA PutTyped ==
    ASSUME CdevIsoInv, client.kref >= 1, client' = Put
    PROVE  /\ client' \in [in_shutdown : BOOLEAN, kref : Nat, freed : BOOLEAN]
           /\ client'.kref = client.kref - 1 /\ client'.in_shutdown = client.in_shutdown
           /\ client'.freed <=> client'.kref = 0
<1>1. client \in [in_shutdown : BOOLEAN, kref : Nat, freed : BOOLEAN]
    BY DEF CdevIsoInv, CdevIsoTypeOK
<1>2. client' = [client EXCEPT !.kref = client.kref - 1, !.freed = (client.kref = 1)]
    BY DEF Put
<1>3. client' = [in_shutdown |-> client.in_shutdown, kref |-> client.kref - 1,
                 freed |-> (client.kref = 1)]
    BY <1>1, <1>2
<1>4. client'.kref = client.kref - 1 /\ client.kref - 1 \in Nat /\ (client.kref - 1 = 0 <=> client.kref = 1)
    BY <1>1, <1>3
<1>5. client'.freed <=> client.kref = 1
  <2> DEFINE last == client.kref = 1
  <2>1. client'.freed = last
      BY <1>3
  <2> HIDE DEF last
  <2>2. client'.freed <=> last
      BY <2>1
  <2>3. QED
      BY <2>2 DEF last
<1>6. QED
    BY <1>1, <1>3, <1>4, <1>5

LEMMA OnceManagePreserves ==
    ASSUME CdevIsoInv, OnceManage
    PROVE  CdevIsoInv'
<1>1. client.kref >= 1 /\ client.kref \in Nat
    BY ReferencesAreNat DEF CdevIsoInv, CdevIsoTypeOK, KrefCovers, ReferencesAdd, Base, OnceManage
<1>2. /\ client' \in [in_shutdown : BOOLEAN, kref : Nat, freed : BOOLEAN]
      /\ client'.kref = client.kref - 1 /\ client'.in_shutdown = client.in_shutdown
      /\ client'.freed <=> client'.kref = 0
    BY <1>1, PutTyped DEF OnceManage
<1>3. irm' \in IrmType
  <2> DEFINE mask == {c \in Channel : once.allocate \/ irm.owner[c] = "once"}
  <2>1. irm \in IrmType /\ mask \in SUBSET Channel /\ "once" \in Owner
      BY DEF CdevIsoInv, CdevIsoTypeOK, Owner
  <2>2. irm' = IF once.gen # irm.gen \/ (once.allocate /\ ~Allocatable(mask)) THEN irm
               ELSE IF once.allocate THEN Taken("once", Min(mask \cap irm.avail), Units)
               ELSE Freed("once", mask)
      BY DEF OnceManage
  <2> HIDE DEF mask
  <2>3. CASE Allocatable(mask) /\ irm' = Taken("once", Min(mask \cap irm.avail), Units)
    <3>1. mask \cap irm.avail \in SUBSET Channel /\ mask \cap irm.avail # {} /\ irm.bw >= Units
        BY <2>1, <2>3 DEF Allocatable
    <3>2. Min(mask \cap irm.avail) \in Channel
        BY <3>1, LeastChannel
    <3>3. QED
        BY <2>1, <2>3, <3>1, <3>2, TakenTyped
  <2>4. CASE irm' = Freed("once", mask)
      BY <2>1, <2>4, FreedTyped
  <2>5. QED
      BY <2>1, <2>2, <2>3, <2>4
<1>4. CdevIsoTypeOK'
  <2>1. once' \in [pc : {"idle", "queued", "manage"}, gen : 0 .. MaxGenerations, allocate : BOOLEAN]
      BY DEF OnceManage, CdevIsoInv, CdevIsoTypeOK
  <2>2. QED
      BY <1>2, <1>3, <2>1 DEF OnceManage, CdevIsoInv, CdevIsoTypeOK
<1>5. Base' = Base - 1 /\ Base \in Int
    BY <1>2 DEF Base, OnceManage, CdevIsoInv, CdevIsoTypeOK
<1>6. CallsInv'
    BY <1>2 DEF CdevIsoInv, CallsInv, OnceManage
<1>7. UNCHANGED <<res, work, events>> /\ user' = user
    BY DEF OnceManage
<1>8. QED
    BY <1>1, <1>2, <1>4, <1>5, <1>6, <1>7, StepOfNonePreserves

LEMMA CloseEndsPreserves ==
    ASSUME CdevIsoInv, CloseEnds
    PROVE  CdevIsoInv'
<1>1. client.kref >= 1 /\ client.kref \in Nat
    BY ReferencesAreNat DEF CdevIsoInv, CdevIsoTypeOK, KrefCovers, ReferencesAdd, Base, CloseEnds
<1>2. /\ client' \in [in_shutdown : BOOLEAN, kref : Nat, freed : BOOLEAN]
      /\ client'.kref = client.kref - 1 /\ client'.in_shutdown = client.in_shutdown
      /\ client'.freed <=> client'.kref = 0
    BY <1>1, PutTyped DEF CloseEnds
<1>3. /\ user' \in [pc : {"idle", "release", "closing"}, res : SUBSET Res]
      /\ user'.pc = "idle" /\ user.res = {} /\ user'.res = user.res
    BY DEF CloseEnds, CdevIsoInv, CdevIsoTypeOK
<1>4. CdevIsoTypeOK'
    BY <1>2, <1>3 DEF CloseEnds, CdevIsoInv, CdevIsoTypeOK
<1>5. Base' = Base - 1 /\ Base \in Int
    BY <1>2, <1>3 DEF Base, CloseEnds, CdevIsoInv, CallsInv
<1>6. CallsInv'
    BY <1>3 DEF CdevIsoInv, CallsInv
<1>7. UNCHANGED <<res, work, events>>
    BY DEF CloseEnds
<1>8. QED
    BY <1>1, <1>2, <1>3, <1>4, <1>5, <1>6, <1>7, StepOfNonePreserves

-----------------------------------------------------------------------------
(* The steps that are about one resource.                                  *)

LEMMA ScheduledOne ==
    ASSUME CdevIsoTypeOK, NEW r \in Res, NEW delay \in {"yes", "delayed"}
    PROVE  LET w == Scheduled(work, {r}, delay)
           IN  /\ w \in [Res -> WorkItemType]
               /\ w[r].run = work[r].run
               /\ w[r].queued = IF work[r].queued = "no" THEN delay ELSE work[r].queued
               /\ \A q \in Res \ {r} : w[q] = work[q]
               /\ Cardinality(NewlyQueued(work, {r})) = IF work[r].queued = "no" THEN 1 ELSE 0
<1> DEFINE w == Scheduled(work, {r}, delay)
<1>1. work[r] \in WorkItemType /\ \A q \in Res : work[q] \in WorkItemType
    BY DEF CdevIsoTypeOK
<1>2. [work[r] EXCEPT !.queued = delay] \in WorkItemType
    BY <1>1 DEF WorkItemType
<1>3. w[r] = IF work[r].queued = "no" THEN [work[r] EXCEPT !.queued = delay] ELSE work[r]
    BY DEF Scheduled
<1>4. \A q \in Res \ {r} : w[q] = work[q]
    BY DEF Scheduled
<1>5. w \in [Res -> WorkItemType]
    BY <1>1, <1>2, <1>3, <1>4 DEF Scheduled
<1>6. Cardinality(NewlyQueued(work, {r})) = IF work[r].queued = "no" THEN 1 ELSE 0
  <2>1. NewlyQueued(work, {r}) = IF work[r].queued = "no" THEN {r} ELSE {}
      BY DEF NewlyQueued
  <2>2. QED
      BY <2>1, FS_Singleton, FS_EmptySet
<1>7. w[r].run = work[r].run /\ w[r].queued = IF work[r].queued = "no" THEN delay ELSE work[r].queued
    BY <1>1, <1>3 DEF WorkItemType
<1> HIDE DEF w
<1>8. QED
    BY <1>4, <1>5, <1>6, <1>7 DEF w

LEMMA NoResTyped == NoRes \in ResType
<1>1. -1 \in -1 .. MaxGenerations
    BY CdevIsoAssumption
<1>2. QED
    BY <1>1 DEF NoRes, ResType

LEMMA IoctlAllocatePreserves ==
    ASSUME CdevIsoInv, NEW r \in Res, IoctlAllocate(r)
    PROVE  CdevIsoInv'
<1> DEFINE new == [NoRes EXCEPT !.state = "live", !.listed = TRUE, !.call = "added"]
<1>1. /\ res[r] = NoRes /\ work[r].queued = "no" /\ work[r].run = NoRun /\ Parted(r)
      /\ events[r].alloc = 0 /\ events[r].dealloc = 0
  <2>1. res[r].state = "none" /\ ResourceInv(r)
      BY DEF IoctlAllocate, CdevIsoInv
  <2>2. res[r] = NoRes /\ work[r] = [queued |-> "no", run |-> NoRun] /\ Parted(r)
      BY <2>1 DEF ResourceInv
  <2>3. res[r].e_alloc /\ res[r].e_dealloc
      BY <2>2 DEF NoRes
  <2>4. QED
      BY <2>1, <2>2, <2>3 DEF ResourceInv
<1>2. ~client.in_shutdown /\ UNCHANGED <<work, user, events, irm, device, once, count, env>>
    BY DEF IoctlAllocate
<1>3. new \in ResType
  <2>1. ASSUME NEW u \in ResType
        PROVE  [u EXCEPT !.state = "live", !.listed = TRUE, !.call = "added"] \in ResType
      BY DEF ResType
  <2>2. QED
      BY <2>1, NoResTyped
<1>4. /\ res' \in [Res -> ResType] /\ res'[r] = new /\ \A q \in Res \ {r} : res'[q] = res[q]
    BY <1>3 DEF IoctlAllocate, CdevIsoInv, CdevIsoTypeOK
<1>5. work[r] = [queued |-> "no", run |-> NoRun]
  <2>1. work[r] \in WorkItemType
      BY DEF CdevIsoInv, CdevIsoTypeOK
  <2>2. QED
      BY <1>1, <2>1 DEF WorkItemType
<1>6. client.kref \in Nat /\ client.kref >= 1 /\ (client.freed <=> client.kref = 0)
    BY <1>2, ReferencesAreNat DEF CdevIsoInv, CdevIsoTypeOK, KrefCovers, ReferencesAdd, Base
<1>7. /\ client' \in [in_shutdown : BOOLEAN, kref : Nat, freed : BOOLEAN]
      /\ client'.kref = client.kref + 1 /\ client'.in_shutdown = client.in_shutdown
      /\ client'.freed = client.freed
    BY <1>6 DEF IoctlAllocate, Get, CdevIsoInv, CdevIsoTypeOK
<1>8. CdevIsoTypeOK'
    BY <1>2, <1>4, <1>7 DEF CdevIsoInv, CdevIsoTypeOK
<1>9. ResourceInv(r)'
  <2>1. /\ new.state = "live" /\ new.todo = "alloc" /\ ~new.early /\ ~new.used
        /\ new.e_alloc /\ new.e_dealloc
      BY DEF NoRes
  <2>2. NoRun.pc = "idle" /\ NoRun.todo = "alloc" /\ ~NoRun.free /\ NoRun.event = "none"
      BY DEF NoRun
  <2> HIDE DEF new
  <2>3. QED
      BY <1>1, <1>2, <1>4, <1>5, <1>7, <2>1, <2>2 DEF ResourceInv
<1>10. CallsInv'
  <2>1. r \notin user.res
      BY <1>1 DEF Parted
  <2>2. user.res \in SUBSET Res
      BY DEF CdevIsoInv, CdevIsoTypeOK
  <2>3. QED
      BY <1>2, <1>4, <1>7, <2>1, <2>2 DEF CdevIsoInv, CallsInv
<1>11. Base' = Base /\ Base \in Int
    BY <1>2, <1>7 DEF Base
<1>12. Weight(r) = 0 /\ Weight(r)' = 1
  <2>1. r \notin Held /\ r \notin Queued /\ r \notin Running
      BY <1>1, <1>2 DEF Parted, Held, Queued, Running, NoRun
  <2>2. res'[r].listed
      BY <1>4 DEF NoRes
  <2>3. r \in Held' /\ r \notin Queued' /\ r \notin Running'
      BY <1>1, <1>2, <1>7, <2>2 DEF Held, Queued, Running, NoRun
  <2>4. QED
      BY <2>1, <2>3 DEF Weight
<1>13. OthersUntouched(r)
    BY <1>2, <1>4, <1>7 DEF OthersUntouched
<1>14. QED
    BY <1>6, <1>7, <1>8, <1>9, <1>10, <1>11, <1>12, <1>13, StepOfOnePreserves

\* The ioctl that allocates goes on: it uses the resource, and leaves it to the work item.
LEMMA IoctlReturnsPreserves ==
    ASSUME CdevIsoInv, NEW r \in Res, IoctlReturns(r)
    PROVE  CdevIsoInv'
<1> DEFINE call == IF HandleRead(r) THEN "told" ELSE "no"
           used == res[r].used \/ res[r].state = "freed"
           new == [res[r] EXCEPT !.call = call, !.used = used]
           n == IF work[r].queued = "no" THEN 1 ELSE 0
<1>1. /\ ResourceInv(r) /\ res[r] \in ResType /\ work[r] \in WorkItemType
      /\ res[r].call # "no" /\ ~client.in_shutdown
      /\ res[r].early \/ (res[r].state = "live" /\ work[r] = [queued |-> "no", run |-> NoRun])
    BY DEF IoctlReturns, HandleRead, AllocationScheduled, CdevIsoInv, CdevIsoTypeOK, ResourceInv
<1>2. UNCHANGED <<irm, device, user, events, once, count, env>> /\ res' = [res EXCEPT ![r] = new]
    BY DEF IoctlReturns, HandleRead, AllocationScheduled
<1>3. call \in {"no", "told"} /\ used \in BOOLEAN /\ (used => res[r].early)
    BY <1>1 DEF ResType, ResourceInv
<1> HIDE DEF call, used
<1>4. /\ new \in ResType /\ new.state = res[r].state /\ new.listed = res[r].listed
      /\ new.todo = res[r].todo /\ new.e_alloc = res[r].e_alloc /\ new.e_dealloc = res[r].e_dealloc
      /\ new.call = call /\ new.early = res[r].early /\ new.used = used
    BY <1>1, <1>3 DEF ResType
<1> HIDE DEF new
<1>5. res' \in [Res -> ResType] /\ res'[r] = new /\ \A q \in Res \ {r} : res'[q] = res[q]
    BY <1>2, <1>4 DEF CdevIsoInv, CdevIsoTypeOK
<1>6. client.kref \in Nat /\ client.kref >= 1 /\ (client.freed <=> client.kref = 0)
    BY <1>1, ReferencesAreNat DEF CdevIsoInv, CdevIsoTypeOK, KrefCovers, ReferencesAdd, Base
<1>7. \/ /\ work' = work /\ client' = client
         /\ call = "told" \/ res[r].state = "freed"
      \/ /\ call = "no" /\ res[r].state # "freed"
         /\ work' = Scheduled(work, {r}, "yes")
         /\ client' = [client EXCEPT !.kref = client.kref + n]
    BY ScheduledOne DEF IoctlReturns, HandleRead, AllocationScheduled, call, CdevIsoInv, Get
<1>8. /\ work' \in [Res -> WorkItemType] /\ work'[r].run = work[r].run
      /\ \A q \in Res \ {r} : work'[q] = work[q]
      /\ client' \in [in_shutdown : BOOLEAN, kref : Nat, freed : BOOLEAN]
      /\ client'.in_shutdown = client.in_shutdown /\ client'.freed = client.freed
      /\ \/ work' = work /\ client'.kref = client.kref
         \/ /\ call = "no" /\ res[r].state # "freed" /\ work'[r].queued # "no"
            /\ client'.kref = client.kref + n
  <2>1. CASE work' = work /\ client' = client
      BY <2>1 DEF CdevIsoInv, CdevIsoTypeOK
  <2>2. CASE /\ call = "no" /\ res[r].state # "freed"
             /\ work' = Scheduled(work, {r}, "yes")
             /\ client' = [client EXCEPT !.kref = client.kref + n]
    <3>1. /\ work' \in [Res -> WorkItemType] /\ work'[r].run = work[r].run
          /\ work'[r].queued # "no" /\ \A q \in Res \ {r} : work'[q] = work[q]
        BY <2>2, ScheduledOne DEF CdevIsoInv
    <3>2. client \in [in_shutdown : BOOLEAN, kref : Nat, freed : BOOLEAN] /\ client.kref + n \in Nat
        BY <1>6 DEF CdevIsoInv, CdevIsoTypeOK
    <3> HIDE DEF n
    <3>3. /\ client' \in [in_shutdown : BOOLEAN, kref : Nat, freed : BOOLEAN]
          /\ client'.in_shutdown = client.in_shutdown /\ client'.freed = client.freed
          /\ client'.kref = client.kref + n
        BY <2>2, <3>2
    <3>4. QED
        BY <2>2, <3>1, <3>3
  <2>3. QED
      BY <1>7, <2>1, <2>2
<1>9. CdevIsoTypeOK'
    BY <1>2, <1>5, <1>8 DEF CdevIsoInv, CdevIsoTypeOK
<1>10. Parted(r)' <=> Parted(r)
    BY <1>2, <1>4, <1>5, <1>8 DEF Parted
<1>11. ResourceInv(r)'
  <2>1. CASE work' = work
    <3>1. call # "no" => res[r].early \/ (res[r].state = "live" /\ work[r] = [queued |-> "no", run |-> NoRun])
        BY <1>1
    <3>2. QED
        BY <1>1, <1>2, <1>3, <1>4, <1>5, <1>8, <1>10, <2>1, <3>1 DEF ResourceInv, NoRes
  <2>2. CASE call = "no" /\ res[r].state # "freed" /\ work'[r].queued # "no"
    <3>1. work[r].run.pc = "free" => res[r].early
        BY <1>1 DEF NoRun
    <3>2. res[r].state = "live"
        BY <1>1, <2>2 DEF ResourceInv, ResType, NoRes
    <3>3. QED
        BY <1>1, <1>2, <1>3, <1>4, <1>5, <1>8, <1>10, <2>2, <3>1, <3>2 DEF ResourceInv
  <2>3. QED
      BY <1>8, <2>1, <2>2
<1>12. CallsInv'
  <2>1. \A q \in Res : res'[q].listed = res[q].listed
      BY <1>4, <1>5
  <2>2. user.res \in SUBSET Res
      BY DEF CdevIsoInv, CdevIsoTypeOK
  <2>3. QED
      BY <1>2, <1>8, <2>1, <2>2 DEF CdevIsoInv, CallsInv
<1>13. Base' = Base /\ Base \in Int
    BY <1>2, <1>8 DEF Base
<1>14. client'.kref - client.kref >= Weight(r)' - Weight(r) /\ Weight(r) \in Int /\ Weight(r)' \in Int
  <2>1. (r \in Held' <=> r \in Held) /\ (r \in Running' <=> r \in Running)
        /\ (r \in Queued <=> work[r].queued # "no") /\ (r \in Queued' <=> work'[r].queued # "no")
      BY <1>2, <1>4, <1>5, <1>8 DEF Held, Queued, Running
  <2>2. QED
      BY <1>6, <1>8, <2>1 DEF Weight
<1>15. OthersUntouched(r)
    BY <1>2, <1>5, <1>8 DEF OthersUntouched
<1>16. client'.kref - client.kref >= Base' + Weight(r)' - Base - Weight(r) /\ client'.kref \in Nat
    BY <1>6, <1>8, <1>13, <1>14
<1>17. client'.freed <=> client'.kref = 0
  <2>1. client'.kref >= 1
      BY <1>6, <1>8
  <2>2. QED
      BY <1>6, <1>8, <2>1
<1>18. QED
    BY <1>9, <1>11, <1>12, <1>15, <1>16, <1>17, StepOfOnePreserves

LEMMA IoctlDeallocatePreserves ==
    ASSUME CdevIsoInv, NEW r \in Res, IoctlDeallocate(r)
    PROVE  CdevIsoInv'
<1>1. ResourceInv(r) /\ res[r] \in ResType /\ res[r].listed
    BY DEF IoctlDeallocate, CdevIsoInv, CdevIsoTypeOK
<1>2. /\ user.pc = "idle" /\ ~client.in_shutdown /\ user.res = {}
      /\ user' = [pc |-> "release", res |-> {r}]
      /\ UNCHANGED <<work, client, events, irm, device, once, count, env>>
    BY DEF IoctlDeallocate, MayCall, CdevIsoInv, CallsInv
<1>3. /\ res' \in [Res -> ResType] /\ res'[r] = [res[r] EXCEPT !.listed = FALSE]
      /\ \A q \in Res \ {r} : res'[q] = res[q]
    BY <1>1 DEF IoctlDeallocate, CdevIsoInv, CdevIsoTypeOK, ResType
<1>4. CdevIsoTypeOK'
    BY <1>2, <1>3 DEF CdevIsoInv, CdevIsoTypeOK
<1>5. ~Parted(r) /\ res[r].state = "live"
    BY <1>1, <1>2 DEF Parted, ResourceInv, ResType
<1>6. ResourceInv(r)'
    BY <1>1, <1>2, <1>3, <1>5 DEF ResourceInv, Parted, ResType
<1>7. CallsInv'
    BY <1>1, <1>2, <1>3 DEF CallsInv, ResType
<1>8. Base' = Base /\ Base \in Int
    BY <1>2 DEF Base
<1>9. Weight(r)' = Weight(r) /\ Weight(r) \in Int
  <2>1. r \in Held /\ r \in Held'
      BY <1>1, <1>2 DEF Held
  <2>2. Queued' = Queued /\ Running' = Running
      BY <1>2 DEF Queued, Running
  <2>3. QED
      BY <2>1, <2>2 DEF Weight
<1>10. OthersUntouched(r)
    BY <1>2, <1>3 DEF OthersUntouched
<1>11. client.kref \in Nat /\ (client.freed <=> client.kref = 0)
    BY DEF CdevIsoInv, CdevIsoTypeOK, KrefCovers
<1>12. QED
    BY <1>2, <1>4, <1>6, <1>7, <1>8, <1>9, <1>10, <1>11, StepOfOnePreserves

LEMMA ReleasePreserves ==
    ASSUME CdevIsoInv, NEW r \in Res, Release(r)
    PROVE  CdevIsoInv'
<1>1. ResourceInv(r) /\ res[r] \in ResType /\ work[r] \in WorkItemType /\ r \in user.res
    BY DEF Release, CdevIsoInv, CdevIsoTypeOK
<1>2. /\ user.pc \in {"release", "closing"}
      /\ UNCHANGED <<events, irm, device, once, count, env>>
    BY DEF Release
<1> DEFINE early == res[r].early \/ res[r].call # "no"
           new == [res[r] EXCEPT !.early = early, !.todo = "dealloc"]
<1>3. /\ res' \in [Res -> ResType] /\ res'[r].todo = "dealloc" /\ res'[r].early = early
      /\ res'[r].state = res[r].state /\ res'[r].listed = res[r].listed
      /\ res'[r].call = res[r].call /\ res'[r].used = res[r].used
      /\ res'[r].e_alloc = res[r].e_alloc /\ res'[r].e_dealloc = res[r].e_dealloc
      /\ \A q \in Res \ {r} : res'[q] = res[q]
  <2>1. res' = [res EXCEPT ![r] = new]
    <3>1. [Overtaken(res[r]) EXCEPT !.todo = "dealloc"] = new
        BY <1>1 DEF Overtaken, ResType
    <3>2. QED
        BY <3>1 DEF Release, TodoDealloc
  <2>2. early \in BOOLEAN
      BY <1>1 DEF ResType
  <2> HIDE DEF early
  <2>3. /\ new \in ResType /\ new.todo = "dealloc" /\ new.early = early
        /\ new.state = res[r].state /\ new.listed = res[r].listed
        /\ new.call = res[r].call /\ new.used = res[r].used
        /\ new.e_alloc = res[r].e_alloc /\ new.e_dealloc = res[r].e_dealloc
      BY <1>1, <2>2 DEF ResType
  <2> HIDE DEF new
  <2>4. QED
      BY <2>1, <2>3 DEF CdevIsoInv, CdevIsoTypeOK
<1>4. /\ work' \in [Res -> WorkItemType] /\ work'[r].run = work[r].run /\ work'[r].queued # "no"
      /\ \A q \in Res \ {r} : work'[q] = work[q]
    BY ScheduledOne DEF Release, CdevIsoInv
<1> DEFINE n == IF work[r].queued = "no" THEN 1 ELSE 0
<1>5. client.kref \in Nat /\ client.kref >= 2 /\ (client.freed <=> client.kref = 0)
  <2>1. Base >= 1 /\ Weight(r) >= 1 /\ Base \in Int /\ Weight(r) \in Int
      BY <1>1, <1>2 DEF Base, Weight, Held
  <2>2. client.kref \in Nat /\ client.kref >= References /\ (client.freed <=> client.kref = 0)
      BY DEF CdevIsoInv, CdevIsoTypeOK, KrefCovers
  <2>3. References >= Base + Weight(r) /\ References \in Nat
      BY ReferencesAreNat DEF CdevIsoInv, ReferencesAdd
  <2>4. QED
      BY <2>1, <2>2, <2>3
<1>6. /\ client' = [client EXCEPT !.kref = client.kref + n - 1]
      /\ client \in [in_shutdown : BOOLEAN, kref : Nat, freed : BOOLEAN]
    BY ScheduledOne DEF Release, CdevIsoInv, CdevIsoTypeOK
<1>7. /\ client' \in [in_shutdown : BOOLEAN, kref : Nat, freed : BOOLEAN]
      /\ client'.kref = client.kref + n - 1 /\ client'.in_shutdown = client.in_shutdown
      /\ client'.freed = client.freed
    BY <1>5, <1>6
<1>8. /\ user' \in [pc : {"idle", "release", "closing"}, res : SUBSET Res]
      /\ r \notin user'.res /\ user'.res \ {r} = user.res \ {r}
      /\ user.pc = "release" => user'.pc = "idle" /\ user'.res = {}
      /\ user.pc = "closing" => user'.pc = "closing" /\ client.in_shutdown
  <2>1. CASE user.pc = "release"
    <3>1. user' = [pc |-> "idle", res |-> {}]
        BY <2>1 DEF Release
    <3>2. user.res = {r}
        BY <1>1, <2>1 DEF CdevIsoInv, CallsInv
    <3>3. QED
        BY <2>1, <3>1, <3>2
  <2>2. CASE user.pc = "closing"
    <3>1. user' = [user EXCEPT !.res = @ \ {r}] /\ client.in_shutdown
        BY <2>2 DEF Release, CdevIsoInv, CallsInv
    <3>2. QED
        BY <2>2, <3>1 DEF CdevIsoInv, CdevIsoTypeOK
  <2>3. QED
      BY <1>2, <2>1, <2>2
<1>9. CdevIsoTypeOK'
    BY <1>2, <1>3, <1>4, <1>7, <1>8 DEF CdevIsoInv, CdevIsoTypeOK
<1>10. Parted(r)'
    BY <1>1, <1>2, <1>3, <1>7, <1>8 DEF Parted, CdevIsoInv, CallsInv
<1>11. ResourceInv(r)'
  <2>1. ~Parted(r) /\ res[r].state = "live" /\ ~work[r].run.free
      BY <1>1 DEF ResourceInv, Parted, NoRes, ResType
  <2>2. res[r].call # "no" => early
      OBVIOUS
  <2>3. res[r].used => early
      BY <1>1 DEF ResourceInv
  <2> HIDE DEF early
  <2>4. QED
      BY <1>1, <1>2, <1>3, <1>4, <1>7, <1>10, <2>1, <2>2, <2>3 DEF ResourceInv
<1>12. CallsInv'
    BY <1>2, <1>7, <1>8 DEF CallsInv
<1>13. Base' = Base /\ Base \in Int
    BY <1>2, <1>7, <1>8 DEF Base, CdevIsoInv, CallsInv
<1>14. Weight(r)' = Weight(r) - 1 + n /\ Weight(r) \in Int
  <2>1. r \in Held /\ r \in Queued' /\ (r \in Queued <=> work[r].queued # "no")
        /\ (r \in Running' <=> r \in Running)
      BY <1>1, <1>4 DEF Held, Queued, Running
  <2>2. r \notin Held'
      BY <1>10 DEF Parted, Held
  <2>3. QED
      BY <2>1, <2>2 DEF Weight
<1>15. OthersUntouched(r)
    BY <1>2, <1>3, <1>4, <1>7, <1>8 DEF OthersUntouched
<1>16. n \in {0, 1}
    OBVIOUS
<1> HIDE DEF n
<1>17. QED
    BY <1>5, <1>7, <1>9, <1>11, <1>12, <1>13, <1>14, <1>15, <1>16, StepOfOnePreserves

LEMMA NoRunTyped == NoRun \in RunType
<1>1. -1 \in -1 .. MaxGenerations
    BY CdevIsoAssumption
<1>2. QED
    BY <1>1 DEF NoRun, RunType

\* A work item that is queued or running: its resource lives, and keeps the client.
LEMMA AtWork ==
    ASSUME CdevIsoInv, NEW r \in Res, work[r].queued # "no" \/ work[r].run.pc # "idle"
    PROVE  /\ ResourceInv(r) /\ res[r].state = "live"
           /\ res[r].call # "no" => res[r].early /\ ~client.in_shutdown
           /\ res[r] \in ResType /\ work[r] \in WorkItemType /\ work[r].run \in RunType
           /\ client.kref \in Nat /\ client.kref >= 1 /\ (client.freed <=> client.kref = 0)
<1>1. ResourceInv(r) /\ res[r] \in ResType /\ work[r] \in WorkItemType
    BY DEF CdevIsoInv, CdevIsoTypeOK
<1>2. res[r].state = "live" /\ (res[r].call # "no" => res[r].early /\ ~client.in_shutdown)
    BY <1>1 DEF ResourceInv, NoRun
<1>3. Weight(r) >= 1 /\ Weight(r) \in Int
    BY DEF Weight, Queued, Running
<1>4. client.kref \in Nat /\ client.kref >= References /\ (client.freed <=> client.kref = 0)
    BY DEF CdevIsoInv, CdevIsoTypeOK, KrefCovers
<1>5. References >= Base + Weight(r) /\ References \in Nat /\ Base \in Nat
    BY ReferencesAreNat DEF CdevIsoInv, ReferencesAdd
<1>6. client.kref >= 1
    BY <1>3, <1>4, <1>5
<1>7. QED
    BY <1>1, <1>2, <1>4, <1>6 DEF WorkItemType

LEMMA WorkQueuedOrStarted ==
    ASSUME CdevIsoInv, NEW r \in Res, WorkStart(r) \/ DelayEnds(r)
    PROVE  CdevIsoInv'
<1>1. /\ ResourceInv(r) /\ res[r].state = "live" /\ work[r].queued # "no"
      /\ res[r].call # "no" => res[r].early /\ ~client.in_shutdown
      /\ res[r] \in ResType /\ work[r] \in WorkItemType /\ work[r].run \in RunType
      /\ client.kref \in Nat /\ (client.freed <=> client.kref = 0)
    BY AtWork DEF WorkStart, DelayEnds
<1>2. UNCHANGED <<irm, device, res, user, client, events, once, count, env>>
    BY DEF WorkStart, DelayEnds
<1>3. /\ work' \in [Res -> WorkItemType] /\ \A q \in Res \ {r} : work'[q] = work[q]
      /\ \/ /\ work'[r].run = work[r].run /\ work'[r].queued # "no"
         \/ /\ work[r].run.pc = "idle" /\ work'[r].queued = "no"
            /\ work'[r].run = [NoRun EXCEPT !.pc = "start"]
  <2>1. CASE DelayEnds(r)
    <3>1. [work[r] EXCEPT !.queued = "yes"] \in WorkItemType
        BY <1>1 DEF WorkItemType
    <3>2. work' = [work EXCEPT ![r] = [work[r] EXCEPT !.queued = "yes"]]
        BY <2>1 DEF DelayEnds
    <3>3. QED
        BY <1>1, <3>1, <3>2 DEF CdevIsoInv, CdevIsoTypeOK, WorkItemType
  <2>2. CASE WorkStart(r)
    <3> DEFINE f == [NoRun EXCEPT !.pc = "start"]
    <3>1. f \in RunType
        BY NoRunTyped DEF RunType
    <3>2. work' = [work EXCEPT ![r] = [queued |-> "no", run |-> f]] /\ work[r].run.pc = "idle"
        BY <2>2 DEF WorkStart
    <3> HIDE DEF f
    <3>3. [queued |-> "no", run |-> f] \in WorkItemType
        BY <3>1 DEF WorkItemType
    <3>4. work' \in [Res -> WorkItemType] /\ work'[r] = [queued |-> "no", run |-> f]
          /\ \A q \in Res \ {r} : work'[q] = work[q]
        BY <3>2, <3>3 DEF CdevIsoInv, CdevIsoTypeOK
    <3>5. QED
        BY <3>2, <3>4 DEF f
  <2>3. QED
      BY <2>1, <2>2
<1>4. CdevIsoTypeOK'
    BY <1>2, <1>3 DEF CdevIsoInv, CdevIsoTypeOK
<1>5. ResourceInv(r)'
  <2>1. CASE work'[r].run = work[r].run
      BY <1>1, <1>2, <2>1 DEF ResourceInv, Parted
  <2>2. CASE work'[r].run = [NoRun EXCEPT !.pc = "start"]
    <3>1. /\ work'[r].run.pc = "start" /\ work'[r].run.todo = "alloc" /\ ~work'[r].run.free
          /\ work'[r].run.event = "none"
        BY <2>2 DEF NoRun
    <3>2. QED
        BY <1>1, <1>2, <3>1 DEF ResourceInv, Parted
  <2>3. QED
      BY <1>3, <2>1, <2>2
<1>6. CallsInv'
    BY <1>2 DEF CdevIsoInv, CallsInv
<1>7. Base' = Base /\ Base \in Int
    BY <1>2 DEF Base
<1>8. Weight(r)' = Weight(r) /\ Weight(r) \in Int
    BY <1>1, <1>2, <1>3 DEF Weight, Held, Queued, Running, NoRun
<1>9. OthersUntouched(r)
    BY <1>2, <1>3 DEF OthersUntouched
<1>10. QED
    BY <1>1, <1>2, <1>4, <1>5, <1>6, <1>7, <1>8, <1>9, StepOfOnePreserves

\* A new run of the work item of r.
LEMMA RunTyped ==
    ASSUME CdevIsoTypeOK, NEW r \in Res, NEW f \in RunType, Run(r, f)
    PROVE  /\ work' \in [Res -> WorkItemType] /\ work'[r].run = f /\ work'[r].queued = work[r].queued
           /\ \A q \in Res \ {r} : work'[q] = work[q]
<1>1. work[r] \in WorkItemType
    BY DEF CdevIsoTypeOK
<1>2. /\ [work[r] EXCEPT !.run = f] \in WorkItemType
      /\ [work[r] EXCEPT !.run = f].run = f /\ [work[r] EXCEPT !.run = f].queued = work[r].queued
    BY <1>1 DEF WorkItemType
<1>3. work' = [work EXCEPT ![r] = [work[r] EXCEPT !.run = f]]
    BY DEF Run
<1>4. QED
    BY <1>2, <1>3 DEF CdevIsoTypeOK

LEMMA WorkLookPreserves ==
    ASSUME CdevIsoInv, NEW r \in Res, WorkLook(r)
    PROVE  CdevIsoInv'
<1>1. /\ ResourceInv(r) /\ res[r].state = "live" /\ work[r].run.pc = "start"
      /\ res[r].call # "no" => res[r].early /\ ~client.in_shutdown
      /\ res[r] \in ResType /\ work[r] \in WorkItemType /\ work[r].run \in RunType
      /\ client.kref \in Nat /\ client.kref >= 1 /\ (client.freed <=> client.kref = 0)
    BY AtWork DEF WorkLook
<1>2. UNCHANGED <<irm, device, user, events, once, count, env>>
    BY DEF WorkLook
<1>3. device.gen \in -1 .. MaxGenerations
    BY DEF CdevIsoInv, CdevIsoTypeOK
<1>4. /\ res' \in [Res -> ResType] /\ res'[r] = [res[r] EXCEPT !.gen = device.gen]
      /\ \A q \in Res \ {r} : res'[q] = res[q]
  <2>1. [res[r] EXCEPT !.gen = device.gen] \in ResType
      BY <1>1, <1>3 DEF ResType
  <2>2. res' = [res EXCEPT ![r] = [res[r] EXCEPT !.gen = device.gen]]
      BY DEF WorkLook
  <2>3. QED
      BY <2>1, <2>2 DEF CdevIsoInv, CdevIsoTypeOK
<1>5. /\ res'[r].state = "live" /\ res'[r].listed = res[r].listed /\ res'[r].todo = res[r].todo
      /\ res'[r].e_alloc = res[r].e_alloc /\ res'[r].e_dealloc = res[r].e_dealloc
      /\ res'[r].call = res[r].call /\ res'[r].early = res[r].early /\ res'[r].used = res[r].used
    BY <1>1, <1>4 DEF ResType
<1> DEFINE n == IF work[r].queued = "no" THEN 1 ELSE 0
           f == [work[r].run EXCEPT !.pc = "manage", !.gen = device.gen, !.todo = res[r].todo]
<1>6. /\ work' \in [Res -> WorkItemType] /\ \A q \in Res \ {r} : work'[q] = work[q]
      /\ \/ /\ work'[r].run = NoRun /\ work'[r].queued # "no"
            /\ client' = [client EXCEPT !.kref = client.kref + n - 1]
         \/ /\ work'[r].run = NoRun /\ work'[r].queued = work[r].queued
            /\ client' = Put
         \/ /\ work'[r].run = f /\ work'[r].queued = work[r].queued
            /\ client' = client
  <2>1. CASE res[r].todo = "alloc" /\ irm.grace
    <3> DEFINE w == Scheduled(work, {r}, "delayed")
    <3>1. /\ w \in [Res -> WorkItemType] /\ w[r].queued # "no" /\ \A q \in Res \ {r} : w[q] = work[q]
          /\ Cardinality(NewlyQueued(work, {r})) = n
        BY ScheduledOne DEF CdevIsoInv
    <3>2. work' = [w EXCEPT ![r].run = NoRun]
        BY <2>1 DEF WorkLook
    <3> HIDE DEF w
    <3>3. w[r] \in WorkItemType /\ [w[r] EXCEPT !.run = NoRun] \in WorkItemType
        BY <3>1, NoRunTyped DEF WorkItemType
    <3>4. work' \in [Res -> WorkItemType] /\ work'[r].run = NoRun /\ work'[r].queued = w[r].queued
          /\ \A q \in Res \ {r} : work'[q] = w[q]
        BY <3>1, <3>2, <3>3 DEF WorkItemType
    <3>5. client' = [client EXCEPT !.kref = client.kref + n - 1]
        BY <2>1, <3>1 DEF WorkLook
    <3>6. QED
        BY <3>1, <3>4, <3>5
  <2>2. CASE ~(res[r].todo = "alloc" /\ irm.grace) /\ SameGeneration(r)
    <3>1. Run(r, NoRun) /\ client' = Put /\ CdevIsoTypeOK
        BY <2>2 DEF WorkLook, CdevIsoInv
    <3>2. QED
        BY <3>1, RunTyped, NoRunTyped
  <2>3. CASE ~(res[r].todo = "alloc" /\ irm.grace) /\ ~SameGeneration(r)
    <3>1. Run(r, f) /\ client' = client /\ CdevIsoTypeOK
        BY <2>3 DEF WorkLook, CdevIsoInv
    <3>2. f \in RunType
      <4>1. res[r].todo \in {"alloc", "realloc", "dealloc"}
          BY <1>1 DEF ResType
      <4>2. QED
          BY <1>1, <1>3, <4>1 DEF RunType
    <3> HIDE DEF f
    <3>3. QED
        BY <3>1, <3>2, RunTyped
  <2>4. QED
      BY <2>1, <2>2, <2>3
<1>7. /\ f.pc = "manage" /\ f.todo = res[r].todo /\ f.free = work[r].run.free /\ f.event = work[r].run.event
    BY <1>1 DEF RunType
<1>8. /\ client' \in [in_shutdown : BOOLEAN, kref : Nat, freed : BOOLEAN]
      /\ client'.in_shutdown = client.in_shutdown
      /\ (client'.freed <=> client'.kref = 0)
      /\ \/ client' = [client EXCEPT !.kref = client.kref + n - 1] /\ client'.kref = client.kref + n - 1
         \/ client' = Put /\ client'.kref = client.kref - 1
         \/ client' = client
  <2>1. client \in [in_shutdown : BOOLEAN, kref : Nat, freed : BOOLEAN]
      BY DEF CdevIsoInv, CdevIsoTypeOK
  <2>2. CASE client' = Put
      BY <1>1, <2>2, PutTyped
  <2>3. CASE client' = client
      BY <1>1, <2>1, <2>3
  <2>4. CASE client' = [client EXCEPT !.kref = client.kref + n - 1]
    <3>1. client.kref + n - 1 \in Nat
        BY <1>1
    <3>2. client'.kref = client.kref + n - 1 /\ client'.freed = client.freed
          /\ client'.in_shutdown = client.in_shutdown
        BY <2>1, <2>4
    <3>3. work[r].queued = "no" \/ client.kref >= 2
      <4>1. work[r].queued # "no" => Weight(r) >= 2
          BY <1>1 DEF Weight, Queued, Running
      <4>2. client.kref >= References /\ References >= Base + Weight(r)
            /\ References \in Nat /\ Base \in Nat /\ Weight(r) \in 0 .. 3
          BY ReferencesAreNat DEF CdevIsoInv, KrefCovers, ReferencesAdd
      <4>3. QED
          BY <1>1, <4>1, <4>2
    <3>4. client.kref + n - 1 >= 1
        BY <1>1, <3>3
    <3> HIDE DEF n
    <3>5. client' \in [in_shutdown : BOOLEAN, kref : Nat, freed : BOOLEAN]
        BY <2>1, <2>4, <3>1
    <3>6. client'.freed <=> client'.kref = 0
        BY <1>1, <3>1, <3>2, <3>4
    <3>7. QED
        BY <2>4, <3>2, <3>5, <3>6
  <2>5. QED
      BY <1>6, <2>2, <2>3, <2>4
<1> HIDE DEF f
<1>9. CdevIsoTypeOK'
    BY <1>2, <1>4, <1>6, <1>8 DEF CdevIsoInv, CdevIsoTypeOK
<1>10. Parted(r)' <=> Parted(r)
    BY <1>2, <1>5, <1>8 DEF Parted
<1>11. ResourceInv(r)'
  <2>1. CASE work'[r].run = NoRun
    <3>1. /\ work'[r].run.pc = "idle" /\ work'[r].run.todo = "alloc" /\ ~work'[r].run.free
          /\ work'[r].run.event = "none"
        BY <2>1 DEF NoRun
    <3>2. QED
        BY <1>1, <1>2, <1>5, <1>8, <1>10, <2>1, <3>1 DEF ResourceInv
  <2>2. CASE work'[r].run = f
      BY <1>1, <1>2, <1>5, <1>7, <1>8, <1>10, <2>2 DEF ResourceInv
  <2>3. QED
      BY <1>6, <2>1, <2>2
<1>12. CallsInv'
  <2>1. \A q \in Res : res'[q].listed = res[q].listed
      BY <1>4, <1>5
  <2>2. user.res \in SUBSET Res
      BY DEF CdevIsoInv, CdevIsoTypeOK
  <2>3. QED
      BY <1>2, <1>8, <2>1, <2>2 DEF CdevIsoInv, CallsInv
<1>13. Base' = Base /\ Base \in Int
    BY <1>2, <1>8 DEF Base
<1>14. client'.kref - client.kref >= Weight(r)' - Weight(r) /\ Weight(r) \in Int /\ Weight(r)' \in Int
  <2>1. /\ (r \in Held' <=> r \in Held) /\ r \in Running
        /\ (r \in Queued <=> work[r].queued # "no") /\ (r \in Queued' <=> work'[r].queued # "no")
        /\ (r \in Running' <=> work'[r].run.pc # "idle")
      BY <1>1, <1>2, <1>5, <1>8 DEF Held, Queued, Running
  <2>2. NoRun.pc = "idle"
      BY DEF NoRun
  <2>3. CASE work'[r].run = NoRun /\ work'[r].queued # "no" /\ client'.kref = client.kref + n - 1
      BY <1>1, <2>1, <2>2, <2>3 DEF Weight
  <2>4. CASE work'[r].run = NoRun /\ work'[r].queued = work[r].queued /\ client'.kref = client.kref - 1
      BY <1>1, <2>1, <2>2, <2>4 DEF Weight
  <2>5. CASE work'[r].run = f /\ work'[r].queued = work[r].queued /\ client' = client
      BY <1>1, <1>7, <2>1, <2>5 DEF Weight
  <2>6. client' = Put => client'.kref = client.kref - 1
      BY <1>1, PutTyped
  <2>7. client' = [client EXCEPT !.kref = client.kref + n - 1] => client'.kref = client.kref + n - 1
      BY DEF CdevIsoInv, CdevIsoTypeOK
  <2>8. Weight(r) \in Int /\ Weight(r)' \in Int
      BY DEF Weight
  <2>9. QED
      BY <1>6, <2>3, <2>4, <2>5, <2>6, <2>7, <2>8
<1>15. OthersUntouched(r)
    BY <1>2, <1>4, <1>6, <1>8 DEF OthersUntouched
<1>16. client'.kref \in Nat
    BY <1>8
<1>17. client'.kref - client.kref >= Base' + Weight(r)' - Base - Weight(r)
    BY <1>1, <1>13, <1>14, <1>16
<1>18. QED
    BY <1>8, <1>9, <1>11, <1>12, <1>15, <1>17, StepOfOnePreserves

\* The rest of a step that changes r's resource and its run, which goes on, but neither
\* who can reach the resource nor the client.
LEMMA RunGoesOn ==
    ASSUME CdevIsoInv, CdevIsoTypeOK', NEW r \in Res, work[r].run.pc # "idle",
           UNCHANGED <<user, client, events, once>>,
           \A q \in Res \ {r} : res'[q] = res[q] /\ work'[q] = work[q],
           res'[r].listed = res[r].listed, work'[r].queued = work[r].queued,
           work'[r].run.pc # "idle", ResourceInv(r)'
    PROVE  CdevIsoInv'
<1>1. client.kref \in Nat /\ (client.freed <=> client.kref = 0)
    BY AtWork
<1>2. CallsInv'
  <2>1. \A q \in Res : res'[q].listed = res[q].listed
      OBVIOUS
  <2>2. user.res \in SUBSET Res
      BY DEF CdevIsoInv, CdevIsoTypeOK
  <2>3. QED
      BY <2>1, <2>2 DEF CdevIsoInv, CallsInv
<1>3. Base' = Base /\ Base \in Int
    BY DEF Base
<1>4. Weight(r)' = Weight(r) /\ Weight(r) \in Int
    BY DEF Weight, Held, Queued, Running
<1>5. OthersUntouched(r)
    BY DEF OthersUntouched
<1>6. QED
    BY <1>1, <1>2, <1>3, <1>4, <1>5, StepOfOnePreserves

LEMMA WorkManagePreserves ==
    ASSUME CdevIsoInv, NEW r \in Res, WorkManage(r)
    PROVE  CdevIsoInv'
<1> DEFINE w == work[r].run
<1>1. /\ ResourceInv(r) /\ res[r].state = "live" /\ w.pc = "manage"
      /\ res[r].call # "no" => res[r].early /\ ~client.in_shutdown
      /\ res[r] \in ResType /\ work[r] \in WorkItemType /\ w \in RunType
    BY AtWork DEF WorkManage
<1>2. UNCHANGED <<device, user, client, events, once, count, env>>
    BY DEF WorkManage
<1>3. irm \in IrmType /\ r \in Owner /\ res[r].mask \in SUBSET Channel
    BY <1>1 DEF CdevIsoInv, CdevIsoTypeOK, Owner, ResType
<1>4. CASE /\ w.todo = "dealloc"
           /\ irm' \in {irm, Freed(r, res[r].mask)}
           /\ Run(r, [w EXCEPT !.pc = "event", !.free = TRUE,
                               !.event = IF res[r].e_dealloc THEN "dealloc" ELSE "null"])
           /\ res' = [res EXCEPT ![r].e_dealloc = FALSE]
  <2> DEFINE event == IF res[r].e_dealloc THEN "dealloc" ELSE "null"
             f == [w EXCEPT !.pc = "event", !.free = TRUE, !.event = event]
  <2>1. f \in RunType /\ f.pc = "event" /\ f.todo = w.todo /\ f.event = event
      BY <1>1 DEF RunType
  <2> HIDE DEF f, w
  <2>2. /\ work' \in [Res -> WorkItemType] /\ work'[r].run = f /\ work'[r].queued = work[r].queued
        /\ \A q \in Res \ {r} : work'[q] = work[q]
      BY <1>4, <2>1, RunTyped DEF CdevIsoInv, f
  <2>3. /\ res' \in [Res -> ResType] /\ res'[r] = [res[r] EXCEPT !.e_dealloc = FALSE]
        /\ \A q \in Res \ {r} : res'[q] = res[q]
    <3>1. [res[r] EXCEPT !.e_dealloc = FALSE] \in ResType
        BY <1>1 DEF ResType
    <3>2. res' = [res EXCEPT ![r] = [res[r] EXCEPT !.e_dealloc = FALSE]]
        BY <1>4
    <3>3. QED
        BY <3>1, <3>2 DEF CdevIsoInv, CdevIsoTypeOK
  <2>4. irm' \in IrmType
      BY <1>3, <1>4, FreedTyped
  <2>5. CdevIsoTypeOK'
      BY <1>2, <2>2, <2>3, <2>4 DEF CdevIsoInv, CdevIsoTypeOK
  <2>6. /\ res'[r].state = "live" /\ res'[r].listed = res[r].listed /\ res'[r].todo = res[r].todo
        /\ res'[r].e_alloc = res[r].e_alloc /\ ~res'[r].e_dealloc
        /\ res'[r].call = res[r].call /\ res'[r].early = res[r].early /\ res'[r].used = res[r].used
      BY <1>1, <2>3 DEF ResType
  <2>7. Parted(r)'
      BY <1>1, <1>2, <1>4, <2>6 DEF ResourceInv, Parted, w
  <2>8. event = "dealloc" => events[r].dealloc = 0
      BY <1>1 DEF ResourceInv
  <2>9. event \in {"dealloc", "null"}
      OBVIOUS
  <2> HIDE DEF event
  <2>10. ResourceInv(r)'
      BY <1>1, <1>2, <2>1, <2>2, <2>6, <2>7, <2>8, <2>9 DEF ResourceInv
  <2>11. QED
      BY <1>1, <1>2, <2>1, <2>2, <2>3, <2>5, <2>6, <2>10, RunGoesOn DEF w
<1>5. ASSUME NEW f \in RunType, f.pc \in {"event", "todo", "erase"},
             f.todo = w.todo, f.free = w.free, f.event = w.event,
             Run(r, f), res' = res, irm' \in IrmType
      PROVE  CdevIsoInv'
  <2>1. /\ work' \in [Res -> WorkItemType] /\ work'[r].run = f /\ work'[r].queued = work[r].queued
        /\ \A q \in Res \ {r} : work'[q] = work[q]
      BY <1>5, RunTyped DEF CdevIsoInv
  <2>2. CdevIsoTypeOK'
      BY <1>2, <1>5, <2>1 DEF CdevIsoInv, CdevIsoTypeOK
  <2>3. Parted(r)' <=> Parted(r)
      BY <1>2, <1>5 DEF Parted
  <2>4. ResourceInv(r)'
      BY <1>1, <1>2, <1>5, <2>1, <2>3 DEF ResourceInv
  <2>5. QED
      BY <1>1, <1>2, <1>5, <2>1, <2>2, <2>4, RunGoesOn
<1>6. CASE w.todo # "dealloc" /\ Run(r, [w EXCEPT !.pc = "event", !.again = TRUE]) /\ UNCHANGED <<irm, res>>
  <2> DEFINE f == [w EXCEPT !.pc = "event", !.again = TRUE]
  <2>1. f \in RunType /\ f.pc = "event" /\ f.todo = w.todo /\ f.free = w.free /\ f.event = w.event
      BY <1>1 DEF RunType
  <2> HIDE DEF w
  <2>2. Run(r, f) /\ res' = res /\ irm' \in IrmType
      BY <1>3, <1>6
  <2> HIDE DEF f
  <2>3. QED
      BY <1>5, <2>1, <2>2
<1>7. CASE /\ irm.bw >= Units
           /\ \E c \in res[r].mask \cap irm.avail :
                 /\ irm' = Taken(r, c, Units)
                 /\ Run(r, [w EXCEPT !.pc = IF w.todo = "alloc" THEN "todo" ELSE "event",
                                     !.channel = c])
           /\ UNCHANGED res
  <2>1. PICK c \in res[r].mask \cap irm.avail :
                 /\ irm' = Taken(r, c, Units)
                 /\ Run(r, [w EXCEPT !.pc = IF w.todo = "alloc" THEN "todo" ELSE "event",
                                     !.channel = c])
      BY <1>7
  <2> DEFINE pc == IF w.todo = "alloc" THEN "todo" ELSE "event"
             f == [w EXCEPT !.pc = pc, !.channel = c]
  <2>2. c \in Channel
      BY <1>3
  <2>3. pc \in {"todo", "event"} /\ Run(r, f)
      BY <2>1
  <2> HIDE DEF pc
  <2>4. f \in RunType /\ f.pc = pc /\ f.todo = w.todo /\ f.free = w.free /\ f.event = w.event
      BY <1>1, <2>2, <2>3 DEF RunType
  <2> HIDE DEF f, w
  <2>5. irm' \in IrmType
      BY <1>3, <1>7, <2>1, <2>2, TakenTyped
  <2>6. QED
      BY <1>5, <1>7, <2>3, <2>4, <2>5
<1>8. CASE Run(r, [w EXCEPT !.pc = "erase"]) /\ UNCHANGED <<irm, res>>
  <2> DEFINE f == [w EXCEPT !.pc = "erase"]
  <2>1. f \in RunType /\ f.pc = "erase" /\ f.todo = w.todo /\ f.free = w.free /\ f.event = w.event
      BY <1>1 DEF RunType
  <2> HIDE DEF w
  <2>2. Run(r, f) /\ res' = res /\ irm' \in IrmType
      BY <1>3, <1>8
  <2> HIDE DEF f
  <2>3. QED
      BY <1>5, <2>1, <2>2
<1>9. QED
  <2>1. WorkManage(r)
      OBVIOUS
  <2>2. QED
      BY <2>1, <1>4, <1>6, <1>7, <1>8 DEF WorkManage, Allocatable

LEMMA WorkTodoPreserves ==
    ASSUME CdevIsoInv, NEW r \in Res, WorkTodo(r)
    PROVE  CdevIsoInv'
<1> DEFINE w == work[r].run
           event == IF res[r].e_alloc THEN "alloc" ELSE "null"
           mask == IF w.channel = NoChannel THEN res[r].mask ELSE {w.channel}
           f == [w EXCEPT !.pc = "event", !.event = event]
           new == [res[r] EXCEPT !.todo = "realloc", !.e_alloc = FALSE, !.mask = mask]
<1>1. /\ ResourceInv(r) /\ res[r].state = "live" /\ w.pc = "todo"
      /\ res[r].call # "no" => res[r].early /\ ~client.in_shutdown
      /\ res[r] \in ResType /\ work[r] \in WorkItemType /\ w \in RunType
    BY AtWork DEF WorkTodo
<1>2. UNCHANGED <<irm, device, user, client, events, once, count, env>>
    BY DEF WorkTodo
<1>3. event \in {"alloc", "null"} /\ (event = "alloc" => events[r].alloc = 0) /\ Run(r, f)
    BY <1>1 DEF ResourceInv, WorkTodo
<1>4. mask \in SUBSET Channel
    BY <1>1 DEF ResType, RunType
<1>5. res' = [res EXCEPT ![r] = new]
    BY DEF WorkTodo, NextTodo
<1> HIDE DEF event, mask
<1>6. /\ f \in RunType /\ f.pc = "event" /\ f.todo = w.todo /\ f.free = w.free /\ f.event = event
    BY <1>1, <1>3 DEF RunType
<1>7. /\ new \in ResType /\ new.state = "live" /\ new.listed = res[r].listed /\ new.todo = "realloc"
      /\ ~new.e_alloc /\ new.e_dealloc = res[r].e_dealloc
      /\ new.call = res[r].call /\ new.early = res[r].early /\ new.used = res[r].used
    BY <1>1, <1>4 DEF ResType
<1> HIDE DEF w, f, new
<1>8. /\ work' \in [Res -> WorkItemType] /\ work'[r].run = f /\ work'[r].queued = work[r].queued
      /\ \A q \in Res \ {r} : work'[q] = work[q]
    BY <1>3, <1>6, RunTyped DEF CdevIsoInv
<1>9. res' \in [Res -> ResType] /\ res'[r] = new /\ \A q \in Res \ {r} : res'[q] = res[q]
    BY <1>5, <1>7 DEF CdevIsoInv, CdevIsoTypeOK
<1>10. CdevIsoTypeOK'
    BY <1>2, <1>8, <1>9 DEF CdevIsoInv, CdevIsoTypeOK
<1>11. Parted(r)' <=> Parted(r)
    BY <1>2, <1>7, <1>9 DEF Parted
<1>12. ResourceInv(r)'
    BY <1>1, <1>2, <1>3, <1>6, <1>7, <1>8, <1>9, <1>11 DEF ResourceInv, w
<1>13. QED
    BY <1>1, <1>2, <1>6, <1>7, <1>8, <1>9, <1>10, <1>12, RunGoesOn DEF w

LEMMA WorkErasePreserves ==
    ASSUME CdevIsoInv, NEW r \in Res, WorkErase(r)
    PROVE  CdevIsoInv'
<1> DEFINE w == work[r].run
           erased == Erased(r)
           e == res[r].e_dealloc /\ w.todo = "alloc"
           pc == IF w.todo = "alloc" THEN "todo" ELSE "event"
           event == IF w.todo = "alloc" THEN "none" ELSE IF res[r].e_dealloc THEN "dealloc" ELSE "null"
           f == [w EXCEPT !.free = erased, !.pc = pc, !.event = event]
           listed == IF erased THEN FALSE ELSE res[r].listed
           new == [res[r] EXCEPT !.listed = listed, !.e_dealloc = e]
<1>1. /\ ResourceInv(r) /\ res[r].state = "live" /\ w.pc = "erase"
      /\ res[r].call # "no" => res[r].early /\ ~client.in_shutdown
      /\ res[r] \in ResType /\ work[r] \in WorkItemType /\ w \in RunType
      /\ client.kref \in Nat /\ client.kref >= 1 /\ (client.freed <=> client.kref = 0)
    BY AtWork DEF WorkErase
<1>2. UNCHANGED <<irm, device, user, events, once, count, env>> /\ Run(r, f)
    BY DEF WorkErase
<1>3. client' = IF erased THEN Put ELSE client
    BY DEF WorkErase
<1>4. res' = [res EXCEPT ![r] = new]
    BY DEF WorkErase
<1>5. /\ pc \in {"todo", "event"} /\ event \in {"none", "dealloc", "null"}
      /\ erased \in BOOLEAN /\ listed \in BOOLEAN /\ e \in BOOLEAN
    BY <1>1 DEF Erased, ResType
<1>6. /\ event = "dealloc" => events[r].dealloc = 0 /\ ~e
      /\ e => res[r].e_dealloc /\ event = "none"
    BY <1>1 DEF ResourceInv
<1>7. erased => ~client.in_shutdown /\ res[r].listed /\ ~listed
    BY DEF Erased
<1>8. ~erased => listed = res[r].listed
    OBVIOUS
<1> HIDE DEF erased, e, pc, event, listed
<1>9. /\ f \in RunType /\ f.pc = pc /\ f.todo = w.todo /\ f.free = erased /\ f.event = event
    BY <1>1, <1>5 DEF RunType
<1>10. /\ new \in ResType /\ new.state = "live" /\ new.listed = listed /\ new.todo = res[r].todo
       /\ new.e_alloc = res[r].e_alloc /\ new.e_dealloc = e
       /\ new.call = res[r].call /\ new.early = res[r].early /\ new.used = res[r].used
    BY <1>1, <1>5 DEF ResType
<1> HIDE DEF w, f, new
<1>11. /\ work' \in [Res -> WorkItemType] /\ work'[r].run = f /\ work'[r].queued = work[r].queued
       /\ \A q \in Res \ {r} : work'[q] = work[q]
    BY <1>2, <1>9, RunTyped DEF CdevIsoInv
<1>12. res' \in [Res -> ResType] /\ res'[r] = new /\ \A q \in Res \ {r} : res'[q] = res[q]
    BY <1>4, <1>10 DEF CdevIsoInv, CdevIsoTypeOK
<1>13. /\ client' \in [in_shutdown : BOOLEAN, kref : Nat, freed : BOOLEAN]
       /\ client'.in_shutdown = client.in_shutdown
       /\ client'.kref = client.kref - (IF erased THEN 1 ELSE 0)
       /\ (client'.freed <=> client'.kref = 0)
  <2>1. CASE erased
      BY <1>1, <1>3, <2>1, PutTyped
  <2>2. CASE ~erased
      BY <1>1, <1>3, <2>2 DEF CdevIsoInv, CdevIsoTypeOK
  <2>3. QED
      BY <2>1, <2>2
<1>14. CdevIsoTypeOK'
    BY <1>2, <1>11, <1>12, <1>13 DEF CdevIsoInv, CdevIsoTypeOK
<1>15. r \notin user.res \/ ~erased
    BY <1>7 DEF CdevIsoInv, CallsInv, CdevIsoTypeOK
<1>16. Parted(r) \/ erased => Parted(r)'
    BY <1>2, <1>7, <1>8, <1>10, <1>12, <1>13, <1>15 DEF Parted
<1>17. ResourceInv(r)'
  <2>1. /\ res'[r].todo = "dealloc" => Parted(r)
        /\ work'[r].run.todo = "dealloc" => Parted(r)
        /\ work'[r].run.free => erased
      BY <1>1, <1>9, <1>10, <1>11, <1>12 DEF ResourceInv, w
  <2>2. /\ res'[r].state = "live" /\ work'[r].run.pc \in {"todo", "event"}
        /\ work'[r].run.event = event /\ res'[r].e_alloc = res[r].e_alloc /\ res'[r].e_dealloc = e
        /\ events'[r] = events[r]
        /\ res'[r].call = res[r].call /\ res'[r].early = res[r].early /\ res'[r].used = res[r].used
      BY <1>2, <1>5, <1>9, <1>10, <1>11, <1>12
  <2>3. QED
      BY <1>1, <1>5, <1>6, <1>13, <1>16, <2>1, <2>2 DEF ResourceInv
<1>18. CallsInv'
  <2>1. \A q \in Res : res'[q].listed => res[q].listed
      BY <1>7, <1>8, <1>10, <1>12
  <2>2. user.res \in SUBSET Res
      BY DEF CdevIsoInv, CdevIsoTypeOK
  <2>3. QED
      BY <1>2, <1>13, <2>1, <2>2 DEF CdevIsoInv, CallsInv
<1>19. Base' = Base /\ Base \in Int
    BY <1>2, <1>13 DEF Base
<1>20. Weight(r)' = Weight(r) - (IF erased THEN 1 ELSE 0) /\ Weight(r) \in Int
  <2>1. /\ r \in Running /\ r \in Running' /\ (r \in Queued' <=> r \in Queued)
      BY <1>1, <1>5, <1>9, <1>11 DEF Running, Queued, w
  <2>2. CASE erased
    <3>1. r \in Held /\ r \notin Held'
        BY <1>2, <1>7, <1>10, <1>12, <1>15, <2>2 DEF Held
    <3>2. QED
        BY <2>1, <2>2, <3>1 DEF Weight
  <2>3. CASE ~erased
    <3>1. r \in Held' <=> r \in Held
        BY <1>2, <1>8, <1>10, <1>12, <1>13, <2>3 DEF Held
    <3>2. QED
        BY <2>1, <2>3, <3>1 DEF Weight
  <2>4. QED
      BY <2>2, <2>3
<1>21. OthersUntouched(r)
    BY <1>2, <1>11, <1>12, <1>13 DEF OthersUntouched
<1>22. client'.kref - client.kref >= Base' + Weight(r)' - Base - Weight(r)
    BY <1>1, <1>13, <1>19, <1>20
<1>23. QED
    BY <1>13, <1>14, <1>17, <1>18, <1>21, <1>22, StepOfOnePreserves

LEMMA WorkEventPreserves ==
    ASSUME CdevIsoInv, NEW r \in Res, WorkEvent(r)
    PROVE  CdevIsoInv'
<1> DEFINE w == work[r].run
           a == IF w.event = "alloc" /\ ~client.in_shutdown THEN events[r].alloc + 1 ELSE events[r].alloc
           d == IF w.event = "dealloc" /\ ~client.in_shutdown THEN events[r].dealloc + 1 ELSE events[r].dealloc
           n == events[r].null \/ w.event = "null"
           new == [events[r] EXCEPT !.alloc = a, !.dealloc = d, !.null = n]
<1>1. /\ ResourceInv(r) /\ res[r].state = "live" /\ w.pc = "event"
      /\ res[r].call # "no" => res[r].early /\ ~client.in_shutdown
      /\ res[r] \in ResType /\ work[r] \in WorkItemType /\ w \in RunType
      /\ client.kref \in Nat /\ client.kref >= 1 /\ (client.freed <=> client.kref = 0)
    BY AtWork DEF WorkEvent
<1>2. UNCHANGED <<irm, device, res, user, once, count, env>> /\ client' = IF w.free THEN client ELSE Put
    BY DEF WorkEvent
<1>3. events[r] \in [alloc : 0 .. 1, dealloc : 0 .. 1, null : BOOLEAN]
    BY DEF CdevIsoInv, CdevIsoTypeOK
<1>4. a \in 0 .. 1 /\ d \in 0 .. 1 /\ n \in BOOLEAN
    BY <1>1, <1>3 DEF ResourceInv
<1>5. (res[r].e_alloc => a = 0) /\ (res[r].e_dealloc => d = 0)
    BY <1>1 DEF ResourceInv
<1>6. events' = [events EXCEPT ![r] = new]
    BY DEF WorkEvent
<1> HIDE DEF a, d, n
<1>7. new \in [alloc : 0 .. 1, dealloc : 0 .. 1, null : BOOLEAN] /\ new.alloc = a /\ new.dealloc = d
    BY <1>3, <1>4
<1> HIDE DEF new
<1>8. /\ events' \in [Res -> [alloc : 0 .. 1, dealloc : 0 .. 1, null : BOOLEAN]]
      /\ events'[r].alloc = a /\ events'[r].dealloc = d
      /\ \A q \in Res \ {r} : events'[q] = events[q]
    BY <1>6, <1>7 DEF CdevIsoInv, CdevIsoTypeOK
<1> DEFINE f == [NoRun EXCEPT !.pc = "free", !.free = TRUE]
<1>9. /\ NoRun.pc = "idle" /\ NoRun.todo = "alloc" /\ ~NoRun.free /\ NoRun.event = "none"
      /\ f \in RunType /\ f.pc = "free" /\ f.todo = "alloc" /\ f.free /\ f.event = "none"
  <2>1. NoRun.pc = "idle" /\ NoRun.todo = "alloc" /\ ~NoRun.free /\ NoRun.event = "none"
      BY DEF NoRun
  <2>2. f \in RunType /\ f.pc = "free" /\ f.free /\ f.todo = NoRun.todo /\ f.event = NoRun.event
      BY NoRunTyped DEF RunType
  <2>3. QED
      BY <2>1, <2>2
<1> HIDE DEF f
<1>10. /\ client' \in [in_shutdown : BOOLEAN, kref : Nat, freed : BOOLEAN]
       /\ client'.in_shutdown = client.in_shutdown
       /\ client'.kref = client.kref - (IF w.free THEN 0 ELSE 1)
       /\ (client'.freed <=> client'.kref = 0)
  <2>1. CASE w.free
      BY <1>1, <1>2, <2>1 DEF CdevIsoInv, CdevIsoTypeOK
  <2>2. CASE ~w.free
      BY <1>1, <1>2, <2>2, PutTyped
  <2>3. QED
      BY <2>1, <2>2
<1>11. /\ work' \in [Res -> WorkItemType] /\ \A q \in Res \ {r} : work'[q] = work[q]
       /\ \/ w.free /\ work'[r].run = f /\ work'[r].queued = "no"
          \/ ~w.free /\ work'[r].run = NoRun /\ work'[r].queued = work[r].queued
  <2>1. CASE w.free
    <3>1. [queued |-> "no", run |-> f] \in WorkItemType
        BY <1>9 DEF WorkItemType
    <3>2. work' = [work EXCEPT ![r] = [queued |-> "no", run |-> f]]
        BY <2>1 DEF WorkEvent, f
    <3>3. QED
        BY <2>1, <3>1, <3>2 DEF CdevIsoInv, CdevIsoTypeOK
  <2>2. CASE ~w.free
    <3>1. Run(r, NoRun) /\ CdevIsoTypeOK
        BY <2>2 DEF WorkEvent, CdevIsoInv
    <3>2. QED
        BY <2>2, <3>1, RunTyped, NoRunTyped
  <2>3. QED
      BY <2>1, <2>2
<1>12. CdevIsoTypeOK'
    BY <1>2, <1>8, <1>10, <1>11 DEF CdevIsoInv, CdevIsoTypeOK
<1>13. Parted(r)' <=> Parted(r)
    BY <1>2, <1>10 DEF Parted
<1>14. ResourceInv(r)'
    BY <1>1, <1>2, <1>5, <1>8, <1>9, <1>10, <1>11, <1>13 DEF ResourceInv
<1>15. CallsInv'
  <2>1. \A q \in Res : res'[q].listed = res[q].listed
      BY <1>2
  <2>2. user.res \in SUBSET Res
      BY DEF CdevIsoInv, CdevIsoTypeOK
  <2>3. QED
      BY <1>2, <1>10, <2>1, <2>2 DEF CdevIsoInv, CallsInv
<1>16. Base' = Base /\ Base \in Int
    BY <1>2, <1>10 DEF Base
<1>17. Weight(r)' <= Weight(r) - (IF w.free THEN 0 ELSE 1) /\ Weight(r) \in Int /\ Weight(r)' \in Int
  <2>1. r \in Held' <=> r \in Held
      BY <1>2, <1>10 DEF Held
  <2>2. r \in Running /\ (r \in Running' => w.free)
      BY <1>1, <1>9, <1>11 DEF Running
  <2>3. work'[r].queued # "no" => work[r].queued # "no"
      BY <1>11
  <2>4. r \in Queued' => r \in Queued
      BY <2>3 DEF Queued
  <2>5. QED
      BY <2>1, <2>2, <2>4 DEF Weight
<1>18. OthersUntouched(r)
    BY <1>2, <1>8, <1>10, <1>11 DEF OthersUntouched
<1>19. client'.kref - client.kref >= Base' + Weight(r)' - Base - Weight(r)
    BY <1>1, <1>10, <1>16, <1>17
<1>20. QED
    BY <1>10, <1>12, <1>14, <1>15, <1>18, <1>19, StepOfOnePreserves

\* The resource is freed; the run that did it drops its reference.
LEMMA WorkFreePreserves ==
    ASSUME CdevIsoInv, NEW r \in Res, WorkFree(r)
    PROVE  CdevIsoInv'
<1> DEFINE used == res[r].used \/ work[r].queued # "no"
           new == [res[r] EXCEPT !.state = "freed", !.used = used]
<1>1. /\ ResourceInv(r) /\ res[r].state = "live" /\ work[r].run.pc = "free"
      /\ res[r].call # "no" => res[r].early /\ ~client.in_shutdown
      /\ res[r] \in ResType /\ work[r] \in WorkItemType /\ work[r].run \in RunType
      /\ client.kref \in Nat /\ client.kref >= 1 /\ (client.freed <=> client.kref = 0)
    BY AtWork DEF WorkFree
<1>2. /\ UNCHANGED <<irm, device, user, events, once, count, env>> /\ client' = Put
      /\ res' = [res EXCEPT ![r] = new]
      /\ work' = [work EXCEPT ![r] = [queued |-> "no", run |-> NoRun]]
    BY DEF WorkFree
<1>3. used \in BOOLEAN /\ (used => res[r].early) /\ Parted(r)
    BY <1>1 DEF ResType, ResourceInv
<1> HIDE DEF used
<1>4. /\ new \in ResType /\ new.state = "freed" /\ new.listed = res[r].listed
      /\ new.todo = res[r].todo /\ new.e_alloc = res[r].e_alloc /\ new.e_dealloc = res[r].e_dealloc
      /\ new.call = res[r].call /\ new.early = res[r].early /\ new.used = used
    BY <1>1, <1>3 DEF ResType
<1> HIDE DEF new
<1>5. res' \in [Res -> ResType] /\ res'[r] = new /\ \A q \in Res \ {r} : res'[q] = res[q]
    BY <1>2, <1>4 DEF CdevIsoInv, CdevIsoTypeOK
<1>6. /\ work' \in [Res -> WorkItemType] /\ work'[r] = [queued |-> "no", run |-> NoRun]
      /\ \A q \in Res \ {r} : work'[q] = work[q]
  <2>1. [queued |-> "no", run |-> NoRun] \in WorkItemType
      BY NoRunTyped DEF WorkItemType
  <2>2. QED
      BY <1>2, <2>1 DEF CdevIsoInv, CdevIsoTypeOK
<1>7. /\ client' \in [in_shutdown : BOOLEAN, kref : Nat, freed : BOOLEAN]
      /\ client'.in_shutdown = client.in_shutdown
      /\ client'.kref = client.kref - 1
      /\ (client'.freed <=> client'.kref = 0)
    BY <1>1, <1>2, PutTyped
<1>8. CdevIsoTypeOK'
    BY <1>2, <1>5, <1>6, <1>7 DEF CdevIsoInv, CdevIsoTypeOK
<1>9. Parted(r)'
    BY <1>2, <1>3, <1>4, <1>5, <1>7 DEF Parted
<1>10. NoRun.pc = "idle" /\ NoRun.todo = "alloc" /\ ~NoRun.free /\ NoRun.event = "none"
    BY DEF NoRun
<1>11. ResourceInv(r)'
    BY <1>1, <1>2, <1>3, <1>4, <1>5, <1>6, <1>7, <1>9, <1>10 DEF ResourceInv
<1>12. CallsInv'
  <2>1. \A q \in Res : res'[q].listed = res[q].listed
      BY <1>4, <1>5
  <2>2. user.res \in SUBSET Res
      BY DEF CdevIsoInv, CdevIsoTypeOK
  <2>3. QED
      BY <1>2, <1>7, <2>1, <2>2 DEF CdevIsoInv, CallsInv
<1>13. Base' = Base /\ Base \in Int
    BY <1>2, <1>7 DEF Base
<1>14. Weight(r)' <= Weight(r) - 1 /\ Weight(r) \in Int /\ Weight(r)' \in Int
  <2>1. (r \in Held' <=> r \in Held) /\ r \in Running /\ r \notin Running' /\ r \notin Queued'
      BY <1>1, <1>2, <1>4, <1>5, <1>6, <1>7, <1>10 DEF Held, Running, Queued
  <2>2. QED
      BY <2>1 DEF Weight
<1>15. OthersUntouched(r)
    BY <1>2, <1>5, <1>6, <1>7 DEF OthersUntouched
<1>16. client'.kref - client.kref >= Base' + Weight(r)' - Base - Weight(r)
    BY <1>1, <1>7, <1>13, <1>14
<1>17. QED
    BY <1>7, <1>8, <1>11, <1>12, <1>15, <1>16, StepOfOnePreserves

-----------------------------------------------------------------------------
(* The steps that are about all resources in the xarray.                   *)

LEMMA CdevUpdatePreserves ==
    ASSUME CdevIsoInv, CdevUpdate
    PROVE  CdevIsoInv'
<1>1. device' \in [gen : 0 .. MaxGenerations, told : BOOLEAN] /\ UNCHANGED <<irm, user, events, once, count, env>>
    BY DEF CdevUpdate, CdevIsoInv, CdevIsoTypeOK
<1>2. CASE client.in_shutdown
  <2>1. UNCHANGED <<res, work, client>>
      BY <1>2 DEF CdevUpdate
  <2>2. CdevIsoTypeOK'
      BY <1>1, <2>1 DEF CdevIsoInv, CdevIsoTypeOK
  <2>3. CallsInv' /\ Base' = Base /\ Base \in Int
      BY <1>1, <2>1 DEF CdevIsoInv, CallsInv, Base
  <2>4. client.kref \in Nat /\ (client.freed <=> client.kref = 0)
      BY DEF CdevIsoInv, CdevIsoTypeOK, KrefCovers
  <2>5. QED
      BY <1>1, <2>1, <2>2, <2>3, <2>4, StepOfNonePreserves
<1>3. CASE ~client.in_shutdown
  <2> DEFINE new == NewlyQueued(work, Listed)
             n == Cardinality(new)
  <2>1. work' = Scheduled(work, Listed, "yes") /\ client' = [client EXCEPT !.kref = client.kref + n]
      BY <1>3 DEF CdevUpdate, Get
  <2>2. \A q \in Res : work[q] \in WorkItemType /\ [work[q] EXCEPT !.queued = "yes"] \in WorkItemType
      BY DEF CdevIsoInv, CdevIsoTypeOK, WorkItemType
  <2>3. work' \in [Res -> WorkItemType]
      BY <2>1, <2>2 DEF Scheduled
  <2>4. \A q \in Res : work'[q] = IF q \in Listed /\ work[q].queued = "no"
                                  THEN [work[q] EXCEPT !.queued = "yes"] ELSE work[q]
      BY <2>1 DEF Scheduled
  <2>5. \A q \in Res : work'[q].run = work[q].run /\ (work'[q].queued # "no" <=> q \in Queued \cup new)
      BY <2>2, <2>4 DEF WorkItemType, Queued, NewlyQueued, Listed
  <2> DEFINE early(q) == res[q].early \/ (q \in Listed /\ res[q].call # "no")
  <2>6. ASSUME NEW q \in Res
         PROVE  /\ res'[q] \in ResType /\ res'[q].early = early(q) /\ res'[q].state = res[q].state
                /\ res'[q].listed = res[q].listed /\ res'[q].todo = res[q].todo
                /\ res'[q].call = res[q].call /\ res'[q].used = res[q].used
                /\ res'[q].e_alloc = res[q].e_alloc /\ res'[q].e_dealloc = res[q].e_dealloc
                /\ (res'[q] = res[q] \/ res[q].listed)
    <3>1. res[q] \in ResType
        BY DEF CdevIsoInv, CdevIsoTypeOK
    <3>2. res'[q] = IF q \in Listed THEN Overtaken(res[q]) ELSE res[q]
        BY <1>3 DEF CdevUpdate
    <3>3. CASE q \notin Listed
        BY <3>1, <3>2, <3>3 DEF ResType
    <3>4. CASE q \in Listed
      <4>1. early(q) \in BOOLEAN
          BY <3>1 DEF ResType
      <4>2. res'[q] = [res[q] EXCEPT !.early = early(q)]
          BY <3>1, <3>2, <3>4 DEF Overtaken, ResType
      <4> HIDE DEF early
      <4>3. QED
          BY <3>1, <3>4, <4>1, <4>2 DEF ResType, Listed
    <3>5. QED
        BY <3>3, <3>4
  <2>7. res' \in [Res -> ResType]
    <3>1. res' = [r \in Res |-> IF r \in Listed THEN Overtaken(res[r]) ELSE res[r]]
        BY <1>3 DEF CdevUpdate
    <3>2. QED
        BY <2>6, <3>1
  <2>8. new \in SUBSET Res /\ Queued \in SUBSET Res /\ new \cap Queued = {}
      BY DEF NewlyQueued, Listed, Queued
  <2>9. Queued' = Queued \cup new /\ Running' = Running
      BY <2>5, <2>8 DEF Queued, Running
  <2>10. n \in Nat /\ Cardinality(Queued)' = Cardinality(Queued) + n
    <3>1. IsFiniteSet(new) /\ IsFiniteSet(Queued) /\ n \in Nat
        BY <2>8, CdevIsoAssumption, FS_Subset, FS_CardinalityType
    <3>2. Queued \cap new = {} /\ Cardinality(Queued \cap new) = 0
        BY <2>8, FS_EmptySet
    <3>3. Cardinality(Queued \cup new) = Cardinality(Queued) + n - Cardinality(Queued \cap new)
        BY <3>1, FS_Union
    <3>4. Cardinality(Queued) \in Nat
        BY <3>1, FS_CardinalityType
    <3>5. Cardinality(Queued)' = Cardinality(Queued \cup new)
        BY <2>9
    <3> HIDE DEF n
    <3>6. QED
        BY <3>1, <3>2, <3>3, <3>4, <3>5
  <2> HIDE DEF n, new
  <2>11. /\ client.kref \in Nat /\ client.kref >= References /\ References >= 1
        /\ (client.freed <=> client.kref = 0)
    <3>1. References \in Nat /\ References >= Base /\ Base >= 1 /\ Base \in Nat
        BY <1>3, ReferencesAreNat DEF CdevIsoInv, ReferencesAdd, Base
    <3>2. QED
        BY <3>1 DEF CdevIsoInv, CdevIsoTypeOK, KrefCovers
  <2>12. /\ client' \in [in_shutdown : BOOLEAN, kref : Nat, freed : BOOLEAN]
         /\ client'.in_shutdown = client.in_shutdown /\ client'.freed = client.freed
         /\ client'.kref = client.kref + n
      BY <2>1, <2>10, <2>11 DEF CdevIsoInv, CdevIsoTypeOK
  <2>13. CdevIsoTypeOK'
      BY <1>1, <2>3, <2>7, <2>12 DEF CdevIsoInv, CdevIsoTypeOK
  <2>14. CallsInv'
    <3>1. user.res \in SUBSET Res
        BY DEF CdevIsoInv, CdevIsoTypeOK
    <3>2. QED
        BY <1>1, <2>12, <2>6, <3>1 DEF CdevIsoInv, CallsInv
  <2>15. ASSUME NEW q \in Res PROVE ResourceInv(q)'
    <3>1. ResourceInv(q) /\ (Parted(q)' <=> Parted(q)) /\ work'[q].run = work[q].run
        BY <1>1, <2>5, <2>12, <2>6 DEF CdevIsoInv, Parted
    <3>2. res[q].state # "live" \/ work[q].run.pc = "free" => work'[q] = work[q] /\ ~res[q].listed
        BY <1>3, <2>4, <3>1 DEF ResourceInv, Parted, Listed
    <3>3. res[q].early => res'[q].early
        BY <2>6 DEF CdevIsoInv, CdevIsoTypeOK, ResType
    <3>4. work'[q] = work[q] \/ (res[q].call # "no" => res'[q].early)
        BY <2>4, <2>6
    <3>5. res[q].state = "none" => res'[q] = NoRes
        BY <2>6, <3>1, <3>2 DEF ResourceInv
    <3> HIDE DEF early
    <3>6. QED
        BY <1>1, <2>12, <2>6, <3>1, <3>2, <3>3, <3>4, <3>5 DEF ResourceInv
  <2>16. References' = References + n
    <3>1. ReferencesAdd'
        BY <2>13, ReferencesAreNat, PTL
    <3>2. ReferencesAdd
        BY ReferencesAreNat DEF CdevIsoInv
    <3>3. Held' = Held /\ Base' = Base
        BY <1>1, <2>12, <2>6 DEF Held, Base
    <3>4. QED
        BY <2>9, <2>10, <3>1, <3>2, <3>3 DEF ReferencesAdd
  <2>17. KrefCovers'
    <3>1. References \in Nat
        BY ReferencesAreNat DEF CdevIsoInv, ReferencesAdd
    <3>2. client'.kref >= References' /\ client'.kref # 0 /\ client.kref # 0
        BY <2>10, <2>11, <2>12, <2>16, <3>1
    <3>3. QED
        BY <2>11, <2>12, <3>2 DEF KrefCovers
  <2>18. QED
      BY <2>13, <2>14, <2>15, <2>17 DEF CdevIsoInv
<1>4. QED
    BY <1>2, <1>3

LEMMA ClosePreserves ==
    ASSUME CdevIsoInv, Close
    PROVE  CdevIsoInv'
<1>1. UNCHANGED <<irm, device, res, work, events, once, count, env>>
    BY DEF Close
<1>2. ~client.in_shutdown /\ user.pc = "idle" /\ user.res = {} /\ Listed \in SUBSET Res
    BY DEF Close, MayCall, CdevIsoInv, CallsInv, Listed
<1>3. /\ client' \in [in_shutdown : BOOLEAN, kref : Nat, freed : BOOLEAN]
      /\ client'.in_shutdown /\ client'.kref = client.kref /\ client'.freed = client.freed
    BY DEF Close, CdevIsoInv, CdevIsoTypeOK
<1>4. user' = [pc |-> "closing", res |-> Listed]
    BY DEF Close
<1>5. CdevIsoTypeOK'
    BY <1>1, <1>2, <1>3, <1>4 DEF CdevIsoInv, CdevIsoTypeOK
<1>6. CallsInv'
    BY <1>3, <1>4 DEF CallsInv
<1>7. ASSUME NEW q \in Res PROVE ResourceInv(q)'
  <2>1. ResourceInv(q) /\ res'[q] = res[q] /\ work'[q] = work[q] /\ events'[q] = events[q]
      BY <1>1 DEF CdevIsoInv
  <2>2. Parted(q) => Parted(q)'
      BY <1>1, <1>2, <1>3, <1>4 DEF Parted, Listed
  <2>3. res[q].call = "no"
      BY DEF Close
  <2>4. QED
      BY <2>1, <2>2, <2>3 DEF ResourceInv
<1>8. Held' = Held /\ Queued' = Queued /\ Running' = Running
    BY <1>1, <1>2, <1>3, <1>4 DEF Held, Queued, Running, Listed
<1>9. Base' = Base
    BY <1>1, <1>2, <1>3, <1>4 DEF Base
<1>10. References' = References
  <2>1. ReferencesAdd'
      BY <1>5, ReferencesAreNat, PTL
  <2>2. ReferencesAdd
      BY ReferencesAreNat DEF CdevIsoInv
  <2>3. QED
      BY <1>8, <1>9, <2>1, <2>2 DEF ReferencesAdd
<1>11. KrefCovers'
    BY <1>3, <1>10 DEF CdevIsoInv, KrefCovers
<1>12. QED
    BY <1>5, <1>6, <1>7, <1>11 DEF CdevIsoInv

-----------------------------------------------------------------------------
(* The theorem.                                                            *)

LEMMA CdevIsoInitially == CdevIsoInit => CdevIsoInv
<1> SUFFICES ASSUME CdevIsoInit PROVE CdevIsoInv
    OBVIOUS
<1>1. irm \in IrmType
    BY CdevIsoAssumption DEF CdevIsoInit, IrmType, Owner
<1>2. res \in [Res -> ResType] /\ \A r \in Res : res[r] = NoRes
    BY NoResTyped DEF CdevIsoInit
<1>3. /\ work \in [Res -> WorkItemType] /\ \A r \in Res : work[r] = [queued |-> "no", run |-> NoRun]
  <2>1. [queued |-> "no", run |-> NoRun] \in WorkItemType
      BY NoRunTyped DEF WorkItemType
  <2>2. QED
      BY <2>1 DEF CdevIsoInit
<1>4. CdevIsoTypeOK
    BY <1>1, <1>2, <1>3, CdevIsoAssumption DEF CdevIsoInit, CdevIsoTypeOK
<1>5. CallsInv
    BY DEF CdevIsoInit, CallsInv
<1>6. ASSUME NEW r \in Res PROVE ResourceInv(r)
  <2>1. res[r] = NoRes /\ ~NoRes.listed /\ NoRes.state = "none" /\ NoRes.todo = "alloc"
        /\ NoRes.call = "no" /\ ~NoRes.used
      BY <1>2 DEF NoRes
  <2>2. /\ NoRun.pc = "idle" /\ NoRun.todo = "alloc" /\ ~NoRun.free /\ NoRun.event = "none"
        /\ work[r].run = NoRun /\ work[r] = [queued |-> "no", run |-> NoRun]
    <3>1. work[r].run = NoRun /\ work[r] = [queued |-> "no", run |-> NoRun]
        BY <1>3
    <3>2. QED
        BY <3>1 DEF NoRun
  <2>3. events[r].alloc = 0 /\ events[r].dealloc = 0 /\ user.res = {}
      BY DEF CdevIsoInit
  <2>4. Parted(r)
      BY <2>1, <2>3 DEF Parted
  <2>5. QED
      BY <2>1, <2>2, <2>3, <2>4 DEF ResourceInv
<1>7. KrefCovers
  <2>1. Held = {} /\ Queued = {} /\ Running = {}
      BY <1>2, <1>3 DEF CdevIsoInit, Held, Queued, Running, NoRes, NoRun
  <2>2. client.kref = 1 /\ ~client.freed /\ ~client.in_shutdown /\ once.pc = "idle"
      BY DEF CdevIsoInit
  <2>3. References = 1
      BY <2>1, <2>2, FS_EmptySet DEF References
  <2>4. QED
      BY <2>2, <2>3 DEF KrefCovers
<1>8. QED
    BY <1>4, <1>5, <1>6, <1>7 DEF CdevIsoInv

LEMMA CdevIsoStep == CdevIsoInv /\ [CdevIsoNext]_isoresvars => CdevIsoInv'
<1> SUFFICES ASSUME CdevIsoInv, [CdevIsoNext]_isoresvars PROVE CdevIsoInv'
    OBVIOUS
<1>1. CASE UNCHANGED isoresvars
  <2>1. CdevIsoTypeOK' /\ CallsInv' /\ KrefCovers'
      BY <1>1 DEF isoresvars, CdevIsoInv, CdevIsoTypeOK, CallsInv, KrefCovers, References, Held, Queued, Running
  <2>2. \A r \in Res : ResourceInv(r)'
      BY <1>1 DEF isoresvars, CdevIsoInv, ResourceInv, Parted
  <2>3. QED
      BY <2>1, <2>2 DEF CdevIsoInv
<1>2. CASE IrmReset \/ GraceEnds \/ OtherTakes \/ DeviceGeneration \/ OnceStart
    BY <1>2, NothingAlive
<1>3. CASE Close
    BY <1>3, ClosePreserves
<1>4. CASE IoctlOnce
    BY <1>4, IoctlOncePreserves
<1>5. CASE OnceManage
    BY <1>5, OnceManagePreserves
<1>6. CASE CdevUpdate
    BY <1>6, CdevUpdatePreserves
<1>7. CASE CloseEnds
    BY <1>7, CloseEndsPreserves
<1>8. ASSUME NEW r \in Res, Calls(r) \/ IoctlReturns(r) \/ Release(r) \/ DelayEnds(r) \/ Work(r)
      PROVE  CdevIsoInv'
  <2>1. CASE IoctlAllocate(r)
      BY <2>1, IoctlAllocatePreserves
  <2>2. CASE IoctlDeallocate(r)
      BY <2>2, IoctlDeallocatePreserves
  <2>3. CASE Release(r)
      BY <2>3, ReleasePreserves
  <2>4. CASE DelayEnds(r) \/ WorkStart(r)
      BY <2>4, WorkQueuedOrStarted
  <2>5. CASE WorkLook(r)
      BY <2>5, WorkLookPreserves
  <2>6. CASE WorkManage(r)
      BY <2>6, WorkManagePreserves
  <2>7. CASE WorkErase(r)
      BY <2>7, WorkErasePreserves
  <2>8. CASE WorkTodo(r)
      BY <2>8, WorkTodoPreserves
  <2>9. CASE WorkEvent(r)
      BY <2>9, WorkEventPreserves
  <2>10. CASE WorkFree(r)
      BY <2>10, WorkFreePreserves
  <2>11. CASE IoctlReturns(r)
      BY <2>11, IoctlReturnsPreserves
  <2>12. QED
      BY <1>8, <2>1, <2>2, <2>3, <2>4, <2>5, <2>6, <2>7, <2>8, <2>9, <2>10, <2>11 DEF Calls, Work
<1>9. QED
    BY <1>1, <1>2, <1>3, <1>4, <1>5, <1>6, <1>7, <1>8 DEF CdevIsoNext, Kernel

LEMMA CdevIsoInvSuffices == CdevIsoInv => NotFreedEarly
<1> SUFFICES ASSUME CdevIsoInv PROVE NotFreedEarly
    OBVIOUS
<1>1. ASSUME NEW r \in Res, res[r].state = "freed"
      PROVE  (res[r].listed => client.in_shutdown) /\ r \notin user.res
             /\ work[r] = [queued |-> "no", run |-> NoRun]
             /\ (res[r].call # "no" => res[r].early)
    BY <1>1 DEF CdevIsoInv, ResourceInv, Parted
<1>2. \A r \in Res : res[r].used => res[r].early
    BY DEF CdevIsoInv, ResourceInv
<1>3. QED
    BY <1>1, <1>2 DEF CdevIsoInv, NotFreedEarly, NoUseAfterFree

(* Neither a resource nor its client is freed while anybody can reach it, and     *)
(* nobody but an ioctl_allocate_iso_resource() that was overtaken between its two *)
(* uses of the resource (core-cdev.c:1465, 1472) uses it after that: for any      *)
(* number of resources, channels, bus resets and refusals of the IRM, and for     *)
(* careful and careless clients (iso_resource_auto_work() against                 *)
(* ioctl_deallocate_iso_resource() and fw_device_op_release()).                   *)
THEOREM NothingFreedEarly == CdevIsoSpec => []NotFreedEarly
<1>1. CdevIsoInv => NotFreedEarly
    BY CdevIsoInvSuffices
<1>2. QED
    BY <1>1, CdevIsoInitially, CdevIsoStep, PTL DEF CdevIsoSpec
=============================================================================
