--------------------------- MODULE FwDeviceProofs ---------------------------
(* Proof of what FwDevice says about devices and nodes: a node and its      *)
(* device refer to each other, a running device has a node, and no freed    *)
(* device has work but what went astray, for any number of nodes, devices,  *)
(* bus resets and failures.                                                 *)
EXTENDS FwDevice, FiniteSetTheorems, TLAPS

-----------------------------------------------------------------------------
(* The inductive invariant.                                                 *)

\* Places of fw_device_init() at which nobody else knows the device.
Early == {"init_read", "init_find", "init_swap", "init_drop", "init_add"}
Refreshing == {"reread", "refresh_same", "refresh_read", "refresh_units", "refresh_run"}

\* A device that was not added yet is not running, and was not scheduled by anybody.
Fresh(D) == ~D.added /\ D.state \in {"INITIALIZING", "GONE"}

\* The work item of a device that is not, or no longer, added: none is left of one that
\* was unregistered while somebody has a reference to it.
WorkOk(D) ==
  IF D.workfn = "init" THEN Fresh(D)
  ELSE Astray(D) \/ (~D.queued /\ D.pc = "idle" /\ D.state # "RUNNING")

DeviceOk(D) ==
  /\ IF D.state = "free" THEN D.pc = "idle" /\ D.node = None /\ (D.queued => Astray(D))
     ELSE D.node \in Nodes /\ (~D.added => WorkOk(D))
  /\ D.pc \in Early => ~D.added /\ D.workfn = "init" /\ ~D.queued
  /\ D.pc = "init_run" => D.added
  /\ D.added => D.state # "free" /\ (D.workfn = "init" => ~D.queued /\ D.pc # "picked")
  /\ D.pc = "picked" /\ D.queued => D.workfn = "update" \/ (Astray(D) /\ D.workfn # "init")
  /\ D.pc \in Refreshing \cup {"unregister"} => D.workfn # "init"
  /\ D.pc = "unregister" => Astray(D) \/ (~D.queued /\ D.state # "RUNNING")

\* A device whose node left the bus is gone, or drops that node, or was lost.
NodeOk(D) == D.state = "INITIALIZING" /\ D.pc # "init_drop" /\ "lost" \notin D.races => InTree(D.node)

\* A device that others found is not freed, nor is it their own.
Known(D) == D.state # "free" /\ (D.added \/ D.workfn # "init")

\* While a device is being revived its work item is idle, or finds that it is RUNNING.
Revived(D) ==
  \/ Astray(D)
  \/ D.added /\ (D.pc = "idle" \/ (D.pc = "picked" /\ D.workfn = "shutdown" /\ D.state = "RUNNING"))

RevivalOk ==
  /\ \A d \in Devs : dev[d].pc \in {"init_swap", "init_drop"} => 
       dev[d].found \in Devs /\ Known(dev[dev[d].found])
  /\ \A d \in Devs : dev[d].pc = "init_swap" => Revived(dev[dev[d].found])
  /\ \A d, e \in Devs :
       dev[d].pc = "init_swap" /\ dev[e].pc = "init_swap" /\ dev[d].found = dev[e].found /\ d # e =>
         Astray(dev[dev[d].found]) \/ dev[dev[d].found].pc = "idle"

NodesOk ==
  \A n \in Nodes : /\ node[n].at = "none" => node[n].device = None
                   /\ InTree(n) => node[n].rom \in Roms

DeviceInv ==
  /\ TypeOK /\ LinksAgree /\ RunningHasNode /\ RevivalOk
  /\ \A d \in Devs : DeviceOk(dev[d]) /\ NodeOk(dev[d])
  /\ NodesOk

\* What a step does to a device that is being revived.
Keeps(D, E) ==
  Revived(D) => Revived(E) /\ (Astray(D) \/ D.pc = "idle" => Astray(E) \/ E.pc = "idle")

-----------------------------------------------------------------------------
(* Types.                                                                   *)
DevType ==
  [state : States \cup {"free"}, node : Nodes \cup {None}, gen : 0..(MaxResets + 1),
   workfn : {"init", "refresh", "update", "shutdown"}, queued : BOOLEAN, pc : Places,
   rgen : 0..(MaxResets + 1), retries : 0..MaxRetries, rom : Roms \cup {None, Freed},
   added : BOOLEAN, units : 0..(MaxResets + 1), found : Devs \cup {None}, races : SUBSET Races]
NodeType == [at : {"none", "on", "off", "lost"}, device : Devs \cup {None}, rom : Roms \cup {None},
             raced : BOOLEAN]
CardType == [gen : 1..(MaxResets + 1), listed : BOOLEAN, recent : BOOLEAN,
             newest : [Guids -> 1..MaxVersion]]

\* What surrounds the devices and nodes.
Around == card \in CardType /\ fails \in 0..MaxFails /\ env \in Environments

LEMMA Types == TypeOK <=> Around /\ node \in [Nodes -> NodeType] /\ dev \in [Devs -> DevType]
BY DEF TypeOK, Around, CardType, NodeType, DevType

LEMMA ZeroGen == 0 \in 0..(MaxResets + 1) /\ 0 \in 0..MaxRetries
BY DeviceAssumption

LEMMA FreeDeviceType == FreeDevice \in DevType
BY ZeroGen DEF FreeDevice, DevType, States, Places

\* Who revives whom stays as it is, but for those that are done.
LEMMA RevivalKept ==
    ASSUME RevivalOk,
           \A y \in Devs : dev'[y].pc \in {"init_swap", "init_drop"} =>
             /\ dev[y].pc \in {"init_swap", "init_drop"} /\ dev'[y].found = dev[y].found
             /\ Known(dev'[dev[y].found]),
           \A y \in Devs : dev'[y].pc = "init_swap" =>
             dev[y].pc = "init_swap" /\ Keeps(dev[dev[y].found], dev'[dev[y].found])
    PROVE  RevivalOk'
<1>1. ASSUME NEW y \in Devs, dev'[y].pc \in {"init_swap", "init_drop"}
      PROVE  dev'[y].found \in Devs /\ Known(dev'[dev'[y].found])
    BY <1>1 DEF RevivalOk
<1>2. ASSUME NEW y \in Devs, dev'[y].pc = "init_swap"
      PROVE  Revived(dev'[dev'[y].found])
  <2>1. dev'[y].found = dev[y].found /\ Revived(dev[dev[y].found])
      BY <1>2 DEF RevivalOk
  <2>2. QED
      BY <1>2, <2>1 DEF Keeps
<1>3. ASSUME NEW x \in Devs, NEW y \in Devs, dev'[x].pc = "init_swap", dev'[y].pc = "init_swap",
             dev'[x].found = dev'[y].found, x # y
      PROVE  Astray(dev'[dev'[x].found]) \/ dev'[dev'[x].found].pc = "idle"
  <2>1. dev'[x].found = dev[x].found /\ dev'[y].found = dev[y].found /\ Revived(dev[dev[x].found])
      BY <1>3 DEF RevivalOk
  <2>2. Astray(dev[dev[x].found]) \/ dev[dev[x].found].pc = "idle"
    <3>1. dev[x].pc = "init_swap" /\ dev[y].pc = "init_swap" /\ dev[x].found = dev[y].found
        BY <1>3, <2>1
    <3>2. QED
        BY <1>3, <3>1 DEF RevivalOk
  <2>3. QED
      BY <1>3, <2>1, <2>2 DEF Keeps
<1>4. QED
    BY <1>1, <1>2, <1>3 DEF RevivalOk, Known, Revived, Astray

-----------------------------------------------------------------------------
(* Steps of a work item that leave the nodes alone.                         *)

LEMMA OneDevice ==
    ASSUME DeviceInv, Around', NEW d \in Devs, NEW D \in DevType, UNCHANGED node,
           dev' = [dev EXCEPT ![d] = D],
           dev[d].pc \notin {"init_swap", "init_drop"}, D.pc \notin {"init_swap", "init_drop"},
           D.node = dev[d].node, DeviceOk(D), NodeOk(D),
           "lost" \in dev[d].races => "lost" \in D.races,
           D.state = "RUNNING" => dev[d].state = "RUNNING" \/ InTree(D.node) \/ "lost" \in D.races,
           Known(dev[d]) => Known(D),
           BeingRevived(d) => Keeps(dev[d], D)
    PROVE  DeviceInv'
<1>1. /\ node \in [Nodes -> NodeType] /\ dev \in [Devs -> DevType]
      /\ LinksAgree /\ RunningHasNode /\ RevivalOk
      /\ \A x \in Devs : DeviceOk(dev[x]) /\ NodeOk(dev[x])
      /\ NodesOk
    BY Types DEF DeviceInv
<1>2. dev' \in [Devs -> DevType] /\ dev'[d] = D /\ \A x \in Devs \ {d} : dev'[x] = dev[x]
    BY <1>1
<1>3. TypeOK'
    BY <1>1, <1>2 DEF TypeOK, Around, CardType, NodeType, DevType
<1>4. LinksAgree'
    BY <1>1, <1>2 DEF LinksAgree
<1>5. \A x \in Devs : dev'[x].pc \in {"init_swap", "init_drop"} => dev'[x] = dev[x]
    BY <1>2
<1>6. RevivalOk'
  <2>1. ASSUME NEW y \in Devs, dev'[y].pc \in {"init_swap", "init_drop"}
        PROVE  Known(dev'[dev[y].found])
    <3>1. dev[y].found \in Devs /\ Known(dev[dev[y].found])
        BY <1>1, <1>5, <2>1 DEF RevivalOk
    <3>2. QED
        BY <1>2, <3>1
  <2>2. ASSUME NEW y \in Devs, dev'[y].pc = "init_swap"
        PROVE  Keeps(dev[dev[y].found], dev'[dev[y].found])
    <3>1. dev[y].pc = "init_swap" /\ dev[y].found \in Devs
        BY <1>1, <1>5, <2>2 DEF RevivalOk
    <3>2. CASE dev[y].found = d
        BY <1>2, <3>1, <3>2 DEF BeingRevived
    <3>3. CASE dev[y].found # d
        BY <1>2, <3>1, <3>3 DEF Keeps
    <3>4. QED
        BY <3>2, <3>3
  <2>3. QED
      BY <1>1, <1>5, <2>1, <2>2, RevivalKept
<1>7. \A x \in Devs : DeviceOk(dev'[x]) /\ NodeOk(dev'[x])
    BY <1>1, <1>2
<1>8. (\A x \in Devs : DeviceOk(dev[x]) /\ NodeOk(dev[x]))'
    BY <1>7 DEF DeviceOk, NodeOk, WorkOk, Astray, Fresh, InTree
<1>9. \A x \in Devs : BeingRevived(x) => BeingRevived(x)'
    BY <1>2 DEF BeingRevived
<1>10. RunningHasNode'
  <2> SUFFICES ASSUME NEW x \in Devs, dev'[x].state = "RUNNING", ~BeingRevived(x)', "lost" \notin dev'[x].races
               PROVE  node'[dev'[x].node].at \in {"on", "off"}
      BY DEF RunningHasNode, InTree
  <2>1. ~BeingRevived(x)
      BY <1>9
  <2>2. InTree(dev'[x].node)
      BY <1>1, <1>2, <2>1 DEF RunningHasNode
  <2>3. QED
      BY <2>2 DEF InTree
<1>11. NodesOk'
    BY <1>1 DEF NodesOk, InTree
<1>12. QED
    BY <1>3, <1>4, <1>6, <1>8, <1>10, <1>11 DEF DeviceInv

LEMMA Picks ==
    ASSUME DeviceInv, NEW d \in Devs, WorkPicked(d)
    PROVE  DeviceInv'
<1> DEFINE R == IF BeingRevived(d) THEN dev[d].races \cup {"met"} ELSE dev[d].races
           D == [dev[d] EXCEPT !.queued = FALSE, !.pc = "picked", !.races = R]
<1>1. dev[d] \in DevType /\ Around /\ DeviceOk(dev[d]) /\ NodeOk(dev[d]) /\ node \in [Nodes -> NodeType]
    BY Types DEF DeviceInv
<1>2. /\ dev[d].queued /\ dev[d].pc = "idle" /\ dev[d].state # "free"
      /\ UNCHANGED node /\ dev' = [dev EXCEPT ![d] = D]
    BY <1>1 DEF WorkPicked, Allocated, Goes, DevType
<1>3. Around'
    BY <1>1, <1>2 DEF WorkPicked, Around
<1>4. R \in SUBSET Races /\ dev[d].races \subseteq R /\ (BeingRevived(d) => "met" \in R)
    BY <1>1 DEF DevType, Races
<1> HIDE DEF R
<1>5. /\ D \in DevType /\ D.queued = FALSE /\ D.pc = "picked"
      /\ D.state = dev[d].state /\ D.node = dev[d].node /\ D.races = R
      /\ D.workfn = dev[d].workfn /\ D.added = dev[d].added
    BY <1>1, <1>4 DEF DevType, Places
<1> HIDE DEF D
<1>6. /\ Astray(dev[d]) => Astray(D)
      /\ BeingRevived(d) => Astray(D)
      /\ "lost" \in dev[d].races => "lost" \in D.races
    BY <1>4, <1>5 DEF Astray
<1>7. DeviceOk(D) /\ NodeOk(D)
    BY <1>1, <1>2, <1>5, <1>6 DEF DeviceOk, NodeOk, WorkOk, Fresh, Early, Refreshing
<1>8. /\ Known(dev[d]) => Known(D)
      /\ BeingRevived(d) => Keeps(dev[d], D)
    BY <1>1, <1>2, <1>5, <1>6 DEF Keeps, Revived, Known
<1>9. QED
    BY <1>2, <1>3, <1>5, <1>6, <1>7, <1>8, OneDevice

LEMMA StartsInit ==
    ASSUME DeviceInv, NEW d \in Devs, StartInit(d)
    PROVE  DeviceInv'
<1> DEFINE D == [dev[d] EXCEPT !.pc = "init_read", !.rgen = dev[d].gen]
<1>1. dev[d] \in DevType /\ Around /\ DeviceOk(dev[d]) /\ NodeOk(dev[d]) /\ node \in [Nodes -> NodeType]
    BY Types DEF DeviceInv
<1>2. /\ dev[d].pc = "picked" /\ dev[d].workfn = "init"
      /\ UNCHANGED node /\ dev' = [dev EXCEPT ![d] = D]
    BY DEF StartInit, Goes, WorkRuns, Readable
<1>3. Around'
    BY <1>1, <1>2 DEF StartInit, ReadFails, Around
<1>5. /\ D \in DevType /\ D.pc = "init_read"
      /\ D.state = dev[d].state /\ D.node = dev[d].node /\ D.races = dev[d].races /\ D.workfn = dev[d].workfn /\ D.queued = dev[d].queued /\ D.added = dev[d].added /\ D.found = dev[d].found
    BY <1>1, <1>2, ZeroGen DEF DevType, Places, States, CardType, Around, Retried, Gone, Schedule, ToRunning
<1> HIDE DEF D
<1>6. (Astray(D) <=> Astray(dev[d])) /\ ("lost" \in dev[d].races <=> "lost" \in D.races)
    BY <1>5 DEF Astray
<1>7. DeviceOk(D) /\ NodeOk(D)
    BY <1>1, <1>2, <1>5, <1>6 DEF DeviceOk, NodeOk, WorkOk, Fresh, Early, Refreshing
<1>8. /\ D.state = "RUNNING" => dev[d].state = "RUNNING" \/ InTree(D.node) \/ "lost" \in D.races
      /\ Known(dev[d]) => Known(D)
      /\ Keeps(dev[d], D)
    BY <1>1, <1>2, <1>5, <1>6 DEF Keeps, Revived, Known, NodeOk, DeviceOk, WorkOk, Fresh, Early, Refreshing
<1>9. QED
    BY <1>2, <1>3, <1>5, <1>6, <1>7, <1>8, OneDevice DEF Refreshing

LEMMA StartsRefresh ==
    ASSUME DeviceInv, NEW d \in Devs, StartRefresh(d)
    PROVE  DeviceInv'
<1> DEFINE D == [dev[d] EXCEPT !.pc = "reread", !.rgen = dev[d].gen]
<1>1. dev[d] \in DevType /\ Around /\ DeviceOk(dev[d]) /\ NodeOk(dev[d]) /\ node \in [Nodes -> NodeType]
    BY Types DEF DeviceInv
<1>2. /\ dev[d].pc = "picked" /\ dev[d].workfn = "refresh"
      /\ UNCHANGED node /\ dev' = [dev EXCEPT ![d] = D]
    BY DEF StartRefresh, Goes, WorkRuns, Readable
<1>3. Around'
    BY <1>1, <1>2 DEF StartRefresh, ReadFails, Around
<1>5. /\ D \in DevType /\ D.pc = "reread"
      /\ D.state = dev[d].state /\ D.node = dev[d].node /\ D.races = dev[d].races /\ D.workfn = dev[d].workfn /\ D.queued = dev[d].queued /\ D.added = dev[d].added /\ D.found = dev[d].found
    BY <1>1, <1>2, ZeroGen DEF DevType, Places, States, CardType, Around, Retried, Gone, Schedule, ToRunning
<1> HIDE DEF D
<1>6. (Astray(D) <=> Astray(dev[d])) /\ ("lost" \in dev[d].races <=> "lost" \in D.races)
    BY <1>5 DEF Astray
<1>7. DeviceOk(D) /\ NodeOk(D)
    BY <1>1, <1>2, <1>5, <1>6 DEF DeviceOk, NodeOk, WorkOk, Fresh, Early, Refreshing
<1>8. /\ D.state = "RUNNING" => dev[d].state = "RUNNING" \/ InTree(D.node) \/ "lost" \in D.races
      /\ Known(dev[d]) => Known(D)
      /\ Keeps(dev[d], D)
    BY <1>1, <1>2, <1>5, <1>6 DEF Keeps, Revived, Known, NodeOk, DeviceOk, WorkOk, Fresh, Early, Refreshing
<1>9. QED
    BY <1>2, <1>3, <1>5, <1>6, <1>7, <1>8, OneDevice DEF Refreshing

LEMMA StartsUpdate ==
    ASSUME DeviceInv, NEW d \in Devs, StartUpdate(d)
    PROVE  DeviceInv'
<1> DEFINE D == [dev[d] EXCEPT !.pc = "update"]
<1>1. dev[d] \in DevType /\ Around /\ DeviceOk(dev[d]) /\ NodeOk(dev[d]) /\ node \in [Nodes -> NodeType]
    BY Types DEF DeviceInv
<1>2. /\ dev[d].pc = "picked" /\ dev[d].workfn = "update"
      /\ UNCHANGED node /\ dev' = [dev EXCEPT ![d] = D]
    BY DEF StartUpdate, Goes, WorkRuns, Readable
<1>3. Around'
    BY <1>1, <1>2 DEF StartUpdate, ReadFails, Around
<1>5. /\ D \in DevType /\ D.pc = "update"
      /\ D.state = dev[d].state /\ D.node = dev[d].node /\ D.races = dev[d].races /\ D.workfn = dev[d].workfn /\ D.queued = dev[d].queued /\ D.added = dev[d].added /\ D.found = dev[d].found
    BY <1>1, <1>2, ZeroGen DEF DevType, Places, States, CardType, Around, Retried, Gone, Schedule, ToRunning
<1> HIDE DEF D
<1>6. (Astray(D) <=> Astray(dev[d])) /\ ("lost" \in dev[d].races <=> "lost" \in D.races)
    BY <1>5 DEF Astray
<1>7. DeviceOk(D) /\ NodeOk(D)
    BY <1>1, <1>2, <1>5, <1>6 DEF DeviceOk, NodeOk, WorkOk, Fresh, Early, Refreshing
<1>8. /\ D.state = "RUNNING" => dev[d].state = "RUNNING" \/ InTree(D.node) \/ "lost" \in D.races
      /\ Known(dev[d]) => Known(D)
      /\ Keeps(dev[d], D)
    BY <1>1, <1>2, <1>5, <1>6 DEF Keeps, Revived, Known, NodeOk, DeviceOk, WorkOk, Fresh, Early, Refreshing
<1>9. QED
    BY <1>2, <1>3, <1>5, <1>6, <1>7, <1>8, OneDevice DEF Refreshing

LEMMA Updates ==
    ASSUME DeviceInv, NEW d \in Devs, Update(d)
    PROVE  DeviceInv'
<1> DEFINE U == IF dev[d].units = 0 THEN 0 ELSE dev[d].gen
           D == [dev[d] EXCEPT !.pc = "idle", !.units = U]
<1>1. dev[d] \in DevType /\ Around /\ DeviceOk(dev[d]) /\ NodeOk(dev[d]) /\ node \in [Nodes -> NodeType]
    BY Types DEF DeviceInv
<1>2. /\ dev[d].pc = "update"
      /\ UNCHANGED node /\ dev' = [dev EXCEPT ![d] = D]
    BY <1>1 DEF Update, Goes, DevType
<1>3. Around'
    BY <1>1, <1>2 DEF Update, ReadFails, Around
<1>4. U \in 0..(MaxResets + 1)
    BY <1>1, ZeroGen DEF DevType
<1> HIDE DEF U
<1>5. /\ D \in DevType /\ D.pc = "idle"
      /\ D.state = dev[d].state /\ D.node = dev[d].node /\ D.races = dev[d].races
      /\ D.workfn = dev[d].workfn /\ D.queued = dev[d].queued /\ D.added = dev[d].added
    BY <1>1, <1>4 DEF DevType, Places
<1> HIDE DEF D
<1>6. (Astray(D) <=> Astray(dev[d])) /\ ("lost" \in dev[d].races <=> "lost" \in D.races)
    BY <1>5 DEF Astray
<1>7. DeviceOk(D) /\ NodeOk(D)
    BY <1>1, <1>2, <1>5, <1>6 DEF DeviceOk, NodeOk, WorkOk, Fresh, Early, Refreshing
<1>8. /\ D.state = "RUNNING" => dev[d].state = "RUNNING" \/ InTree(D.node) \/ "lost" \in D.races
      /\ Known(dev[d]) => Known(D)
      /\ Keeps(dev[d], D)
    BY <1>1, <1>2, <1>5, <1>6 DEF Keeps, Revived, Known, NodeOk, DeviceOk, WorkOk, Fresh, Early, Refreshing
<1>9. QED
    BY <1>2, <1>3, <1>5, <1>6, <1>7, <1>8, OneDevice DEF Refreshing

LEMMA ReadsRom ==
    ASSUME DeviceInv, NEW d \in Devs, InitReads(d)
    PROVE  DeviceInv'
<1> DEFINE D == [dev[d] EXCEPT !.pc = "init_find", !.rom = node[dev[d].node].rom]
<1>1. dev[d] \in DevType /\ Around /\ DeviceOk(dev[d]) /\ NodeOk(dev[d]) /\ node \in [Nodes -> NodeType]
    BY Types DEF DeviceInv
<1>2. /\ dev[d].pc = "init_read" /\ InTree(dev[d].node)
      /\ UNCHANGED node /\ dev' = [dev EXCEPT ![d] = D]
    BY DEF InitReads, Goes, WorkRuns, Readable
<1>3. Around'
    BY <1>1, <1>2 DEF InitReads, ReadFails, Around
<1>4. node[dev[d].node].rom \in Roms \cup {None}
    BY <1>1, <1>2 DEF DeviceOk, Fresh, Early, NodeType
<1>5. /\ D \in DevType /\ D.pc = "init_find"
      /\ D.state = dev[d].state /\ D.node = dev[d].node /\ D.races = dev[d].races /\ D.workfn = dev[d].workfn /\ D.queued = dev[d].queued /\ D.added = dev[d].added /\ D.found = dev[d].found
    BY <1>1, <1>2, ZeroGen, <1>4 DEF DevType, Places, States, CardType, Around, Retried, Gone, Schedule, ToRunning
<1> HIDE DEF D
<1>6. (Astray(D) <=> Astray(dev[d])) /\ ("lost" \in dev[d].races <=> "lost" \in D.races)
    BY <1>5 DEF Astray
<1>7. DeviceOk(D) /\ NodeOk(D)
    BY <1>1, <1>2, <1>5, <1>6 DEF DeviceOk, NodeOk, WorkOk, Fresh, Early, Refreshing
<1>8. /\ D.state = "RUNNING" => dev[d].state = "RUNNING" \/ InTree(D.node) \/ "lost" \in D.races
      /\ Known(dev[d]) => Known(D)
      /\ Keeps(dev[d], D)
    BY <1>1, <1>2, <1>5, <1>6 DEF Keeps, Revived, Known, NodeOk, DeviceOk, WorkOk, Fresh, Early, Refreshing
<1>9. QED
    BY <1>2, <1>3, <1>5, <1>6, <1>7, <1>8, OneDevice DEF Refreshing

LEMMA FindsNothing ==
    ASSUME DeviceInv, NEW d \in Devs, InitFindsNothing(d)
    PROVE  DeviceInv'
<1> DEFINE D == [dev[d] EXCEPT !.pc = "init_add"]
<1>1. dev[d] \in DevType /\ Around /\ DeviceOk(dev[d]) /\ NodeOk(dev[d]) /\ node \in [Nodes -> NodeType]
    BY Types DEF DeviceInv
<1>2. /\ dev[d].pc = "init_find"
      /\ UNCHANGED node /\ dev' = [dev EXCEPT ![d] = D]
    BY DEF InitFindsNothing, Goes, WorkRuns, Readable
<1>3. Around'
    BY <1>1, <1>2 DEF InitFindsNothing, ReadFails, Around
<1>5. /\ D \in DevType /\ D.pc = "init_add"
      /\ D.state = dev[d].state /\ D.node = dev[d].node /\ D.races = dev[d].races /\ D.workfn = dev[d].workfn /\ D.queued = dev[d].queued /\ D.added = dev[d].added /\ D.found = dev[d].found
    BY <1>1, <1>2, ZeroGen DEF DevType, Places, States, CardType, Around, Retried, Gone, Schedule, ToRunning
<1> HIDE DEF D
<1>6. (Astray(D) <=> Astray(dev[d])) /\ ("lost" \in dev[d].races <=> "lost" \in D.races)
    BY <1>5 DEF Astray
<1>7. DeviceOk(D) /\ NodeOk(D)
    BY <1>1, <1>2, <1>5, <1>6 DEF DeviceOk, NodeOk, WorkOk, Fresh, Early, Refreshing
<1>8. /\ D.state = "RUNNING" => dev[d].state = "RUNNING" \/ InTree(D.node) \/ "lost" \in D.races
      /\ Known(dev[d]) => Known(D)
      /\ Keeps(dev[d], D)
    BY <1>1, <1>2, <1>5, <1>6 DEF Keeps, Revived, Known, NodeOk, DeviceOk, WorkOk, Fresh, Early, Refreshing
<1>9. QED
    BY <1>2, <1>3, <1>5, <1>6, <1>7, <1>8, OneDevice DEF Refreshing

LEMMA Adds ==
    ASSUME DeviceInv, NEW d \in Devs, InitAdds(d)
    PROVE  DeviceInv'
<1> DEFINE D == [dev[d] EXCEPT !.pc = "init_run", !.added = TRUE, !.units = dev[d].gen]
<1>1. dev[d] \in DevType /\ Around /\ DeviceOk(dev[d]) /\ NodeOk(dev[d]) /\ node \in [Nodes -> NodeType]
    BY Types DEF DeviceInv
<1>2. /\ dev[d].pc = "init_add"
      /\ UNCHANGED node /\ dev' = [dev EXCEPT ![d] = D]
    BY DEF InitAdds, Goes, WorkRuns, Readable
<1>3. Around'
    BY <1>1, <1>2 DEF InitAdds, ReadFails, Around
<1>5. /\ D \in DevType /\ D.pc = "init_run" /\ D.added = TRUE
      /\ D.state = dev[d].state /\ D.node = dev[d].node /\ D.races = dev[d].races /\ D.workfn = dev[d].workfn /\ D.queued = dev[d].queued /\ D.found = dev[d].found
    BY <1>1, <1>2, ZeroGen DEF DevType, Places, States, CardType, Around, Retried, Gone, Schedule, ToRunning
<1> HIDE DEF D
<1>6. (Astray(D) <=> Astray(dev[d])) /\ ("lost" \in dev[d].races <=> "lost" \in D.races)
    BY <1>5 DEF Astray
<1>7. DeviceOk(D) /\ NodeOk(D)
    BY <1>1, <1>2, <1>5, <1>6 DEF DeviceOk, NodeOk, WorkOk, Fresh, Early, Refreshing
<1>8. /\ D.state = "RUNNING" => dev[d].state = "RUNNING" \/ InTree(D.node) \/ "lost" \in D.races
      /\ Known(dev[d]) => Known(D)
      /\ Keeps(dev[d], D)
    BY <1>1, <1>2, <1>5, <1>6 DEF Keeps, Revived, Known, NodeOk, DeviceOk, WorkOk, Fresh, Early, Refreshing
<1>9. QED
    BY <1>2, <1>3, <1>5, <1>6, <1>7, <1>8, OneDevice DEF Refreshing

\* A ROM read that failed is tried again.
LEMMA Retries ==
    ASSUME DeviceInv, NEW d \in Devs, NEW rom \in Roms \cup {None, Freed},
           dev[d].pc \in {"init_read", "reread", "refresh_read"}, MayRetry(dev[d]),
           UNCHANGED node, Around', dev' = [dev EXCEPT ![d] = Retried([dev[d] EXCEPT !.rom = rom])]
    PROVE  DeviceInv'
<1> DEFINE D == Retried([dev[d] EXCEPT !.rom = rom])
<1>1. dev[d] \in DevType /\ Around /\ DeviceOk(dev[d]) /\ NodeOk(dev[d]) /\ node \in [Nodes -> NodeType]
    BY Types DEF DeviceInv
<1>2. /\ dev[d].pc \in {"init_read", "reread", "refresh_read"}
      /\ UNCHANGED node /\ dev' = [dev EXCEPT ![d] = D]
    BY DEF Retried, Goes, WorkRuns, Readable
<1>3. Around'
    BY <1>1, <1>2 DEF Retried, ReadFails, Around
<1>4. dev[d].retries + 1 \in 0..MaxRetries
    BY <1>1, DeviceAssumption DEF DevType, MayRetry
<1>5. /\ D \in DevType /\ D.queued = TRUE /\ D.pc = "idle"
      /\ D.state = dev[d].state /\ D.node = dev[d].node /\ D.races = dev[d].races /\ D.workfn = dev[d].workfn /\ D.added = dev[d].added /\ D.found = dev[d].found
    BY <1>1, <1>2, ZeroGen, <1>4 DEF DevType, Places, States, CardType, Around, Retried, Gone, Schedule, ToRunning
<1> HIDE DEF D
<1>6. (Astray(D) <=> Astray(dev[d])) /\ ("lost" \in dev[d].races <=> "lost" \in D.races)
    BY <1>5 DEF Astray
<1>7. DeviceOk(D) /\ NodeOk(D)
    BY <1>1, <1>2, <1>5, <1>6 DEF DeviceOk, NodeOk, WorkOk, Fresh, Early, Refreshing
<1>8. /\ D.state = "RUNNING" => dev[d].state = "RUNNING" \/ InTree(D.node) \/ "lost" \in D.races
      /\ Known(dev[d]) => Known(D)
      /\ Keeps(dev[d], D)
    BY <1>1, <1>2, <1>5, <1>6 DEF Keeps, Revived, Known, NodeOk, DeviceOk, WorkOk, Fresh, Early, Refreshing
<1>9. QED
    BY <1>2, <1>3, <1>5, <1>6, <1>7, <1>8, OneDevice DEF Refreshing

\* The label gone of fw_device_refresh().
LEMMA GivesUp ==
    ASSUME DeviceInv, NEW d \in Devs, NEW rom \in Roms \cup {None, Freed},
           dev[d].pc \in Refreshing, dev[d].pc \in {"reread", "refresh_read"} \/ dev[d].state = "GONE",
           UNCHANGED node, Around', dev' = [dev EXCEPT ![d] = Gone([dev[d] EXCEPT !.rom = rom])]
    PROVE  DeviceInv'
<1> DEFINE D == Gone([dev[d] EXCEPT !.rom = rom])
<1>1. dev[d] \in DevType /\ Around /\ DeviceOk(dev[d]) /\ NodeOk(dev[d]) /\ node \in [Nodes -> NodeType]
    BY Types DEF DeviceInv
<1>2. /\ dev[d].pc \in Refreshing /\ (dev[d].pc \in {"reread", "refresh_read"} \/ dev[d].state = "GONE")
      /\ UNCHANGED node /\ dev' = [dev EXCEPT ![d] = D]
    BY DEF Gone, Refreshing, Goes, WorkRuns, Readable
<1>3. Around'
    BY <1>1, <1>2 DEF Gone, Refreshing, ReadFails, Around
<1>5. /\ D \in DevType /\ D.state = "GONE" /\ D.workfn = "shutdown" /\ D.queued = TRUE /\ D.pc = "idle"
      /\ D.node = dev[d].node /\ D.races = dev[d].races /\ D.added = dev[d].added /\ D.found = dev[d].found
  <2>1. D \in DevType
      BY <1>1, <1>2, ZeroGen, ZenonT(60) DEF DevType, Places, States, CardType, Around, Retried, Gone, Schedule, ToRunning
  <2>2. /\ D.state = "GONE" /\ D.workfn = "shutdown" /\ D.queued = TRUE /\ D.pc = "idle"
        /\ D.node = dev[d].node /\ D.races = dev[d].races /\ D.added = dev[d].added /\ D.found = dev[d].found
      BY <1>1, <1>2, ZeroGen DEF DevType, Places, States, CardType, Around, Retried, Gone, Schedule, ToRunning
  <2>3. QED
      BY <2>1, <2>2
<1> HIDE DEF D
<1>6. (Astray(D) <=> Astray(dev[d])) /\ ("lost" \in dev[d].races <=> "lost" \in D.races)
    BY <1>5 DEF Astray
<1>7. DeviceOk(D) /\ NodeOk(D)
    BY <1>1, <1>2, <1>5, <1>6 DEF DeviceOk, NodeOk, WorkOk, Fresh, Early, Refreshing
<1>8. /\ D.state = "RUNNING" => dev[d].state = "RUNNING" \/ InTree(D.node) \/ "lost" \in D.races
      /\ Known(dev[d]) => Known(D)
      /\ Keeps(dev[d], D)
    BY <1>1, <1>2, <1>5, <1>6 DEF Keeps, Revived, Known, NodeOk, DeviceOk, WorkOk, Fresh, Early, Refreshing
<1>9. QED
    BY <1>2, <1>3, <1>5, <1>6, <1>7, <1>8, OneDevice DEF Refreshing

\* "If it got pulled out from under us while we did the initialization work ..."
LEMMA PulledOut ==
    ASSUME DeviceInv, NEW d \in Devs, InitRuns(d), dev[d].state = "GONE"
    PROVE  DeviceInv'
<1> DEFINE D == Schedule([dev[d] EXCEPT !.pc = "idle"], "shutdown")
<1>1. dev[d] \in DevType /\ Around /\ DeviceOk(dev[d]) /\ NodeOk(dev[d]) /\ node \in [Nodes -> NodeType]
    BY Types DEF DeviceInv
<1>2. /\ dev[d].pc = "init_run" /\ dev[d].state = "GONE"
      /\ UNCHANGED node /\ dev' = [dev EXCEPT ![d] = D]
    BY DEF InitRuns, InitRun, Goes, WorkRuns, Readable
<1>3. Around'
    BY <1>1, <1>2 DEF InitRuns, InitRun, ReadFails, Around
<1>5. /\ D \in DevType /\ D.workfn = "shutdown" /\ D.queued = TRUE /\ D.pc = "idle"
      /\ D.state = dev[d].state /\ D.node = dev[d].node /\ D.races = dev[d].races /\ D.added = dev[d].added /\ D.found = dev[d].found
    BY <1>1, <1>2, ZeroGen DEF DevType, Places, States, CardType, Around, Retried, Gone, Schedule, ToRunning
<1> HIDE DEF D
<1>6. (Astray(D) <=> Astray(dev[d])) /\ ("lost" \in dev[d].races <=> "lost" \in D.races)
    BY <1>5 DEF Astray
<1>7. DeviceOk(D) /\ NodeOk(D)
    BY <1>1, <1>2, <1>5, <1>6 DEF DeviceOk, NodeOk, WorkOk, Fresh, Early, Refreshing
<1>8. /\ D.state = "RUNNING" => dev[d].state = "RUNNING" \/ InTree(D.node) \/ "lost" \in D.races
      /\ Known(dev[d]) => Known(D)
      /\ Keeps(dev[d], D)
    BY <1>1, <1>2, <1>5, <1>6 DEF Keeps, Revived, Known, NodeOk, DeviceOk, WorkOk, Fresh, Early, Refreshing
<1>9. QED
    BY <1>2, <1>3, <1>5, <1>6, <1>7, <1>8, OneDevice DEF Refreshing

LEMMA BeginsToRun ==
    ASSUME DeviceInv, NEW d \in Devs, InitRuns(d), dev[d].state # "GONE"
    PROVE  DeviceInv'
<1> DEFINE D == [ToRunning(dev[d]) EXCEPT !.pc = "idle", !.retries = 0]
<1>1. dev[d] \in DevType /\ Around /\ DeviceOk(dev[d]) /\ NodeOk(dev[d]) /\ node \in [Nodes -> NodeType]
    BY Types DEF DeviceInv
<1>2. /\ dev[d].pc = "init_run" /\ dev[d].state # "GONE"
      /\ UNCHANGED node /\ dev' = [dev EXCEPT ![d] = D]
    BY DEF InitRuns, InitRun, Goes, WorkRuns, Readable
<1>3. Around'
    BY <1>1, <1>2 DEF InitRuns, InitRun, ReadFails, Around
<1>5. /\ D \in DevType /\ D.pc = "idle"
      /\ dev[d].state = "INITIALIZING" => D.state = "RUNNING"
      /\ dev[d].state # "INITIALIZING" => D.state = dev[d].state
      /\ D.node = dev[d].node /\ D.races = dev[d].races /\ D.workfn = dev[d].workfn
      /\ D.queued = dev[d].queued /\ D.added = dev[d].added /\ D.found = dev[d].found
  <2>1. D \in DevType
    <3>1. dev[d] \in DevType /\ MaxRetries \in Nat
        BY <1>1, DeviceAssumption
    <3>2. QED
        BY ONLY <3>1, ZeroGen, ZenonT(60) DEF DevType, Places, States, ToRunning, D
  <2>2. /\ D.pc = "idle"
        /\ dev[d].state = "INITIALIZING" => D.state = "RUNNING"
        /\ dev[d].state # "INITIALIZING" => D.state = dev[d].state
        /\ D.node = dev[d].node /\ D.races = dev[d].races /\ D.workfn = dev[d].workfn
        /\ D.queued = dev[d].queued /\ D.added = dev[d].added /\ D.found = dev[d].found
      BY <1>1 DEF DevType, ToRunning
  <2>3. QED
      BY <2>1, <2>2
<1> HIDE DEF D
<1>6. (Astray(D) <=> Astray(dev[d])) /\ ("lost" \in dev[d].races <=> "lost" \in D.races)
    BY <1>5 DEF Astray
<1>7. DeviceOk(D) /\ NodeOk(D)
    BY <1>1, <1>2, <1>5, <1>6 DEF DeviceOk, NodeOk, WorkOk, Fresh, Early, Refreshing
<1>8. /\ D.state = "RUNNING" => dev[d].state = "RUNNING" \/ InTree(D.node) \/ "lost" \in D.races
      /\ Known(dev[d]) => Known(D)
      /\ Keeps(dev[d], D)
    BY <1>1, <1>2, <1>5, <1>6 DEF Keeps, Revived, Known, NodeOk, DeviceOk, WorkOk, Fresh, Early, Refreshing
<1>9. QED
    BY <1>2, <1>3, <1>5, <1>6, <1>7, <1>8, OneDevice DEF Refreshing

LEMMA SameRom ==
    ASSUME DeviceInv, NEW d \in Devs, RereadSame(d)
    PROVE  DeviceInv'
<1> DEFINE D == [dev[d] EXCEPT !.pc = "refresh_same"]
<1>1. dev[d] \in DevType /\ Around /\ DeviceOk(dev[d]) /\ NodeOk(dev[d]) /\ node \in [Nodes -> NodeType]
    BY Types DEF DeviceInv
<1>2. /\ dev[d].pc = "reread"
      /\ UNCHANGED node /\ dev' = [dev EXCEPT ![d] = D]
    BY DEF RereadSame, Goes, WorkRuns, Readable
<1>3. Around'
    BY <1>1, <1>2 DEF RereadSame, ReadFails, Around
<1>5. /\ D \in DevType /\ D.pc = "refresh_same"
      /\ D.state = dev[d].state /\ D.node = dev[d].node /\ D.races = dev[d].races /\ D.workfn = dev[d].workfn /\ D.queued = dev[d].queued /\ D.added = dev[d].added /\ D.found = dev[d].found
    BY <1>1, <1>2, ZeroGen DEF DevType, Places, States, CardType, Around, Retried, Gone, Schedule, ToRunning
<1> HIDE DEF D
<1>6. (Astray(D) <=> Astray(dev[d])) /\ ("lost" \in dev[d].races <=> "lost" \in D.races)
    BY <1>5 DEF Astray
<1>7. DeviceOk(D) /\ NodeOk(D)
    BY <1>1, <1>2, <1>5, <1>6 DEF DeviceOk, NodeOk, WorkOk, Fresh, Early, Refreshing
<1>8. /\ D.state = "RUNNING" => dev[d].state = "RUNNING" \/ InTree(D.node) \/ "lost" \in D.races
      /\ Known(dev[d]) => Known(D)
      /\ Keeps(dev[d], D)
    BY <1>1, <1>2, <1>5, <1>6 DEF Keeps, Revived, Known, NodeOk, DeviceOk, WorkOk, Fresh, Early, Refreshing
<1>9. QED
    BY <1>2, <1>3, <1>5, <1>6, <1>7, <1>8, OneDevice DEF Refreshing

LEMMA ChangedRom ==
    ASSUME DeviceInv, NEW d \in Devs, RereadChanged(d)
    PROVE  DeviceInv'
<1> DEFINE D == [dev[d] EXCEPT !.pc = "refresh_read", !.rgen = dev[d].gen, !.units = 0]
<1>1. dev[d] \in DevType /\ Around /\ DeviceOk(dev[d]) /\ NodeOk(dev[d]) /\ node \in [Nodes -> NodeType]
    BY Types DEF DeviceInv
<1>2. /\ dev[d].pc = "reread"
      /\ UNCHANGED node /\ dev' = [dev EXCEPT ![d] = D]
    BY DEF RereadChanged, Goes, WorkRuns, Readable
<1>3. Around'
    BY <1>1, <1>2 DEF RereadChanged, ReadFails, Around
<1>5. /\ D \in DevType /\ D.pc = "refresh_read"
      /\ D.state = dev[d].state /\ D.node = dev[d].node /\ D.races = dev[d].races /\ D.workfn = dev[d].workfn /\ D.queued = dev[d].queued /\ D.added = dev[d].added /\ D.found = dev[d].found
    BY <1>1, <1>2, ZeroGen DEF DevType, Places, States, CardType, Around, Retried, Gone, Schedule, ToRunning
<1> HIDE DEF D
<1>6. (Astray(D) <=> Astray(dev[d])) /\ ("lost" \in dev[d].races <=> "lost" \in D.races)
    BY <1>5 DEF Astray
<1>7. DeviceOk(D) /\ NodeOk(D)
    BY <1>1, <1>2, <1>5, <1>6 DEF DeviceOk, NodeOk, WorkOk, Fresh, Early, Refreshing
<1>8. /\ D.state = "RUNNING" => dev[d].state = "RUNNING" \/ InTree(D.node) \/ "lost" \in D.races
      /\ Known(dev[d]) => Known(D)
      /\ Keeps(dev[d], D)
    BY <1>1, <1>2, <1>5, <1>6 DEF Keeps, Revived, Known, NodeOk, DeviceOk, WorkOk, Fresh, Early, Refreshing
<1>9. QED
    BY <1>2, <1>3, <1>5, <1>6, <1>7, <1>8, OneDevice DEF Refreshing

LEMMA RereadsRom ==
    ASSUME DeviceInv, NEW d \in Devs, RefreshReads(d)
    PROVE  DeviceInv'
<1> DEFINE D == [dev[d] EXCEPT !.pc = "refresh_units", !.rom = node[dev[d].node].rom]
<1>1. dev[d] \in DevType /\ Around /\ DeviceOk(dev[d]) /\ NodeOk(dev[d]) /\ node \in [Nodes -> NodeType]
    BY Types DEF DeviceInv
<1>2. /\ dev[d].pc = "refresh_read" /\ InTree(dev[d].node)
      /\ UNCHANGED node /\ dev' = [dev EXCEPT ![d] = D]
    BY DEF RefreshReads, Goes, WorkRuns, Readable
<1>3. Around'
    BY <1>1, <1>2 DEF RefreshReads, ReadFails, Around
<1>4. node[dev[d].node].rom \in Roms \cup {None}
    BY <1>1, <1>2 DEF DeviceOk, NodeType
<1>5. /\ D \in DevType /\ D.pc = "refresh_units"
      /\ D.state = dev[d].state /\ D.node = dev[d].node /\ D.races = dev[d].races /\ D.workfn = dev[d].workfn /\ D.queued = dev[d].queued /\ D.added = dev[d].added /\ D.found = dev[d].found
    BY <1>1, <1>2, ZeroGen, <1>4 DEF DevType, Places, States, CardType, Around, Retried, Gone, Schedule, ToRunning
<1> HIDE DEF D
<1>6. (Astray(D) <=> Astray(dev[d])) /\ ("lost" \in dev[d].races <=> "lost" \in D.races)
    BY <1>5 DEF Astray
<1>7. DeviceOk(D) /\ NodeOk(D)
    BY <1>1, <1>2, <1>5, <1>6 DEF DeviceOk, NodeOk, WorkOk, Fresh, Early, Refreshing
<1>8. /\ D.state = "RUNNING" => dev[d].state = "RUNNING" \/ InTree(D.node) \/ "lost" \in D.races
      /\ Known(dev[d]) => Known(D)
      /\ Keeps(dev[d], D)
    BY <1>1, <1>2, <1>5, <1>6 DEF Keeps, Revived, Known, NodeOk, DeviceOk, WorkOk, Fresh, Early, Refreshing
<1>9. QED
    BY <1>2, <1>3, <1>5, <1>6, <1>7, <1>8, OneDevice DEF Refreshing

LEMMA CreatesUnits ==
    ASSUME DeviceInv, NEW d \in Devs, RefreshUnits(d)
    PROVE  DeviceInv'
<1> DEFINE D == [dev[d] EXCEPT !.pc = "refresh_run", !.units = dev[d].gen]
<1>1. dev[d] \in DevType /\ Around /\ DeviceOk(dev[d]) /\ NodeOk(dev[d]) /\ node \in [Nodes -> NodeType]
    BY Types DEF DeviceInv
<1>2. /\ dev[d].pc = "refresh_units"
      /\ UNCHANGED node /\ dev' = [dev EXCEPT ![d] = D]
    BY DEF RefreshUnits, Goes, WorkRuns, Readable
<1>3. Around'
    BY <1>1, <1>2 DEF RefreshUnits, ReadFails, Around
<1>5. /\ D \in DevType /\ D.pc = "refresh_run"
      /\ D.state = dev[d].state /\ D.node = dev[d].node /\ D.races = dev[d].races /\ D.workfn = dev[d].workfn /\ D.queued = dev[d].queued /\ D.added = dev[d].added /\ D.found = dev[d].found
    BY <1>1, <1>2, ZeroGen DEF DevType, Places, States, CardType, Around, Retried, Gone, Schedule, ToRunning
<1> HIDE DEF D
<1>6. (Astray(D) <=> Astray(dev[d])) /\ ("lost" \in dev[d].races <=> "lost" \in D.races)
    BY <1>5 DEF Astray
<1>7. DeviceOk(D) /\ NodeOk(D)
    BY <1>1, <1>2, <1>5, <1>6 DEF DeviceOk, NodeOk, WorkOk, Fresh, Early, Refreshing
<1>8. /\ D.state = "RUNNING" => dev[d].state = "RUNNING" \/ InTree(D.node) \/ "lost" \in D.races
      /\ Known(dev[d]) => Known(D)
      /\ Keeps(dev[d], D)
    BY <1>1, <1>2, <1>5, <1>6 DEF Keeps, Revived, Known, NodeOk, DeviceOk, WorkOk, Fresh, Early, Refreshing
<1>9. QED
    BY <1>2, <1>3, <1>5, <1>6, <1>7, <1>8, OneDevice DEF Refreshing

LEMMA RunsAgain ==
    ASSUME DeviceInv, NEW d \in Devs, RefreshRuns(d), dev[d].state # "GONE"
    PROVE  DeviceInv'
<1> DEFINE S == IF dev[d].state = "INITIALIZING" THEN "RUNNING" ELSE dev[d].state
           P == IF dev[d].pc = "refresh_same" THEN "update" ELSE "idle"
           D == [dev[d] EXCEPT !.state = S, !.pc = P, !.retries = 0]
<1>1. dev[d] \in DevType /\ Around /\ DeviceOk(dev[d]) /\ NodeOk(dev[d]) /\ node \in [Nodes -> NodeType]
    BY Types DEF DeviceInv
<1>2. /\ dev[d].pc \in {"refresh_same", "refresh_run"} /\ dev[d].state # "GONE"
      /\ UNCHANGED node /\ dev' = [dev EXCEPT ![d] = D]
    BY <1>1 DEF RefreshRuns, Goes, ToRunning, DevType
<1>3. Around'
    BY <1>1, <1>2 DEF RefreshRuns, ReadFails, Around
<1>4. /\ S \in States \cup {"free"} /\ P \in {"update", "idle"}
      /\ dev[d].state = "INITIALIZING" => S = "RUNNING"
      /\ dev[d].state # "INITIALIZING" => S = dev[d].state
    BY <1>1 DEF DevType, States
<1> HIDE DEF S, P
<1>5. /\ D \in DevType /\ D.state = S /\ D.pc = P
      /\ D.node = dev[d].node /\ D.races = dev[d].races /\ D.workfn = dev[d].workfn
      /\ D.queued = dev[d].queued /\ D.added = dev[d].added
  <2>1. D \in DevType
      BY <1>1, <1>4, ZeroGen, ZenonT(60) DEF DevType, Places
  <2>2. /\ D.state = S /\ D.pc = P
        /\ D.node = dev[d].node /\ D.races = dev[d].races /\ D.workfn = dev[d].workfn
        /\ D.queued = dev[d].queued /\ D.added = dev[d].added
      BY <1>1, <1>4, ZeroGen DEF DevType, Places
  <2>3. QED
      BY <2>1, <2>2
<1> HIDE DEF D
<1>6. (Astray(D) <=> Astray(dev[d])) /\ ("lost" \in dev[d].races <=> "lost" \in D.races)
    BY <1>5 DEF Astray
<1>7. DeviceOk(D) /\ NodeOk(D)
    BY <1>1, <1>2, <1>4, <1>5, <1>6 DEF DeviceOk, NodeOk, WorkOk, Fresh, Early, Refreshing
<1>8. /\ D.state = "RUNNING" => dev[d].state = "RUNNING" \/ InTree(D.node) \/ "lost" \in D.races
      /\ Known(dev[d]) => Known(D)
      /\ Keeps(dev[d], D)
    BY <1>1, <1>2, <1>4, <1>5, <1>6 DEF Keeps, Revived, Known, NodeOk, DeviceOk, WorkOk, Fresh, Early, Refreshing
<1>9. QED
    BY <1>2, <1>3, <1>4, <1>5, <1>6, <1>7, <1>8, OneDevice DEF Refreshing

LEMMA ShutsDownLater ==
    ASSUME DeviceInv, NEW d \in Devs, ShutdownLater(d)
    PROVE  DeviceInv'
<1> DEFINE D == [dev[d] EXCEPT !.queued = TRUE, !.pc = "idle"]
<1>1. dev[d] \in DevType /\ Around /\ DeviceOk(dev[d]) /\ NodeOk(dev[d]) /\ node \in [Nodes -> NodeType]
    BY Types DEF DeviceInv
<1>2. /\ dev[d].pc = "picked" /\ dev[d].workfn = "shutdown"
      /\ UNCHANGED node /\ dev' = [dev EXCEPT ![d] = D]
    BY DEF ShutdownLater, Goes, WorkRuns, Readable
<1>3. Around'
    BY <1>1, <1>2 DEF ShutdownLater, ReadFails, Around
<1>5. /\ D \in DevType /\ D.queued = TRUE /\ D.pc = "idle"
      /\ D.state = dev[d].state /\ D.node = dev[d].node /\ D.races = dev[d].races /\ D.workfn = dev[d].workfn /\ D.added = dev[d].added /\ D.found = dev[d].found
    BY <1>1, <1>2, ZeroGen DEF DevType, Places, States, CardType, Around, Retried, Gone, Schedule, ToRunning
<1> HIDE DEF D
<1>6. (Astray(D) <=> Astray(dev[d])) /\ ("lost" \in dev[d].races <=> "lost" \in D.races)
    BY <1>5 DEF Astray
<1>7. DeviceOk(D) /\ NodeOk(D)
    BY <1>1, <1>2, <1>5, <1>6 DEF DeviceOk, NodeOk, WorkOk, Fresh, Early, Refreshing
<1>8. /\ D.state = "RUNNING" => dev[d].state = "RUNNING" \/ InTree(D.node) \/ "lost" \in D.races
      /\ Known(dev[d]) => Known(D)
      /\ Keeps(dev[d], D)
    BY <1>1, <1>2, <1>5, <1>6 DEF Keeps, Revived, Known, NodeOk, DeviceOk, WorkOk, Fresh, Early, Refreshing
<1>9. QED
    BY <1>2, <1>3, <1>5, <1>6, <1>7, <1>8, OneDevice DEF Refreshing

LEMMA RefusesShutdown ==
    ASSUME DeviceInv, NEW d \in Devs, ShutdownRefused(d)
    PROVE  DeviceInv'
<1> DEFINE D == [dev[d] EXCEPT !.pc = "idle"]
<1>1. dev[d] \in DevType /\ Around /\ DeviceOk(dev[d]) /\ NodeOk(dev[d]) /\ node \in [Nodes -> NodeType]
    BY Types DEF DeviceInv
<1>2. /\ dev[d].pc = "picked" /\ dev[d].workfn = "shutdown"
      /\ UNCHANGED node /\ dev' = [dev EXCEPT ![d] = D]
    BY DEF ShutdownRefused, Goes, WorkRuns, Readable
<1>3. Around'
    BY <1>1, <1>2 DEF ShutdownRefused, ReadFails, Around
<1>5. /\ D \in DevType /\ D.pc = "idle"
      /\ D.state = dev[d].state /\ D.node = dev[d].node /\ D.races = dev[d].races /\ D.workfn = dev[d].workfn /\ D.queued = dev[d].queued /\ D.added = dev[d].added /\ D.found = dev[d].found
    BY <1>1, <1>2, ZeroGen DEF DevType, Places, States, CardType, Around, Retried, Gone, Schedule, ToRunning
<1> HIDE DEF D
<1>6. (Astray(D) <=> Astray(dev[d])) /\ ("lost" \in dev[d].races <=> "lost" \in D.races)
    BY <1>5 DEF Astray
<1>7. DeviceOk(D) /\ NodeOk(D)
    BY <1>1, <1>2, <1>5, <1>6 DEF DeviceOk, NodeOk, WorkOk, Fresh, Early, Refreshing
<1>8. /\ D.state = "RUNNING" => dev[d].state = "RUNNING" \/ InTree(D.node) \/ "lost" \in D.races
      /\ Known(dev[d]) => Known(D)
      /\ Keeps(dev[d], D)
    BY <1>1, <1>2, <1>5, <1>6 DEF Keeps, Revived, Known, NodeOk, DeviceOk, WorkOk, Fresh, Early, Refreshing
<1>9. QED
    BY <1>2, <1>3, <1>5, <1>6, <1>7, <1>8, OneDevice DEF Refreshing

LEMMA ShutsDown ==
    ASSUME DeviceInv, NEW d \in Devs, Shutdown(d)
    PROVE  DeviceInv'
<1> DEFINE D == [dev[d] EXCEPT !.state = "SHUTDOWN", !.pc = "unregister"]
<1>1. dev[d] \in DevType /\ Around /\ DeviceOk(dev[d]) /\ NodeOk(dev[d]) /\ node \in [Nodes -> NodeType]
    BY Types DEF DeviceInv
<1>2. /\ dev[d].pc = "picked" /\ dev[d].workfn = "shutdown" /\ dev[d].state = "GONE"
      /\ UNCHANGED node /\ dev' = [dev EXCEPT ![d] = D]
    BY DEF Shutdown, Goes, WorkRuns, Readable
<1>3. Around'
    BY <1>1, <1>2 DEF Shutdown, ReadFails, Around
<1>5. /\ D \in DevType /\ D.state = "SHUTDOWN" /\ D.pc = "unregister"
      /\ D.node = dev[d].node /\ D.races = dev[d].races /\ D.workfn = dev[d].workfn /\ D.queued = dev[d].queued /\ D.added = dev[d].added /\ D.found = dev[d].found
    BY <1>1, <1>2, ZeroGen DEF DevType, Places, States, CardType, Around, Retried, Gone, Schedule, ToRunning
<1> HIDE DEF D
<1>6. (Astray(D) <=> Astray(dev[d])) /\ ("lost" \in dev[d].races <=> "lost" \in D.races)
    BY <1>5 DEF Astray
<1>7. DeviceOk(D) /\ NodeOk(D)
    BY <1>1, <1>2, <1>5, <1>6 DEF DeviceOk, NodeOk, WorkOk, Fresh, Early, Refreshing
<1>8. /\ D.state = "RUNNING" => dev[d].state = "RUNNING" \/ InTree(D.node) \/ "lost" \in D.races
      /\ Known(dev[d]) => Known(D)
      /\ Keeps(dev[d], D)
    BY <1>1, <1>2, <1>5, <1>6 DEF Keeps, Revived, Known, NodeOk, DeviceOk, WorkOk, Fresh, Early, Refreshing
<1>9. QED
    BY <1>2, <1>3, <1>5, <1>6, <1>7, <1>8, OneDevice DEF Refreshing

-----------------------------------------------------------------------------
(* Devices that are freed, and revived.                                     *)

\* What the memory of a freed device holds.
Cleared(F) ==
  /\ F \in DevType /\ F.state = "free" /\ F.node = None /\ F.pc = "idle" /\ ~F.added
  /\ F.queued => Astray(F)

LEMMA RemainsOk ==
    ASSUME NEW D \in DevType, NEW work \in BOOLEAN, work => Astray(D)
    PROVE  Cleared(Remains(D, work))
<1> DEFINE R == IF work THEN D.races ELSE {}
           F == [FreeDevice EXCEPT !.queued = work, !.races = R]
<1>1. R \in SUBSET Races /\ (work => R = D.races)
    BY DEF DevType
<1> HIDE DEF R
<1>2. FreeDevice \in DevType /\ FreeDevice.state = "free" /\ FreeDevice.node = None
      /\ FreeDevice.pc = "idle" /\ FreeDevice.added = FALSE
    BY FreeDeviceType DEF FreeDevice
<1>3. Remains(D, work) = F
    BY DEF Remains, R
<1>4. F \in DevType /\ F.state = "free" /\ F.node = None /\ F.pc = "idle" /\ F.added = FALSE
      /\ F.queued = work /\ F.races = R
  <2>1. F \in DevType
    <3>1. FreeDevice \in DevType /\ R \in SUBSET Races /\ work \in BOOLEAN
        BY <1>1, <1>2
    <3>2. QED
        BY ONLY <3>1, ZenonT(60) DEF F, DevType
  <2>2. /\ F.state = "free" /\ F.node = None /\ F.pc = "idle" /\ F.added = FALSE
        /\ F.queued = work /\ F.races = R
      BY <1>1, <1>2 DEF DevType
  <2>3. QED
      BY <2>1, <2>2
<1> HIDE DEF F
<1>5. QED
    BY <1>1, <1>3, <1>4 DEF Cleared, Astray

LEMMA ForgottenNode ==
    ASSUME NEW N \in [Nodes -> NodeType], NEW D \in DevType, D.node \in Nodes
    PROVE  /\ Forgotten(N, D) \in [Nodes -> NodeType]
           /\ \A n \in Nodes \ {D.node} : Forgotten(N, D)[n] = N[n]
           /\ Forgotten(N, D)[D.node].device = None /\ Forgotten(N, D)[D.node].rom = N[D.node].rom
           /\ Forgotten(N, D)[D.node].at = IF N[D.node].at = "lost" THEN "none" ELSE N[D.node].at
<1> DEFINE k == D.node
           b == D.races \ {"unheard"} # {}
           a == IF N[k].at = "lost" THEN "none" ELSE N[k].at
           M == [N[k] EXCEPT !.device = None, !.raced = b, !.at = a]
<1>1. Forgotten(N, D) = [N EXCEPT ![k] = M]
    BY DEF Forgotten
<1>2. b \in BOOLEAN /\ a \in {"none", "on", "off", "lost"} /\ N[k] \in NodeType
    BY DEF NodeType
<1> HIDE DEF b, a
<1>3. M \in NodeType /\ M.device = None /\ M.rom = N[k].rom /\ M.at = a
    BY <1>2 DEF NodeType
<1> HIDE DEF M
<1>4. QED
    BY <1>1, <1>3 DEF a

\* The devices of S are freed, which nobody else has a reference to.
LEMMA Frees ==
    ASSUME DeviceInv, Around', NEW S \in SUBSET Devs,
           dev' \in [Devs -> DevType], node' \in [Nodes -> NodeType],
           \A x \in S : dev[x].state # "free" /\ Cleared(dev'[x]),
           \A x \in Devs \ S : dev'[x] = dev[x],
           \A n \in Nodes : /\ node'[n].device = IF \E x \in S : dev[x].node = n THEN None ELSE node[n].device
                            /\ node'[n].rom = node[n].rom
                            /\ node'[n].at \in {"on", "off"} <=> InTree(n)
                            /\ node'[n].at = "none" => node'[n].device = None,
           \A e \in Devs \ S : dev[e].pc \in {"init_swap", "init_drop"} => dev[e].found \notin S,
           \A x \in S : dev[x].pc # "init_swap"
    PROVE  DeviceInv'
<1>1. /\ node \in [Nodes -> NodeType] /\ dev \in [Devs -> DevType]
      /\ LinksAgree /\ RunningHasNode /\ RevivalOk
      /\ \A x \in Devs : DeviceOk(dev[x]) /\ NodeOk(dev[x])
      /\ NodesOk
    BY Types DEF DeviceInv
<1>2. TypeOK'
    BY DEF TypeOK, Around, CardType, NodeType, DevType
<1>3. LinksAgree'
  <2> SUFFICES ASSUME NEW x \in Devs, NEW n \in Nodes PROVE node'[n].device = x <=> dev'[x].node = n
      BY DEF LinksAgree
  <2>1. CASE x \in S
    <3>1. dev'[x].node # n
        BY <2>1, DeviceAssumption DEF Cleared
    <3>2. node'[n].device # x
        BY <1>1, <2>1, DeviceAssumption DEF LinksAgree
    <3>3. QED
        BY <3>1, <3>2
  <2>2. CASE x \notin S
    <3>1. dev'[x] = dev[x] /\ (node[n].device = x <=> dev[x].node = n)
        BY <1>1, <2>2 DEF LinksAgree
    <3>2. (\E y \in S : dev[y].node = n) => dev[x].node # n
        BY <1>1, <2>2 DEF LinksAgree
    <3>3. QED
        BY <3>1, <3>2, DeviceAssumption
  <2>3. QED
      BY <2>1, <2>2
<1>4. \A x \in Devs : dev'[x].pc \in {"init_swap", "init_drop"} => x \notin S /\ dev'[x] = dev[x]
    BY DEF Cleared
<1>5. RevivalOk'
  <2>1. ASSUME NEW y \in Devs, dev'[y].pc \in {"init_swap", "init_drop"}
        PROVE  dev[y].found \in Devs /\ dev'[dev[y].found] = dev[dev[y].found]
               /\ Known(dev[dev[y].found])
      BY <1>1, <1>4, <2>1 DEF RevivalOk
  <2>2. QED
      BY <1>1, <1>4, <2>1, RevivalKept DEF Keeps
<1>6. (\A x \in Devs : DeviceOk(dev[x]) /\ NodeOk(dev[x]))'
  <2> SUFFICES ASSUME NEW x \in Devs PROVE (DeviceOk(dev[x]) /\ NodeOk(dev[x]))'
      OBVIOUS
  <2>1. CASE x \in S
    <3>1. DeviceOk(dev'[x]) /\ NodeOk(dev'[x])
        BY <2>1 DEF Cleared, DeviceOk, NodeOk, WorkOk, Fresh, Early, Refreshing
    <3>2. dev'[x].state = "free"
        BY <2>1 DEF Cleared
    <3>3. QED
        BY <3>1, <3>2 DEF DeviceOk, NodeOk, WorkOk, Fresh, Astray
  <2>2. CASE x \notin S
    <3>1. DeviceOk(dev[x])'
        BY <1>1, <2>2 DEF DeviceOk, WorkOk, Fresh, Astray
    <3>2. NodeOk(dev[x])'
      <4>1. dev[x].state = "INITIALIZING" => dev[x].node \in Nodes
          BY <1>1 DEF DeviceOk
      <4>2. QED
          BY <1>1, <2>2, <4>1 DEF NodeOk, InTree
    <3>3. QED
        BY <3>1, <3>2
  <2>3. QED
      BY <2>1, <2>2
<1>7. RunningHasNode'
  <2> SUFFICES ASSUME NEW x \in Devs, dev'[x].state = "RUNNING", ~BeingRevived(x)', "lost" \notin dev'[x].races
               PROVE  node'[dev'[x].node].at \in {"on", "off"}
      BY DEF RunningHasNode, InTree
  <2>1. x \notin S /\ dev'[x] = dev[x]
      BY DEF Cleared
  <2>2. ~BeingRevived(x)
      BY DEF BeingRevived
  <2>3. dev[x].node \in Nodes /\ InTree(dev[x].node)
      BY <1>1, <2>1, <2>2 DEF RunningHasNode, DeviceOk
  <2>4. QED
      BY <2>1, <2>3
<1>8. NodesOk'
    BY <1>1 DEF NodesOk, InTree
<1>9. QED
    BY <1>2, <1>3, <1>5, <1>6, <1>7, <1>8 DEF DeviceInv

LEMMA Releases ==
    ASSUME DeviceInv, Around', NEW d \in Devs,
           dev[d].pc \in {"init_read", "init_drop", "init_add", "unregister"},
           dev[d].pc = "unregister" => ~Referenced(d, d), Release(d)
    PROVE  DeviceInv'
<1>1. /\ node \in [Nodes -> NodeType] /\ dev \in [Devs -> DevType]
      /\ LinksAgree /\ RevivalOk /\ NodesOk
      /\ \A x \in Devs : DeviceOk(dev[x])
    BY Types DEF DeviceInv
<1> DEFINE F == Remains(dev[d], dev[d].queued)
           N == Forgotten(node, dev[d])
<1>2. node' = N /\ dev' = [dev EXCEPT ![d] = F]
    BY DEF Release, Goes
<1>3. dev[d].state # "free" /\ dev[d].node \in Nodes /\ (dev[d].queued => Astray(dev[d]))
      /\ dev[d] \in DevType /\ dev[d].queued \in BOOLEAN
    BY <1>1 DEF DeviceOk, Early, DevType
<1>4. Cleared(F)
    BY <1>3, RemainsOk
<1>5. /\ N \in [Nodes -> NodeType] /\ \A n \in Nodes \ {dev[d].node} : N[n] = node[n]
      /\ N[dev[d].node].device = None /\ N[dev[d].node].rom = node[dev[d].node].rom
      /\ N[dev[d].node].at = IF node[dev[d].node].at = "lost" THEN "none" ELSE node[dev[d].node].at
    BY <1>1, <1>3, ForgottenNode
<1> HIDE DEF F, N
<1>6. dev' \in [Devs -> DevType] /\ dev'[d] = F /\ \A x \in Devs \ {d} : dev'[x] = dev[x]
    BY <1>1, <1>2, <1>4 DEF Cleared
<1>7. \A n \in Nodes : /\ node'[n].device = IF \E x \in {d} : dev[x].node = n THEN None ELSE node[n].device
                       /\ node'[n].rom = node[n].rom
                       /\ node'[n].at \in {"on", "off"} <=> InTree(n)
                       /\ node'[n].at = "none" => node'[n].device = None
    BY <1>1, <1>2, <1>5 DEF InTree, NodesOk
<1>8. ASSUME NEW e \in Devs \ {d}, dev[e].pc \in {"init_swap", "init_drop"}
      PROVE  dev[e].found \notin {d}
  <2>1. Known(dev[dev[e].found])
      BY <1>1, <1>8 DEF RevivalOk
  <2>2. CASE dev[d].pc = "unregister"
      BY <1>8, <2>2 DEF Referenced
  <2>3. CASE dev[d].pc # "unregister"
      BY <1>1, <2>1, <2>3 DEF Known, DeviceOk, Early
  <2>4. QED
      BY <2>2, <2>3
<1>9. /\ {d} \in SUBSET Devs /\ node' \in [Nodes -> NodeType]
      /\ \A x \in {d} : dev[x].state # "free" /\ Cleared(dev'[x]) /\ dev[x].pc # "init_swap"
    BY <1>2, <1>3, <1>4, <1>5, <1>6
<1>10. QED
    BY <1>6, <1>7, <1>8, <1>9, Frees

LEMMA Drops ==
    ASSUME DeviceInv, NEW d \in Devs, InitDrops(d)
    PROVE  DeviceInv'
<1> DEFINE r == dev[d].found
<1>1. /\ node \in [Nodes -> NodeType] /\ dev \in [Devs -> DevType] /\ Around
      /\ LinksAgree /\ RevivalOk /\ NodesOk
      /\ \A x \in Devs : DeviceOk(dev[x])
    BY Types DEF DeviceInv
<1>2. dev[d].pc = "init_drop" /\ Around'
    BY <1>1 DEF InitDrops, Around
<1>3. CASE ~(~dev[r].added /\ ~Referenced(r, d))
    BY <1>2, <1>3, Releases DEF InitDrops
<1>4. CASE ~dev[r].added /\ ~Referenced(r, d)
  <2>1. r \in Devs /\ Known(dev[r]) /\ ~dev[d].added /\ dev[d].workfn = "init" /\ ~dev[d].queued
      BY <1>1, <1>2 DEF RevivalOk, DeviceOk, Early
  <2>2. r # d
      BY <2>1 DEF Known
  <2>3. /\ dev[d].state # "free" /\ dev[d].node \in Nodes /\ dev[r].state # "free" /\ dev[r].node \in Nodes
        /\ dev[r].queued \/ dev[r].pc # "idle" => Astray(dev[r])
      BY <1>1, <1>2, <1>4, <2>1 DEF DeviceOk, WorkOk, Known
  <2> DEFINE F == Remains(dev[d], dev[d].queued)
             work == dev[r].queued \/ dev[r].pc # "idle"
             G == Remains(dev[r], work)
             M == Forgotten(node, dev[r])
             N == Forgotten(M, dev[d])
  <2>4. node' = N /\ dev' = [dev EXCEPT ![d] = F, ![r] = G]
      BY <1>1, <1>4, <2>1, <2>2 DEF InitDrops
  <2>5. dev[d] \in DevType /\ dev[r] \in DevType /\ dev[d].queued \in BOOLEAN /\ work \in BOOLEAN
      BY <1>1, <2>1 DEF DevType
  <2>6. Cleared(F) /\ Cleared(G)
      BY <2>1, <2>3, <2>5, RemainsOk
  <2> HIDE DEF F, G, work
  <2>7. /\ M \in [Nodes -> NodeType] /\ \A n \in Nodes \ {dev[r].node} : M[n] = node[n]
        /\ M[dev[r].node].device = None /\ M[dev[r].node].rom = node[dev[r].node].rom
        /\ M[dev[r].node].at = IF node[dev[r].node].at = "lost" THEN "none" ELSE node[dev[r].node].at
      BY <1>1, <2>3, <2>5, ForgottenNode
  <2> HIDE DEF M
  <2>8. /\ N \in [Nodes -> NodeType] /\ \A n \in Nodes \ {dev[d].node} : N[n] = M[n]
        /\ N[dev[d].node].device = None /\ N[dev[d].node].rom = M[dev[d].node].rom
        /\ N[dev[d].node].at = IF M[dev[d].node].at = "lost" THEN "none" ELSE M[dev[d].node].at
      BY <2>3, <2>5, <2>7, ForgottenNode
  <2> HIDE DEF N
  <2>9. dev' \in [Devs -> DevType] /\ dev'[d] = F /\ dev'[r] = G /\ \A x \in Devs \ {d, r} : dev'[x] = dev[x]
      BY <1>1, <2>1, <2>2, <2>4, <2>6 DEF Cleared
  <2> HIDE DEF r
  <2>10. \A n \in Nodes :
           /\ node'[n].device = IF \E x \in {d, r} : dev[x].node = n THEN None ELSE node[n].device
           /\ node'[n].rom = node[n].rom
           /\ node'[n].at \in {"on", "off"} <=> InTree(n)
           /\ node'[n].at = "none" => node'[n].device = None
    <3> SUFFICES ASSUME NEW n \in Nodes
                 PROVE
           /\ node'[n].device = IF \E x \in {d, r} : dev[x].node = n THEN None ELSE node[n].device
           /\ node'[n].rom = node[n].rom
           /\ node'[n].at \in {"on", "off"} <=> InTree(n)
           /\ node'[n].at = "none" => node'[n].device = None
        OBVIOUS
    <3>1. /\ M[n].device = IF dev[r].node = n THEN None ELSE node[n].device
          /\ M[n].rom = node[n].rom /\ (M[n].at \in {"on", "off"} <=> InTree(n))
          /\ M[n].at = "none" => M[n].device = None
        BY <1>1, <2>7 DEF InTree, NodesOk
    <3>2. /\ N[n].device = IF dev[d].node = n THEN None ELSE M[n].device
          /\ N[n].rom = M[n].rom /\ (N[n].at \in {"on", "off"} <=> M[n].at \in {"on", "off"})
          /\ N[n].at = "none" => N[n].device = None
        BY <2>8, <3>1
    <3>3. QED
        BY <2>4, <3>1, <3>2
  <2>11. ASSUME NEW e \in Devs \ {d, r}, dev[e].pc \in {"init_swap", "init_drop"}
         PROVE  dev[e].found \notin {d, r}
    <3>1. Known(dev[dev[e].found])
        BY <1>1, <2>11 DEF RevivalOk
    <3>2. dev[e].found # d
        BY <2>1, <3>1 DEF Known
    <3>3. QED
        BY <1>4, <2>11, <3>2 DEF Referenced
  <2>12. dev[r].pc # "init_swap"
      BY <1>1, <2>1 DEF DeviceOk, Early, Known
  <2>13. \A x \in {d, r} : dev[x].state # "free" /\ Cleared(dev'[x]) /\ dev[x].pc # "init_swap"
      BY <1>2, <2>3, <2>6, <2>9, <2>12
  <2>14. {d, r} \in SUBSET Devs
      BY <2>1 DEF r
  <2>15. node' \in [Nodes -> NodeType]
      BY <2>4, <2>8
  <2>16. QED
      BY <1>2, <2>9, <2>10, <2>11, <2>13, <2>14, <2>15, Frees
<1>5. QED
    BY <1>3, <1>4

LEMMA Unregisters ==
    ASSUME DeviceInv, NEW d \in Devs, Unregister(d)
    PROVE  DeviceInv'
<1> DEFINE D == [dev[d] EXCEPT !.pc = "idle", !.added = FALSE]
<1>1. dev[d] \in DevType /\ Around /\ DeviceOk(dev[d]) /\ NodeOk(dev[d])
    BY Types DEF DeviceInv
<1>2. dev[d].pc = "unregister" /\ Around'
    BY <1>1 DEF Unregister, Around
<1>3. CASE ~Referenced(d, d)
    BY <1>2, <1>3, Releases DEF Unregister
<1>4. CASE Referenced(d, d)
  <2>1. UNCHANGED node /\ dev' = [dev EXCEPT ![d] = D]
      BY <1>4 DEF Unregister, Goes
  <2>2. /\ D \in DevType /\ D.pc = "idle" /\ D.added = FALSE
        /\ D.state = dev[d].state /\ D.node = dev[d].node /\ D.races = dev[d].races
        /\ D.workfn = dev[d].workfn /\ D.queued = dev[d].queued
      BY <1>1 DEF DevType, Places
  <2> HIDE DEF D
  <2>3. (Astray(D) <=> Astray(dev[d])) /\ ("lost" \in dev[d].races <=> "lost" \in D.races)
      BY <2>2 DEF Astray
  <2>4. DeviceOk(D) /\ NodeOk(D)
      BY <1>1, <1>2, <2>2, <2>3 DEF DeviceOk, NodeOk, WorkOk, Fresh, Early, Refreshing
  <2>5. (Known(dev[d]) => Known(D)) /\ Keeps(dev[d], D)
      BY <1>1, <1>2, <2>2, <2>3 DEF Keeps, Revived, Known, DeviceOk
  <2>6. QED
      BY <1>2, <2>1, <2>2, <2>3, <2>4, <2>5, OneDevice
<1>5. QED
    BY <1>3, <1>4

LEMMA Revives ==
    ASSUME DeviceInv, NEW d \in Devs, InitRevives(d)
    PROVE  DeviceInv'
<1>1. /\ node \in [Nodes -> NodeType] /\ dev \in [Devs -> DevType] /\ Around
      /\ LinksAgree /\ RunningHasNode /\ RevivalOk
      /\ \A x \in Devs : DeviceOk(dev[x]) /\ NodeOk(dev[x])
      /\ NodesOk
    BY Types DEF DeviceInv
<1>2. PICK r \in Devs :
        /\ dev[r].added /\ dev[r].state = "GONE"
        /\ dev' = [dev EXCEPT ![r].state = "RUNNING",
                              ![r].races = IF AtWork(dev[r]) THEN @ \cup {"met"} ELSE @,
                              ![d].pc = "init_swap", ![d].found = r]
    BY DEF InitRevives, Matches
<1>3. dev[d].pc = "init_find" /\ UNCHANGED <<card, node, fails, env>>
    BY DEF InitRevives
<1>4. r # d /\ ~dev[d].added /\ dev[d].workfn = "init" /\ dev[d].state \in {"INITIALIZING", "GONE"}
    BY <1>1, <1>2, <1>3 DEF DeviceOk, Early, WorkOk, Fresh
<1> DEFINE M == IF AtWork(dev[r]) THEN dev[r].races \cup {"met"} ELSE dev[r].races
           R == [dev[r] EXCEPT !.state = "RUNNING", !.races = M]
           D == [dev[d] EXCEPT !.pc = "init_swap", !.found = r]
<1>5. dev' = [dev EXCEPT ![r] = R, ![d] = D]
    BY <1>1, <1>2, <1>4
<1>6. M \in SUBSET Races /\ dev[r].races \subseteq M /\ (AtWork(dev[r]) => "met" \in M)
    BY <1>1 DEF DevType, Races
<1> HIDE DEF M
<1>7. /\ R \in DevType /\ R.state = "RUNNING" /\ R.races = M /\ R.node = dev[r].node /\ R.workfn = dev[r].workfn
      /\ R.queued = dev[r].queued /\ R.pc = dev[r].pc /\ R.added = dev[r].added /\ R.found = dev[r].found
  <2>1. R \in DevType
    <3>1. dev[r] \in DevType /\ M \in SUBSET Races
        BY <1>1, <1>6
    <3>2. QED
        BY ONLY <3>1, ZenonT(60) DEF R, DevType, States
  <2>2. /\ R.state = "RUNNING" /\ R.races = M /\ R.node = dev[r].node /\ R.workfn = dev[r].workfn
        /\ R.queued = dev[r].queued /\ R.pc = dev[r].pc /\ R.added = dev[r].added /\ R.found = dev[r].found
      BY <1>1, <1>6 DEF DevType, States
  <2>3. QED
      BY <2>1, <2>2
<1>8. /\ D \in DevType /\ D.state = dev[d].state /\ D.node = dev[d].node /\ D.workfn = dev[d].workfn
      /\ D.queued = dev[d].queued /\ D.pc = "init_swap" /\ D.added = dev[d].added /\ D.found = r
      /\ D.races = dev[d].races
  <2>1. dev[d] \in DevType /\ "init_swap" \in Places
      BY <1>1 DEF Places
  <2>2. D \in DevType
      BY <2>1 DEF DevType
  <2>3. QED
      BY <2>1, <2>2 DEF DevType
<1> HIDE DEF R, D
<1>9. /\ dev'[r] = R /\ dev'[d] = D /\ \A x \in Devs \ {r, d} : dev'[x] = dev[x]
      /\ dev' \in [Devs -> DevType]
    BY <1>1, <1>4, <1>5, <1>7, <1>8
<1>10. /\ Astray(dev[r]) \/ AtWork(dev[r]) => Astray(R)
       /\ Astray(D) <=> Astray(dev[d])
    BY <1>6, <1>7, <1>8 DEF Astray
<1>11. DeviceOk(R) /\ NodeOk(R) /\ DeviceOk(D) /\ NodeOk(D)
  <2>1. DeviceOk(dev[r]) /\ DeviceOk(dev[d]) /\ NodeOk(dev[d])
      BY <1>1
  <2>2. DeviceOk(D) /\ NodeOk(D)
      BY <1>3, <1>4, <1>8, <1>10, <2>1 DEF DeviceOk, NodeOk, WorkOk, Fresh, Early, Refreshing
  <2>3. DeviceOk(R)
      BY <1>2, <1>7, <1>10, <2>1 DEF DeviceOk, WorkOk, Early, Refreshing, AtWork
  <2>4. NodeOk(R)
      BY <1>7 DEF NodeOk
  <2>5. QED
      BY <2>2, <2>3, <2>4
<1>12. Known(R) /\ Revived(R) /\ ~Known(dev[d])
    BY <1>2, <1>4, <1>7, <1>10 DEF Known, Revived, AtWork
<1>13. TypeOK'
    BY <1>1, <1>3, <1>9 DEF TypeOK, Around, CardType, NodeType, DevType
<1>14. LinksAgree'
    BY <1>1, <1>3, <1>7, <1>8, <1>9 DEF LinksAgree
<1>15. \A x \in Devs \ {d} : dev'[x].pc = dev[x].pc /\ dev'[x].found = dev[x].found
    BY <1>7, <1>9
<1>16. RevivalOk'
  <2>1. ASSUME NEW y \in Devs, dev'[y].pc \in {"init_swap", "init_drop"}
        PROVE  /\ dev'[y].found \in Devs /\ dev'[y].found # d /\ Known(dev'[dev'[y].found])
               /\ y # d => dev[dev[y].found] = dev'[dev[y].found] \/ dev[y].found = r
    <3>1. CASE y = d
        BY <1>4, <1>8, <1>9, <1>12, <3>1
    <3>2. CASE y # d
      <4>1. dev'[y].found = dev[y].found /\ dev[y].found \in Devs /\ Known(dev[dev[y].found])
          BY <1>1, <1>15, <2>1, <3>2 DEF RevivalOk
      <4>2. QED
          BY <1>9, <1>12, <3>2, <4>1
    <3>3. QED
        BY <3>1, <3>2
  <2>2. ASSUME NEW y \in Devs, dev'[y].pc = "init_swap"
        PROVE  Revived(dev'[dev'[y].found])
    <3>1. CASE dev'[y].found = r
        BY <1>9, <1>12, <3>1
    <3>2. CASE dev'[y].found # r
      <4>1. y # d
          BY <1>8, <1>9, <3>2
      <4>2. dev'[y].found = dev[y].found /\ Revived(dev[dev[y].found])
          BY <1>1, <1>15, <2>2, <4>1 DEF RevivalOk
      <4>3. QED
          BY <2>1, <2>2, <3>2, <4>1, <4>2
    <3>3. QED
        BY <3>1, <3>2
  <2>3. ASSUME NEW x \in Devs, NEW y \in Devs, dev'[x].pc = "init_swap", dev'[y].pc = "init_swap",
               dev'[x].found = dev'[y].found, x # y
        PROVE  Astray(dev'[dev'[x].found]) \/ dev'[dev'[x].found].pc = "idle"
    <3>1. CASE dev'[x].found = r
      <4>1. PICK z \in Devs : z # d /\ dev[z].pc = "init_swap" /\ dev[z].found = r
          BY <1>15, <2>3, <3>1
      <4>2. Revived(dev[r])
          BY <1>1, <4>1 DEF RevivalOk
      <4>3. Astray(dev[r]) \/ dev[r].pc = "idle"
          BY <1>2, <4>2 DEF Revived
      <4>4. QED
          BY <1>7, <1>9, <1>10, <3>1, <4>3
    <3>2. CASE dev'[x].found # r
      <4>1. x # d /\ y # d
          BY <1>8, <1>9, <2>3, <3>2
      <4>2. dev[x].pc = "init_swap" /\ dev[y].pc = "init_swap" /\ dev[x].found = dev[y].found
            /\ dev'[x].found = dev[x].found
          BY <1>15, <2>3, <4>1
      <4>3. Astray(dev[dev[x].found]) \/ dev[dev[x].found].pc = "idle"
          BY <1>1, <2>3, <4>2 DEF RevivalOk
      <4>4. dev'[dev[x].found] = dev[dev[x].found]
          BY <2>1, <2>3, <3>2, <4>1, <4>2
      <4>5. QED
          BY <4>2, <4>3, <4>4
    <3>3. QED
        BY <3>1, <3>2
  <2>4. QED
      BY <2>1, <2>2, <2>3 DEF RevivalOk, Known, Revived, Astray
<1>17. (\A x \in Devs : DeviceOk(dev[x]) /\ NodeOk(dev[x]))'
  <2>1. \A x \in Devs : DeviceOk(dev'[x]) /\ NodeOk(dev'[x])
      BY <1>1, <1>9, <1>11
  <2>2. QED
      BY <1>3, <2>1 DEF DeviceOk, NodeOk, WorkOk, Astray, Fresh, InTree
<1>18. RunningHasNode'
  <2> SUFFICES ASSUME NEW x \in Devs, dev'[x].state = "RUNNING", ~BeingRevived(x)', "lost" \notin dev'[x].races
               PROVE  node'[dev'[x].node].at \in {"on", "off"}
      BY DEF RunningHasNode, InTree
  <2>1. BeingRevived(r)'
      BY <1>8, <1>9 DEF BeingRevived
  <2>2. x # r /\ x # d
      BY <1>4, <1>8, <1>9, <2>1
  <2>3. ~BeingRevived(x)
      BY <1>3, <1>15 DEF BeingRevived
  <2>4. QED
      BY <1>1, <1>3, <1>9, <2>2, <2>3 DEF RunningHasNode, InTree
<1>19. NodesOk'
    BY <1>1, <1>3 DEF NodesOk, InTree
<1>20. QED
    BY <1>13, <1>14, <1>16, <1>17, <1>18, <1>19 DEF DeviceInv

LEMMA Swaps ==
    ASSUME DeviceInv, NEW d \in Devs, InitSwaps(d)
    PROVE  DeviceInv'
<1> DEFINE r == dev[d].found
           current == dev[d].node
           obsolete == dev[r].node
           M == dev[r].races \cup dev[d].races \cup (IF dev[d].state = "GONE" THEN {"lost"} ELSE {})
           D == [dev[d] EXCEPT !.node = obsolete, !.pc = "init_drop"]
           R == [dev[r] EXCEPT !.node = current, !.gen = card.gen, !.retries = 0, !.races = M,
                               !.workfn = "update", !.queued = TRUE]
           O == [node[obsolete] EXCEPT !.device = d]
           C == [node[current] EXCEPT !.device = r]
<1>1. /\ node \in [Nodes -> NodeType] /\ dev \in [Devs -> DevType] /\ Around
      /\ LinksAgree /\ RunningHasNode /\ RevivalOk
      /\ \A x \in Devs : DeviceOk(dev[x]) /\ NodeOk(dev[x])
      /\ NodesOk
    BY Types DEF DeviceInv
<1>2. dev[d].pc = "init_swap" /\ UNCHANGED <<card, fails, env>>
    BY DEF InitSwaps
<1>3. /\ r \in Devs /\ Known(dev[r]) /\ Revived(dev[r]) /\ ~dev[d].added /\ ~dev[d].queued
      /\ dev[d].workfn = "init" /\ dev[d].state \in {"INITIALIZING", "GONE"} /\ r # d
  <2>1. r \in Devs /\ Known(dev[r]) /\ Revived(dev[r])
      BY <1>1, <1>2 DEF RevivalOk
  <2>2. ~dev[d].added /\ ~dev[d].queued /\ dev[d].workfn = "init" /\ dev[d].state \in {"INITIALIZING", "GONE"}
      BY <1>1, <1>2 DEF DeviceOk, Early, WorkOk, Fresh
  <2>3. QED
      BY <2>1, <2>2 DEF Known
<1>4. /\ current \in Nodes /\ obsolete \in Nodes /\ current # obsolete
      /\ node[current].device = d /\ node[obsolete].device = r
      /\ dev[d].state = "GONE" \/ "lost" \in dev[d].races \/ InTree(current)
  <2>1. current \in Nodes /\ obsolete \in Nodes
      BY <1>1, <1>3 DEF DeviceOk, Known
  <2>2. node[current].device = d /\ node[obsolete].device = r
      BY <1>1, <1>3, <2>1 DEF LinksAgree
  <2>3. dev[d].state = "GONE" \/ "lost" \in dev[d].races \/ InTree(current)
      BY <1>1, <1>2, <1>3 DEF NodeOk
  <2>4. QED
      BY <1>3, <2>1, <2>2, <2>3
<1>5. /\ M \in SUBSET Races /\ dev[r].races \subseteq M
      /\ "lost" \in M \/ InTree(current)
  <2>1. dev[r].races \in SUBSET Races /\ dev[d].races \in SUBSET Races /\ "lost" \in Races
      BY <1>1, <1>3 DEF DevType, Races
  <2>2. QED
      BY <1>4, <2>1
<1>6. card.gen \in 0..(MaxResets + 1)
  <2>1. card.gen \in 1..(MaxResets + 1)
      BY <1>1 DEF Around, CardType
  <2>2. QED
      BY <2>1, DeviceAssumption
<1>7. node' = [node EXCEPT ![obsolete] = O, ![current] = C]
    BY <1>1, <1>4 DEF InitSwaps
<1>8. dev' = [dev EXCEPT ![d] = D, ![r] = R]
    BY <1>1, <1>3 DEF InitSwaps, Schedule
<1> HIDE DEF M
<1>9. O \in NodeType /\ C \in NodeType /\ D \in DevType /\ R \in DevType
  <2>1. node[obsolete] \in NodeType /\ node[current] \in NodeType
      BY <1>1, <1>4
  <2>2. O \in NodeType /\ C \in NodeType
      BY <1>3, <2>1 DEF NodeType
  <2>3. dev[d] \in DevType /\ dev[r] \in DevType /\ "init_drop" \in Places
      BY <1>1, <1>3 DEF Places
  <2>4. D \in DevType
      BY <1>4, <2>3 DEF DevType
  <2>5. R \in DevType
      BY <1>4, <1>5, <1>6, <2>3, ZeroGen DEF DevType
  <2>6. QED
      BY <2>2, <2>4, <2>5
<1>10. /\ O.at = node[obsolete].at /\ O.device = d /\ O.rom = node[obsolete].rom
       /\ C.at = node[current].at /\ C.device = r /\ C.rom = node[current].rom
    BY <1>1, <1>4 DEF NodeType
<1>11. /\ D.state = dev[d].state /\ D.node = obsolete /\ D.queued = dev[d].queued /\ D.pc = "init_drop"
       /\ D.workfn = dev[d].workfn /\ D.added = dev[d].added /\ D.found = r /\ D.races = dev[d].races
    BY <1>1 DEF DevType
<1>12. /\ R.state = dev[r].state /\ R.node = current /\ R.queued = TRUE /\ R.pc = dev[r].pc
       /\ R.workfn = "update" /\ R.added = dev[r].added /\ R.found = dev[r].found /\ R.races = M
    BY <1>1, <1>3 DEF DevType
<1> HIDE DEF D, R, O, C
<1>13. /\ dev'[d] = D /\ dev'[r] = R /\ \A x \in Devs \ {d, r} : dev'[x] = dev[x]
       /\ node'[obsolete] = O /\ node'[current] = C /\ \A n \in Nodes \ {obsolete, current} : node'[n] = node[n]
       /\ dev' \in [Devs -> DevType] /\ node' \in [Nodes -> NodeType]
    BY <1>1, <1>3, <1>4, <1>7, <1>8, <1>9
<1> HIDE DEF r, current, obsolete
<1>14. \A n \in Nodes : node'[n].at = node[n].at
    BY <1>10, <1>13
<1>15. TypeOK'
    BY <1>1, <1>2, <1>13 DEF TypeOK, Around, CardType, NodeType, DevType
<1>16. dev[d].node = current /\ dev[r].node = obsolete /\ dev[d].found = r
    BY DEF r, current, obsolete
<1>17. LinksAgree'
  <2> SUFFICES ASSUME NEW x \in Devs, NEW n \in Nodes PROVE node'[n].device = x <=> dev'[x].node = n
      BY DEF LinksAgree
  <2>1. CASE x = d
      BY <1>1, <1>3, <1>4, <1>10, <1>11, <1>12, <1>13, <1>16, <2>1 DEF LinksAgree
  <2>2. CASE x = r
      BY <1>1, <1>3, <1>4, <1>10, <1>11, <1>12, <1>13, <1>16, <2>2 DEF LinksAgree
  <2>3. CASE x \notin {d, r}
      BY <1>1, <1>3, <1>4, <1>10, <1>11, <1>12, <1>13, <1>16, <2>3 DEF LinksAgree
  <2>4. QED
      BY <2>1, <2>2, <2>3
<1>18. DeviceOk(dev[r]) /\ (Astray(dev[r]) => Astray(R))
    BY <1>1, <1>3, <1>5, <1>12 DEF Astray
<1>19. DeviceOk(D) /\ DeviceOk(R) /\ NodeOk(D) /\ NodeOk(R)
  <2>1. DeviceOk(D)
      BY <1>3, <1>4, <1>11 DEF DeviceOk, WorkOk, Fresh, Early, Refreshing
  <2>2. DeviceOk(R)
      BY <1>3, <1>4, <1>12, <1>18 DEF DeviceOk, WorkOk, Fresh, Early, Refreshing, Revived, Known
  <2>3. NodeOk(D) /\ NodeOk(R)
      BY <1>5, <1>11, <1>12 DEF NodeOk
  <2>4. QED
      BY <2>1, <2>2, <2>3
<1>20. Known(R) /\ ~Known(dev[d]) /\ dev[r].pc \notin {"init_swap", "init_drop"}
    BY <1>3, <1>12, <1>18 DEF Known, DeviceOk, Early
<1>21. RevivalOk'
  <2>1. ASSUME NEW y \in Devs, dev'[y].pc \in {"init_swap", "init_drop"}
        PROVE  dev[y].pc \in {"init_swap", "init_drop"} /\ dev'[y].found = dev[y].found
               /\ Known(dev'[dev[y].found]) /\ dev[y].found \in Devs \ {d}
    <3>1. y # r
        BY <1>12, <1>13, <1>20, <2>1
    <3>2. dev[y].pc \in {"init_swap", "init_drop"} /\ dev'[y].found = dev[y].found
        BY <1>2, <1>11, <1>13, <1>16, <2>1, <3>1
    <3>3. dev[y].found \in Devs /\ Known(dev[dev[y].found])
        BY <1>1, <3>2 DEF RevivalOk
    <3>4. QED
        BY <1>13, <1>20, <3>2, <3>3
  <2>2. ASSUME NEW y \in Devs, dev'[y].pc = "init_swap"
        PROVE  dev[y].pc = "init_swap" /\ Keeps(dev[dev[y].found], dev'[dev[y].found])
    <3>1. y # r /\ y # d
        BY <1>11, <1>12, <1>13, <1>20, <2>2
    <3>2. dev[y].pc = "init_swap"
        BY <1>13, <2>2, <3>1
    <3>3. CASE dev[y].found = r
      <4>1. Astray(dev[r]) \/ dev[r].pc = "idle"
          BY <1>1, <1>2, <1>16, <3>1, <3>2, <3>3 DEF RevivalOk
      <4>2. QED
          BY <1>12, <1>13, <1>18, <3>2, <3>3, <4>1 DEF Keeps, Revived
    <3>4. CASE dev[y].found # r
      <4>1. dev'[dev[y].found] = dev[dev[y].found]
          BY <1>13, <2>1, <2>2, <3>4
      <4>2. QED
          BY <3>2, <4>1 DEF Keeps
    <3>5. QED
        BY <3>3, <3>4
  <2>3. QED
      BY <1>1, <2>1, <2>2, RevivalKept
<1>22. (\A x \in Devs : DeviceOk(dev[x]) /\ NodeOk(dev[x]))'
  <2>1. \A x \in Devs : DeviceOk(dev'[x]) /\ NodeOk(dev'[x])
      BY <1>1, <1>13, <1>19
  <2>2. \A x \in Devs : dev'[x].state # "free" => dev'[x].node \in Nodes
      BY <2>1 DEF DeviceOk
  <2>3. \A x \in Devs : DeviceOk(dev[x])'
      BY <2>1 DEF DeviceOk, WorkOk, Astray, Fresh
  <2>4. \A x \in Devs : NodeOk(dev[x])'
      BY <1>14, <2>1, <2>2 DEF NodeOk, InTree
  <2>5. QED
      BY <2>3, <2>4
<1>23. RunningHasNode'
  <2> SUFFICES ASSUME NEW x \in Devs, dev'[x].state = "RUNNING", ~BeingRevived(x)', "lost" \notin dev'[x].races
               PROVE  node'[dev'[x].node].at \in {"on", "off"}
      BY DEF RunningHasNode, InTree
  <2>1. x # d
      BY <1>3, <1>11, <1>13
  <2>2. CASE x = r
      BY <1>4, <1>5, <1>12, <1>13, <1>14, <2>2 DEF InTree
  <2>3. CASE x # r
    <3>1. ASSUME NEW y \in Devs, dev[y].pc = "init_swap", dev[y].found = x
          PROVE  FALSE
      <4>1. y # d /\ y # r
          BY <1>16, <1>20, <2>3, <3>1
      <4>2. dev'[y] = dev[y]
          BY <1>13, <4>1
      <4>3. QED
          BY <3>1, <4>2 DEF BeingRevived
    <3>2. dev'[x] = dev[x] /\ dev[x].node \in Nodes /\ InTree(dev[x].node)
        BY <1>1, <1>13, <2>1, <2>3, <3>1 DEF RunningHasNode, BeingRevived, DeviceOk
    <3>3. QED
        BY <1>14, <3>2 DEF InTree
  <2>4. QED
      BY <2>2, <2>3
<1>24. NodesOk'
  <2>1. node[obsolete].at # "none" /\ node[current].at # "none"
      BY <1>1, <1>3, <1>4, DeviceAssumption DEF NodesOk
  <2>2. \A n \in Nodes : node'[n].rom = node[n].rom
      BY <1>10, <1>13
  <2>3. QED
      BY <1>1, <1>13, <1>14, <2>1, <2>2 DEF NodesOk, InTree
<1>25. QED
    BY <1>15, <1>17, <1>21, <1>22, <1>23, <1>24 DEF DeviceInv

-----------------------------------------------------------------------------
(* Node events.                                                             *)
Keeping == {"UPDATED", "INITIATED_RESET", "LINK_ON"}

\* W is D, but for the record of what happened to it.
Saw(D, W) ==
  /\ W \in DevType /\ W.state = D.state /\ W.node = D.node /\ W.pc = D.pc /\ W.workfn = D.workfn
  /\ W.queued = D.queued /\ W.added = D.added /\ W.found = D.found
  /\ Astray(D) \/ (D.state = "RUNNING" /\ D.pc = "picked") => Astray(W)
  /\ "lost" \in D.races => "lost" \in W.races

\* What an event of its node does to a device.
Follows(D, E) ==
  /\ E \in DevType /\ E.state # "free" /\ DeviceOk(E)
  /\ E.node = D.node /\ E.pc = D.pc /\ E.found = D.found
  /\ "lost" \in D.races => "lost" \in E.races
  /\ Known(D) => Known(E)
  /\ Keeps(D, E)

LEMMA WitnessedOk ==
    ASSUME NEW D \in DevType, NEW restart \in BOOLEAN
    PROVE  Saw(D, Witnessed(D, restart))
<1> DEFINE about == IF restart THEN {"unheard", "outdated"} ELSE {"unheard"}
           R == IF D.state = "RUNNING"
                THEN (D.races \ about) \cup (IF D.pc = "picked" THEN {"changed"} ELSE {})
                ELSE D.races \cup (IF D.pc \in AfterRead THEN about ELSE {})
           W == [D EXCEPT !.races = R]
<1>1. Witnessed(D, restart) = W
    BY DEF Witnessed, DevType
<1>2. /\ R \in SUBSET Races
      /\ D.races \cap {"changed", "met", "lost"} \subseteq R
      /\ D.state = "RUNNING" /\ D.pc = "picked" => "changed" \in R
  <2>1. D.races \in SUBSET Races /\ about \in SUBSET {"unheard", "outdated"} /\ about \in SUBSET Races
        /\ "changed" \in Races
      BY DEF DevType, Races
  <2> HIDE DEF about
  <2>2. QED
      BY <2>1
<1> HIDE DEF R
<1>3. /\ W \in DevType /\ W.state = D.state /\ W.node = D.node /\ W.pc = D.pc /\ W.workfn = D.workfn
      /\ W.queued = D.queued /\ W.added = D.added /\ W.found = D.found /\ W.races = R
    BY <1>2 DEF DevType
<1> HIDE DEF W
<1>4. QED
    BY <1>1, <1>2, <1>3 DEF Saw, Astray

Scheduled(W, g, s, fn) == [W EXCEPT !.gen = g, !.state = s, !.workfn = fn, !.queued = TRUE]
Noted(W, g, s) == [W EXCEPT !.gen = g, !.state = s]

\* A device that is RUNNING is scheduled.
LEMMA EventSchedules ==
    ASSUME NEW D \in DevType, DeviceOk(D), D.state = "RUNNING", NEW W, Saw(D, W),
           NEW g \in 0..(MaxResets + 1), NEW s \in {"RUNNING", "INITIALIZING", "GONE"},
           NEW fn \in {"refresh", "update", "shutdown"}
    PROVE  Follows(D, Scheduled(W, g, s, fn)) /\ Scheduled(W, g, s, fn).state = s
<1> DEFINE E == Scheduled(W, g, s, fn)
<1>1. /\ E \in DevType /\ E.state = s /\ E.workfn = fn /\ E.queued = TRUE
      /\ E.node = D.node /\ E.pc = D.pc /\ E.found = D.found /\ E.added = D.added /\ E.races = W.races
  <2>1. E \in DevType
      BY ZenonT(60) DEF Saw, DevType, States, Scheduled
  <2>2. /\ E.state = s /\ E.workfn = fn /\ E.queued = TRUE
        /\ E.node = D.node /\ E.pc = D.pc /\ E.found = D.found /\ E.added = D.added /\ E.races = W.races
      BY DEF Saw, DevType, States, Scheduled
  <2>3. QED
      BY <2>1, <2>2
<1> HIDE DEF E
<1>2. /\ Astray(D) \/ D.pc = "picked" => Astray(E)
      /\ "lost" \in D.races => "lost" \in E.races
    BY <1>1 DEF Saw, Astray
<1>3. DeviceOk(E)
    BY <1>1, <1>2 DEF DeviceOk, WorkOk, Fresh, Early, Refreshing
<1>4. Known(E) /\ Keeps(D, E)
    BY <1>1, <1>2 DEF Known, Keeps, Revived
<1>5. Follows(D, E) /\ E.state = s
    BY <1>1, <1>2, <1>3, <1>4 DEF Follows
<1>6. QED
    BY <1>5 DEF E

\* Another one is not.
LEMMA EventNoted ==
    ASSUME NEW D \in DevType, DeviceOk(D), D.state \notin {"RUNNING", "free"}, NEW W, Saw(D, W),
           NEW g \in 0..(MaxResets + 1), NEW s \in {D.state, "GONE"}
    PROVE  Follows(D, Noted(W, g, s)) /\ Noted(W, g, s).state = s
<1> DEFINE E == Noted(W, g, s)
<1>1. /\ E \in DevType /\ E.state = s /\ E.workfn = D.workfn /\ E.queued = D.queued
      /\ E.node = D.node /\ E.pc = D.pc /\ E.found = D.found /\ E.added = D.added /\ E.races = W.races
  <2>1. s \in States
      BY DEF DevType, States
  <2>2. W \in DevType /\ W.workfn = D.workfn /\ W.queued = D.queued
        /\ W.node = D.node /\ W.pc = D.pc /\ W.found = D.found /\ W.added = D.added
      BY DEF Saw
  <2>3. QED
      BY <2>1, <2>2 DEF DevType, Noted
<1> HIDE DEF E
<1>2. /\ Astray(D) => Astray(E)
      /\ "lost" \in D.races => "lost" \in E.races
    BY <1>1 DEF Saw, Astray
<1>3. DeviceOk(E)
    BY <1>1, <1>2 DEF DeviceOk, WorkOk, Fresh, Early, Refreshing
<1>4. (Known(D) => Known(E)) /\ Keeps(D, E)
    BY <1>1, <1>2 DEF Known, Keeps, Revived
<1>5. Follows(D, E) /\ E.state = s
    BY <1>1, <1>2, <1>3, <1>4 DEF Follows
<1>6. QED
    BY <1>5 DEF E

LEMMA DestroyedOk ==
    ASSUME NEW D \in DevType, DeviceOk(D), D.state # "free"
    PROVE  Follows(D, Destroyed(Witnessed(D, FALSE))) /\ Destroyed(Witnessed(D, FALSE)).state = "GONE"
<1> DEFINE W == Witnessed(D, FALSE)
           E == Destroyed(W)
<1>1. Saw(D, W)
    BY WitnessedOk
<1> HIDE DEF W
<1>2. W \in DevType /\ W.state = D.state /\ W.gen \in 0..(MaxResets + 1)
    BY <1>1 DEF Saw, DevType
<1>3. CASE D.state = "RUNNING"
  <2>1. E = Scheduled(W, W.gen, "GONE", "shutdown")
      BY <1>2, <1>3 DEF Destroyed, Schedule, DevType, Scheduled
  <2> HIDE DEF E
  <2>2. QED
    <3>1. Follows(D, E) /\ E.state = "GONE"
        BY <1>1, <1>2, <1>3, <2>1, EventSchedules
    <3>2. QED
        BY <3>1 DEF E, W
<1>4. CASE D.state # "RUNNING"
  <2>1. E = Noted(W, W.gen, "GONE")
      BY <1>2, <1>4 DEF Destroyed, DevType, Noted
  <2> HIDE DEF E
  <2>2. QED
    <3>1. Follows(D, E) /\ E.state = "GONE"
        BY <1>1, <1>2, <1>4, <2>1, EventNoted
    <3>2. QED
        BY <3>1 DEF E, W
<1>5. QED
    BY <1>3, <1>4

LEMMA EventOk ==
    ASSUME NEW D \in DevType, DeviceOk(D), D.state # "free", NEW e, NEW g \in 0..(MaxResets + 1)
    PROVE  /\ Follows(D, DeviceEvent(D, e, g))
           /\ DeviceEvent(D, e, g).state \in {"INITIALIZING", "RUNNING"} => e \in Keeping
<1>1. CASE e \in {"INITIATED_RESET", "LINK_ON"}
  <2> DEFINE W == Witnessed(D, TRUE)
             E == Restarted(W, g)
  <2>1. Saw(D, W) /\ DeviceEvent(D, e, g) = E /\ e \in Keeping
      BY <1>1, WitnessedOk DEF DeviceEvent, Keeping
  <2> HIDE DEF W
  <2>2. W \in DevType /\ W.state = D.state
      BY <2>1 DEF Saw
  <2>3. CASE D.state = "RUNNING"
    <3>1. E = Scheduled(W, g, "INITIALIZING", "refresh")
        BY <2>2, <2>3 DEF Restarted, Schedule, DevType, Scheduled
    <3> HIDE DEF E
    <3>2. Follows(D, E)
        BY <2>1, <2>3, <3>1, EventSchedules
    <3>3. QED
        BY <2>1, <3>2
  <2>4. CASE D.state # "RUNNING"
    <3>1. E = Noted(W, g, D.state)
        BY <2>2, <2>4 DEF Restarted, DevType, Noted
    <3> HIDE DEF E
    <3>2. Follows(D, E)
        BY <2>1, <2>4, <3>1, EventNoted
    <3>3. QED
        BY <2>1, <3>2
  <2>5. QED
      BY <2>3, <2>4
<1>2. CASE e = "UPDATED"
  <2> DEFINE W == Witnessed(D, FALSE)
             E == Updated(W, g)
  <2>1. Saw(D, W) /\ DeviceEvent(D, e, g) = E /\ e \in Keeping
      BY <1>2, WitnessedOk DEF DeviceEvent, Keeping
  <2> HIDE DEF W
  <2>2. W \in DevType /\ W.state = D.state
      BY <2>1 DEF Saw
  <2>3. CASE D.state = "RUNNING"
    <3>1. E = Scheduled(W, g, "RUNNING", "update")
        BY <2>2, <2>3 DEF Updated, Schedule, DevType, Scheduled
    <3> HIDE DEF E
    <3>2. Follows(D, E)
        BY <2>1, <2>3, <3>1, EventSchedules
    <3>3. QED
        BY <2>1, <3>2
  <2>4. CASE D.state # "RUNNING"
    <3>1. E = Noted(W, g, D.state)
        BY <2>2, <2>4 DEF Updated, DevType, Noted
    <3> HIDE DEF E
    <3>2. Follows(D, E)
        BY <2>1, <2>4, <3>1, EventNoted
    <3>3. QED
        BY <2>1, <3>2
  <2>5. QED
      BY <2>3, <2>4
<1>3. CASE e \notin Keeping
  <2>1. DeviceEvent(D, e, g) = Destroyed(Witnessed(D, FALSE))
      BY <1>3 DEF DeviceEvent, Keeping
  <2>2. QED
      BY <2>1, DestroyedOk
<1>4. QED
    BY <1>1, <1>2, <1>3 DEF Keeping

LEMMA NewDeviceOk ==
    ASSUME NEW n \in Nodes, NEW g \in 0..(MaxResets + 1)
    PROVE  /\ NewDevice(n, g) \in DevType /\ DeviceOk(NewDevice(n, g)) /\ NewDevice(n, g).node = n
           /\ NewDevice(n, g).pc = "idle" /\ NewDevice(n, g).state = "INITIALIZING"
<1> DEFINE E == NewDevice(n, g)
<1>1. /\ E \in DevType /\ E.state = "INITIALIZING" /\ E.workfn = "init" /\ E.queued = TRUE
      /\ E.node = n /\ E.pc = "idle" /\ E.added = FALSE
    BY FreeDeviceType DEF NewDevice, FreeDevice, DevType, States
<1> HIDE DEF E
<1>2. DeviceOk(E)
    BY <1>1 DEF DeviceOk, WorkOk, Fresh, Early, Refreshing
<1>3. QED
    BY <1>1, <1>2 DEF E

\* What a bus reset does to nodes and devices, if at most one node gets a device.
Creating(event, new, n) ==
  n \in new \/ (InTree(n) /\ node[n].device = None /\ event[n] \in {"INITIATED_RESET", "LINK_ON"})

\* Node c gets the device p, if it is a creator.
ResetOutcome(event, new, rom, c, p) ==
  /\ Creating(event, new, c) => p \in Devs /\ dev[p].state = "free"
  /\ node' = [n \in Nodes |->
       IF n \in new THEN [at |-> "on", device |-> p, rom |-> rom, raced |-> FALSE]
       ELSE IF ~InTree(n) THEN node[n]
       ELSE [at |-> IF node[n].device = None /\ event[n] = "DESTROYED" THEN "none"
                    ELSE NextAt(node[n].at, event[n]),
             device |-> IF Creating(event, new, n) THEN p ELSE node[n].device,
             rom |-> IF event[n] = "INITIATED_RESET" THEN rom ELSE node[n].rom,
             raced |-> node[n].raced /\ ~Creating(event, new, n)]]
  /\ dev' = [d \in Devs |->
       IF Creating(event, new, c) /\ p = d THEN NewDevice(c, card.gen + 1)
       ELSE IF \E n \in Nodes : InTree(n) /\ node[n].device = d
       THEN LET n == CHOOSE n \in Nodes : InTree(n) /\ node[n].device = d
            IN  DeviceEvent(dev[d], event[n], card.gen + 1)
       ELSE dev[d]]

LEMMA Placed ==
    ASSUME NEW event, NEW new \in SUBSET Nodes, NEW rom \in Roms, Handled(event, new, rom),
           NEW c \in Nodes, \A n \in Nodes : Creating(event, new, n) => n = c
    PROVE  \E p : ResetOutcome(event, new, rom, c, p)
<1> DEFINE C == {n \in Nodes : Creating(event, new, n)}
           F == {d \in Devs : ~Allocated(d)}
           P == CHOOSE f \in [C -> F] : \A a, b \in C : a # b => f[a] # f[b]
<1>1. /\ Cardinality(C) <= Cardinality(F)
      /\ node' = [n \in Nodes |->
           IF n \in new THEN [at |-> "on", device |-> P[n], rom |-> rom, raced |-> FALSE]
           ELSE IF ~InTree(n) THEN node[n]
           ELSE [at |-> IF node[n].device = None /\ event[n] = "DESTROYED" THEN "none"
                        ELSE NextAt(node[n].at, event[n]),
                 device |-> IF Creating(event, new, n) THEN P[n] ELSE node[n].device,
                 rom |-> IF event[n] = "INITIATED_RESET" THEN rom ELSE node[n].rom,
                 raced |-> node[n].raced /\ ~Creating(event, new, n)]]
      /\ dev' = [d \in Devs |->
           IF \E n \in C : P[n] = d THEN NewDevice(CHOOSE n \in C : P[n] = d, card.gen + 1)
           ELSE IF \E n \in Nodes : InTree(n) /\ node[n].device = d
           THEN LET n == CHOOSE n \in Nodes : InTree(n) /\ node[n].device = d
                IN  DeviceEvent(dev[d], event[n], card.gen + 1)
           ELSE dev[d]]
    BY DEF Handled, Creating
<1>2. \A n \in Nodes : n \in C => n = c
    OBVIOUS
<1>3. new \subseteq C /\ \A n \in Nodes : Creating(event, new, n) <=> n \in C
    BY DEF Creating
<1>4. CASE c \in C
  <2>1. C = {c}
      BY <1>2, <1>4
  <2>2. F # {}
    <3> SUFFICES ASSUME F = {} PROVE FALSE
        OBVIOUS
    <3>1. Cardinality(F) = 0 /\ Cardinality(C) = 1
        BY <2>1, FS_EmptySet, FS_Singleton
    <3> HIDE DEF C, F
    <3>2. QED
        BY <1>1, <3>1
  <2>3. PICK q : q \in F
      BY <2>2
  <2> HIDE DEF F
  <2>4. [x \in C |-> q] \in [C -> F] /\ \A a, b \in C : a # b => [x \in C |-> q][a] # [x \in C |-> q][b]
      BY <2>1, <2>3
  <2>5. P \in [C -> F]
      BY <2>4
  <2> HIDE DEF P
  <2>6. P[c] \in Devs /\ dev[P[c]].state = "free"
      BY <1>4, <2>5 DEF F, Allocated
  <2>7. node' = [n \in Nodes |->
           IF n \in new THEN [at |-> "on", device |-> P[c], rom |-> rom, raced |-> FALSE]
           ELSE IF ~InTree(n) THEN node[n]
           ELSE [at |-> IF node[n].device = None /\ event[n] = "DESTROYED" THEN "none"
                        ELSE NextAt(node[n].at, event[n]),
                 device |-> IF Creating(event, new, n) THEN P[c] ELSE node[n].device,
                 rom |-> IF event[n] = "INITIATED_RESET" THEN rom ELSE node[n].rom,
                 raced |-> node[n].raced /\ ~Creating(event, new, n)]]
      BY <1>1, <1>2, <1>3
  <2>8. dev' = [d \in Devs |->
           IF P[c] = d THEN NewDevice(c, card.gen + 1)
           ELSE IF \E n \in Nodes : InTree(n) /\ node[n].device = d
           THEN LET n == CHOOSE n \in Nodes : InTree(n) /\ node[n].device = d
                IN  DeviceEvent(dev[d], event[n], card.gen + 1)
           ELSE dev[d]]
    <3>1. \A d : (\E n \in C : P[n] = d) <=> P[c] = d
        BY <2>1
    <3>2. \A d : P[c] = d => (CHOOSE n \in C : P[n] = d) = c
        BY <2>1
    <3>3. QED
        BY <1>1, <3>1, <3>2
  <2>9. Creating(event, new, c)
      BY <1>4
  <2>10. QED
    <3>1. ResetOutcome(event, new, rom, c, P[c])
        BY <2>6, <2>7, <2>8, <2>9 DEF ResetOutcome
    <3>2. QED
        BY <3>1
<1>5. CASE c \notin C
  <2>1. C = {}
      BY <1>2, <1>5
  <2>2. /\ node' = [n \in Nodes |->
           IF n \in new THEN [at |-> "on", device |-> None, rom |-> rom, raced |-> FALSE]
           ELSE IF ~InTree(n) THEN node[n]
           ELSE [at |-> IF node[n].device = None /\ event[n] = "DESTROYED" THEN "none"
                        ELSE NextAt(node[n].at, event[n]),
                 device |-> IF Creating(event, new, n) THEN None ELSE node[n].device,
                 rom |-> IF event[n] = "INITIATED_RESET" THEN rom ELSE node[n].rom,
                 raced |-> node[n].raced /\ ~Creating(event, new, n)]]
      BY <1>1, <1>3, <2>1
  <2>3. dev' = [d \in Devs |->
           IF \E n \in Nodes : InTree(n) /\ node[n].device = d
           THEN LET n == CHOOSE n \in Nodes : InTree(n) /\ node[n].device = d
                IN  DeviceEvent(dev[d], event[n], card.gen + 1)
           ELSE dev[d]]
      BY <1>1, <2>1
  <2>4. ~Creating(event, new, c)
      BY <1>3, <1>5
  <2>5. QED
    <3>1. ResetOutcome(event, new, rom, c, None)
        BY <2>2, <2>3, <2>4 DEF ResetOutcome
    <3>2. QED
        BY <3>1
<1>6. QED
    BY <1>4, <1>5


LEMMA AfterReset ==
    ASSUME DeviceInv, MayReset, UNCHANGED <<fails, env>>,
           NEW event, NEW new \in SUBSET Nodes, NEW rom \in Roms, Handled(event, new, rom),
           NEW c \in Nodes, \A n \in Nodes : Creating(event, new, n) => n = c,
           \A n \in new : node[n].at = "none"
    PROVE  DeviceInv'
<1> DEFINE g == card.gen + 1
           created == Creating(event, new, c)
<1>1. /\ node \in [Nodes -> NodeType] /\ dev \in [Devs -> DevType] /\ Around
      /\ LinksAgree /\ RunningHasNode /\ RevivalOk
      /\ \A x \in Devs : DeviceOk(dev[x]) /\ NodeOk(dev[x])
      /\ NodesOk
    BY Types DEF DeviceInv
<1>0. PICK p : ResetOutcome(event, new, rom, c, p)
    BY Placed
<1>2.   /\ created => p \in Devs /\ dev[p].state = "free"
        /\ node' = [n \in Nodes |->
             IF n \in new THEN [at |-> "on", device |-> p, rom |-> rom, raced |-> FALSE]
             ELSE IF ~InTree(n) THEN node[n]
             ELSE [at |-> IF node[n].device = None /\ event[n] = "DESTROYED" THEN "none"
                          ELSE NextAt(node[n].at, event[n]),
                   device |-> IF Creating(event, new, n) THEN p ELSE node[n].device,
                   rom |-> IF event[n] = "INITIATED_RESET" THEN rom ELSE node[n].rom,
                   raced |-> node[n].raced /\ ~Creating(event, new, n)]]
        /\ dev' = [d \in Devs |->
             IF created /\ p = d THEN NewDevice(c, g)
             ELSE IF \E n \in Nodes : InTree(n) /\ node[n].device = d
             THEN LET n == CHOOSE n \in Nodes : InTree(n) /\ node[n].device = d
                  IN  DeviceEvent(dev[d], event[n], g)
             ELSE dev[d]]
    BY <1>0 DEF ResetOutcome
<1>3. \A n \in Nodes : node[n] \in NodeType
    BY <1>1
<1>4. g \in 0..(MaxResets + 1) /\ g \in 1..(MaxResets + 1)
  <2>1. env.resets \in 0..MaxResets /\ card.gen <= env.resets /\ card.gen \in 1..(MaxResets + 1)
      BY <1>1, DeviceAssumption DEF Around, CardType, MayReset, Environment
  <2>2. QED
      BY <2>1, DeviceAssumption
<1>5. Around'
  <2>1. rom[1] \in Guids /\ rom[2] \in 1..MaxVersion
      BY DEF Roms
  <2>2. card' = [card EXCEPT !.gen = g, !.recent = TRUE, !.newest[rom[1]] = rom[2]]
      BY DEF Handled
  <2>3. card' \in CardType
      BY <1>1, <1>4, <2>1, <2>2 DEF Around, CardType
  <2>4. QED
      BY <1>1, <2>3 DEF Around
<1> HIDE DEF g
\* The nodes.
<1>6. \A n \in Nodes : Creating(event, new, n) <=> created /\ n = c
    OBVIOUS
<1>7. new = {} \/ (created /\ new = {c})
    BY DEF Creating
<1>8. \A n \in Nodes :
        /\ node'[n].device = IF created /\ n = c THEN p ELSE node[n].device
        /\ node'[n].at = IF n \in new THEN "on"
                         ELSE IF ~InTree(n) THEN node[n].at
                         ELSE IF node[n].device = None /\ event[n] = "DESTROYED" THEN "none"
                         ELSE NextAt(node[n].at, event[n])
        /\ node'[n].rom \in Roms \cup {None}
  <2> SUFFICES ASSUME NEW n \in Nodes
               PROVE
        /\ node'[n].device = IF created /\ n = c THEN p ELSE node[n].device
        /\ node'[n].at = IF n \in new THEN "on"
                         ELSE IF ~InTree(n) THEN node[n].at
                         ELSE IF node[n].device = None /\ event[n] = "DESTROYED" THEN "none"
                         ELSE NextAt(node[n].at, event[n])
        /\ node'[n].rom \in Roms \cup {None}
      OBVIOUS
  <2>1. node[n] \in NodeType
      BY <1>1
  <2>2. CASE n \in new
      BY <1>2, <1>6, <1>7, <2>2
  <2>3. CASE n \notin new /\ ~InTree(n)
    <3>1. ~Creating(event, new, n)
        BY <2>3 DEF Creating
    <3>2. QED
        BY <1>2, <1>6, <2>1, <2>3, <3>1 DEF NodeType
  <2>4. CASE n \notin new /\ InTree(n)
      BY <1>2, <1>6, <2>1, <2>4 DEF NodeType
  <2>5. QED
      BY <2>2, <2>3, <2>4
<1>9. \A n \in Nodes :
        /\ node'[n].at \in {"none", "on", "off", "lost"}
        /\ node'[n].at = "none" => node'[n].device = None
        /\ InTree(n) /\ event[n] \in Keeping => node'[n].at \in {"on", "off"}
        /\ created /\ n = c => node'[n].at \in {"on", "off"}
  <2> SUFFICES ASSUME NEW n \in Nodes
               PROVE  /\ node'[n].at \in {"none", "on", "off", "lost"}
                      /\ node'[n].at = "none" => node'[n].device = None
                      /\ InTree(n) /\ event[n] \in Keeping => node'[n].at \in {"on", "off"}
                      /\ created /\ n = c => node'[n].at \in {"on", "off"}
      OBVIOUS
  <2>1. node[n].at \in {"none", "on", "off", "lost"} /\ (node[n].at = "none" => node[n].device = None)
      BY <1>1 DEF NodeType, NodesOk
  <2>2. CASE n \in new
      BY <1>8, <2>2
  <2>3. CASE n \notin new /\ ~InTree(n)
    <3>1. ~(created /\ n = c)
        BY <1>6, <2>3 DEF Creating
    <3>2. QED
        BY <1>8, <2>1, <2>3, <3>1
  <2>4. CASE n \notin new /\ InTree(n)
    <3>1. node[n].at \in {"on", "off"}
        BY <2>4 DEF InTree
    <3>2. CASE node[n].device = None /\ event[n] = "DESTROYED"
      <4>1. ~(created /\ n = c) /\ event[n] \notin Keeping
          BY <1>6, <2>4, <3>2 DEF Creating, Keeping
      <4>2. QED
          BY <1>8, <2>4, <3>2, <4>1
    <3>3. CASE ~(node[n].device = None /\ event[n] = "DESTROYED")
      <4>1. node'[n].at = NextAt(node[n].at, event[n])
          BY <1>8, <2>4, <3>3
      <4>2. /\ NextAt(node[n].at, event[n]) \in {"on", "off", "lost"}
            /\ event[n] # "DESTROYED" => NextAt(node[n].at, event[n]) \in {"on", "off"}
          BY <3>1 DEF NextAt
      <4>3. created /\ n = c => event[n] # "DESTROYED"
          BY <1>6, <2>4 DEF Creating
      <4>4. QED
          BY <4>1, <4>2, <4>3 DEF Keeping
    <3>4. QED
        BY <3>2, <3>3
  <2>5. QED
      BY <2>2, <2>3, <2>4
<1>10. node' \in [Nodes -> NodeType]
  <2>1. ASSUME NEW n \in Nodes PROVE node'[n] \in NodeType
    <3>1. node'[n].device \in Devs \cup {None}
        BY <1>1, <1>2, <1>8 DEF NodeType
    <3>2. CASE n \notin new /\ ~InTree(n)
        BY <1>1, <1>2, <3>2
    <3>3. CASE n \in new
        BY <1>2, <3>1, <3>3 DEF NodeType
    <3>4. CASE n \notin new /\ InTree(n)
        BY <1>2, <1>8, <1>9, <3>1, <3>4 DEF NodeType
    <3>5. QED
        BY <3>2, <3>3, <3>4
  <2>2. QED
      BY <1>2, <2>1
\* The devices.
<1>11. created => node[c].device = None
    BY <1>1 DEF Creating, NodesOk
<1>12. \A d \in Devs :
         \/ created /\ p = d /\ dev'[d] = NewDevice(c, g)
         \/ /\ ~(created /\ p = d) /\ dev[d].state # "free" /\ InTree(dev[d].node)
            /\ dev'[d] = DeviceEvent(dev[d], event[dev[d].node], g)
         \/ ~(created /\ p = d) /\ dev'[d] = dev[d] /\ (dev[d].state = "free" \/ ~InTree(dev[d].node))
  <2> SUFFICES ASSUME NEW d \in Devs
               PROVE
         \/ created /\ p = d /\ dev'[d] = NewDevice(c, g)
         \/ /\ ~(created /\ p = d) /\ dev[d].state # "free" /\ InTree(dev[d].node)
            /\ dev'[d] = DeviceEvent(dev[d], event[dev[d].node], g)
         \/ ~(created /\ p = d) /\ dev'[d] = dev[d] /\ (dev[d].state = "free" \/ ~InTree(dev[d].node))
      OBVIOUS
  <2>1. CASE created /\ p = d
      BY <1>2, <2>1
  <2>2. CASE ~(created /\ p = d) /\ dev[d].state # "free" /\ InTree(dev[d].node)
    <3>1. dev[d].node \in Nodes /\ node[dev[d].node].device = d
        BY <1>1, <2>2 DEF LinksAgree, DeviceOk
    <3>2. \A n \in Nodes : InTree(n) /\ node[n].device = d <=> n = dev[d].node
        BY <1>1, <2>2, <3>1 DEF LinksAgree
    <3>3. (CHOOSE n \in Nodes : InTree(n) /\ node[n].device = d) = dev[d].node
        BY <3>1, <3>2
    <3>4. QED
        BY <1>2, <2>2, <3>1, <3>2, <3>3
  <2>3. CASE ~(created /\ p = d) /\ (dev[d].state = "free" \/ ~InTree(dev[d].node))
    <3>1. ~\E n \in Nodes : InTree(n) /\ node[n].device = d
        BY <1>1, <2>3, DeviceAssumption DEF LinksAgree, DeviceOk
    <3>2. QED
        BY <1>2, <2>3, <3>1
  <2>4. QED
      BY <2>1, <2>2, <2>3
<1>13. ASSUME NEW d \in Devs
       PROVE  /\ dev'[d] \in DevType /\ DeviceOk(dev'[d])
              /\ dev'[d].node = IF created /\ p = d THEN c ELSE dev[d].node
              /\ dev'[d].pc = dev[d].pc /\ (dev[d].state # "free" => dev'[d].found = dev[d].found)
              /\ Known(dev[d]) => Known(dev'[d]) /\ Keeps(dev[d], dev'[d])
              /\ /\ dev'[d].state = "INITIALIZING" /\ dev'[d].pc # "init_drop" /\ "lost" \notin dev'[d].races
                 => node'[dev'[d].node].at \in {"on", "off"}
              /\ /\ dev'[d].state = "RUNNING" /\ "lost" \notin dev'[d].races /\ ~BeingRevived(d)
                 => node'[dev'[d].node].at \in {"on", "off"}
  <2>1. CASE created /\ p = d /\ dev'[d] = NewDevice(c, g)
    <3>1. dev[d].state = "free" /\ dev[d].pc = "idle"
        BY <1>1, <1>2, <2>1 DEF DeviceOk
    <3>2. QED
        BY <1>4, <1>9, <2>1, <3>1, NewDeviceOk DEF Known
  <2>2. CASE /\ ~(created /\ p = d) /\ dev[d].state # "free" /\ InTree(dev[d].node)
             /\ dev'[d] = DeviceEvent(dev[d], event[dev[d].node], g)
    <3>1. dev[d] \in DevType /\ DeviceOk(dev[d]) /\ dev[d].node \in Nodes
        BY <1>1, <2>2 DEF DeviceOk
    <3>2. /\ Follows(dev[d], dev'[d])
          /\ dev'[d].state \in {"INITIALIZING", "RUNNING"} => event[dev[d].node] \in Keeping
        BY <1>4, <2>2, <3>1, EventOk
    <3>3. QED
        BY <1>9, <2>2, <3>1, <3>2 DEF Follows
  <2>3. CASE ~(created /\ p = d) /\ dev'[d] = dev[d] /\ (dev[d].state = "free" \/ ~InTree(dev[d].node))
    <3>1. dev[d].state = "INITIALIZING" => dev[d].pc = "init_drop" \/ "lost" \in dev[d].races
        BY <1>1, <2>3 DEF NodeOk
    <3>2. dev[d].state = "RUNNING" => "lost" \in dev[d].races \/ BeingRevived(d)
        BY <1>1, <2>3 DEF RunningHasNode
    <3>3. QED
        BY <1>1, <2>3, <3>1, <3>2 DEF Keeps
  <2>4. QED
      BY <1>12, <2>1, <2>2, <2>3
<1>14. dev' \in [Devs -> DevType]
    BY <1>2, <1>13
<1>15. TypeOK'
    BY <1>5, <1>10, <1>14 DEF TypeOK, Around, CardType, NodeType, DevType
<1>16. LinksAgree'
  <2> SUFFICES ASSUME NEW x \in Devs, NEW n \in Nodes PROVE node'[n].device = x <=> dev'[x].node = n
      BY DEF LinksAgree
  <2>1. node'[n].device = IF created /\ n = c THEN p ELSE node[n].device
      BY <1>8
  <2>2. dev'[x].node = IF created /\ p = x THEN c ELSE dev[x].node
      BY <1>13
  <2>3. node[n].device = x <=> dev[x].node = n
      BY <1>1 DEF LinksAgree
  <2>4. created => dev[p].node = None
      BY <1>1, <1>2 DEF DeviceOk
  <2>5. QED
      BY <1>11, <2>1, <2>2, <2>3, <2>4, DeviceAssumption
<1>17. (\A x \in Devs : DeviceOk(dev[x]) /\ NodeOk(dev[x]))'
  <2>1. \A x \in Devs : DeviceOk(dev[x])'
      BY <1>13 DEF DeviceOk, WorkOk, Astray, Fresh
  <2>2. \A x \in Devs : NodeOk(dev[x])'
      BY <1>13 DEF NodeOk, InTree
  <2>3. QED
      BY <2>1, <2>2
<1>18. \A y \in Devs : dev'[y].pc \in {"init_swap", "init_drop"} =>
         /\ dev[y].pc = dev'[y].pc /\ dev'[y].found = dev[y].found
         /\ dev[y].found \in Devs /\ Known(dev[dev[y].found])
  <2> SUFFICES ASSUME NEW y \in Devs, dev'[y].pc \in {"init_swap", "init_drop"}
               PROVE  /\ dev[y].pc = dev'[y].pc /\ dev'[y].found = dev[y].found
                      /\ dev[y].found \in Devs /\ Known(dev[dev[y].found])
      OBVIOUS
  <2>1. dev[y].pc = dev'[y].pc /\ dev[y].state # "free"
      BY <1>1, <1>13 DEF DeviceOk
  <2>2. QED
      BY <1>1, <1>13, <2>1 DEF RevivalOk
<1>19. RevivalOk' /\ RunningHasNode'
  <2>1. RevivalOk'
      BY <1>1, <1>13, <1>18, RevivalKept
  <2>2. ASSUME NEW x \in Devs, BeingRevived(x)
        PROVE  BeingRevived(x)'
    <3>1. PICK y \in Devs : dev[y].pc = "init_swap" /\ dev[y].found = x
        BY <2>2 DEF BeingRevived
    <3>2. dev'[y].pc = "init_swap"
        BY <1>13, <3>1
    <3>3. QED
        BY <1>18, <3>1, <3>2 DEF BeingRevived
  <2>3. RunningHasNode'
      BY <1>13, <2>2 DEF RunningHasNode, InTree
  <2>4. QED
      BY <2>1, <2>3
<1>20. NodesOk'
  <2>1. \A n \in Nodes : node'[n].at \in {"on", "off"} => node'[n].rom \in Roms
    <3> SUFFICES ASSUME NEW n \in Nodes, node'[n].at \in {"on", "off"} PROVE node'[n].rom \in Roms
        OBVIOUS
    <3>1. CASE n \in new
        BY <1>2, <3>1
    <3>2. CASE n \notin new /\ ~InTree(n)
        BY <1>8, <3>2 DEF InTree
    <3>3. CASE n \notin new /\ InTree(n)
      <4>1. node[n].rom \in Roms
          BY <1>1, <3>3 DEF NodesOk
      <4>2. QED
          BY <1>2, <3>3, <4>1
    <3>4. QED
        BY <3>1, <3>2, <3>3
  <2>2. QED
      BY <1>9, <2>1 DEF NodesOk, InTree
<1>21. QED
    BY <1>15, <1>16, <1>17, <1>19, <1>20 DEF DeviceInv

LEMMA BusResets ==
    ASSUME DeviceInv, BusReset \/ Rebuild
    PROVE  DeviceInv'
<1>1. CASE BusReset
  <2>1. MayReset /\ UNCHANGED <<fails, env>>
      BY <1>1 DEF BusReset
  <2>2. PICK n \in Nodes, rom \in Roms :
          \/ node[n].at = "none" /\ Handled([x \in Nodes |-> "UPDATED"], {n}, rom)
          \/ \E e \in Events(n) : Handled([x \in Nodes |-> IF x = n THEN e ELSE "UPDATED"], {}, rom)
      BY <1>1 DEF BusReset
  <2>3. CASE node[n].at = "none" /\ Handled([x \in Nodes |-> "UPDATED"], {n}, rom)
    <3> DEFINE ev == [x \in Nodes |-> "UPDATED"]
    <3>1. \A x \in Nodes : Creating(ev, {n}, x) => x = n
        BY DEF Creating
    <3> HIDE DEF ev
    <3>2. Handled(ev, {n}, rom)
        BY <2>3 DEF ev
    <3>3. {n} \in SUBSET Nodes /\ \A x \in {n} : node[x].at = "none"
        BY <2>3
    <3>4. QED
        BY <2>1, <3>1, <3>2, <3>3, AfterReset
  <2>4. ASSUME NEW e \in Events(n), Handled([x \in Nodes |-> IF x = n THEN e ELSE "UPDATED"], {}, rom)
        PROVE  DeviceInv'
    <3> DEFINE ev == [x \in Nodes |-> IF x = n THEN e ELSE "UPDATED"]
    <3>1. \A x \in Nodes : Creating(ev, {}, x) => x = n
        BY DEF Creating
    <3>2. Handled(ev, {}, rom)
        BY <2>4
    <3> HIDE DEF ev
    <3>3. QED
        BY <2>1, <3>1, <3>2, AfterReset
  <2>5. QED
      BY <2>2, <2>3, <2>4
<1>2. CASE Rebuild
  <2>1. MayReset /\ UNCHANGED <<fails, env>>
      BY <1>2 DEF Rebuild
  <2>2. PICK n, m \in Nodes :
          InTree(n) /\ node[m].at = "none" /\ Handled([x \in Nodes |-> "DESTROYED"], {m}, node[n].rom)
      BY <1>2 DEF Rebuild
  <2> DEFINE ev == [x \in Nodes |-> "DESTROYED"]
  <2>3. \A x \in Nodes : Creating(ev, {m}, x) => x = m
      BY DEF Creating
  <2>4. node[n].rom \in Roms
      BY <2>2 DEF DeviceInv, NodesOk
  <2>5. Handled(ev, {m}, node[n].rom)
      BY <2>2
  <2> HIDE DEF ev
  <2>6. {m} \in SUBSET Nodes /\ \A x \in {m} : node[x].at = "none"
      BY <2>2
  <2>7. QED
      BY <2>1, <2>3, <2>4, <2>5, <2>6, AfterReset
<1>3. QED
    BY <1>1, <1>2

LEMMA CardRemoved ==
    ASSUME DeviceInv, RemoveCard
    PROVE  DeviceInv'
<1>1. /\ node \in [Nodes -> NodeType] /\ dev \in [Devs -> DevType] /\ Around
      /\ LinksAgree /\ RunningHasNode /\ RevivalOk
      /\ \A x \in Devs : DeviceOk(dev[x]) /\ NodeOk(dev[x])
      /\ NodesOk
    BY Types DEF DeviceInv
<1>2. /\ card' = [card EXCEPT !.listed = FALSE] /\ UNCHANGED <<fails, env>>
      /\ node' = [n \in Nodes |->
           IF ~InTree(n) THEN node[n]
           ELSE [node[n] EXCEPT !.at = IF node[n].device = None THEN "none" ELSE "lost"]]
      /\ dev' = [d \in Devs |->
           IF \E n \in Nodes : InTree(n) /\ node[n].device = d THEN Destroyed(Witnessed(dev[d], FALSE)) ELSE dev[d]]
    BY DEF RemoveCard
<1>3. Around'
    BY <1>1, <1>2 DEF Around, CardType
<1>5. ASSUME NEW n \in Nodes
      PROVE  /\ node'[n] \in NodeType /\ node'[n].device = node[n].device
             /\ node'[n].at \notin {"on", "off"}
             /\ node'[n].at = "none" => node'[n].device = None
  <2>1. node[n] \in NodeType /\ (node[n].at = "none" => node[n].device = None)
      BY <1>1 DEF NodesOk
  <2>2. CASE InTree(n)
      BY <1>2, <2>1, <2>2 DEF NodeType
  <2>3. CASE ~InTree(n)
      BY <1>2, <2>1, <2>3 DEF InTree
  <2>4. QED
      BY <2>2, <2>3
<1>6. ASSUME NEW d \in Devs
      PROVE  /\ dev'[d] \in DevType /\ DeviceOk(dev'[d]) /\ dev'[d].node = dev[d].node
             /\ dev'[d].pc = dev[d].pc /\ dev'[d].found = dev[d].found
             /\ (Known(dev[d]) => Known(dev'[d])) /\ Keeps(dev[d], dev'[d])
             /\ dev'[d].state = "INITIALIZING" => dev'[d].pc = "init_drop" \/ "lost" \in dev'[d].races
             /\ dev'[d].state = "RUNNING" => BeingRevived(d) \/ "lost" \in dev'[d].races
  <2>1. dev[d] \in DevType /\ DeviceOk(dev[d]) /\ NodeOk(dev[d])
      BY <1>1
  <2>2. CASE \E n \in Nodes : InTree(n) /\ node[n].device = d
    <3>1. dev[d].state # "free"
        BY <1>1, <2>2, DeviceAssumption DEF LinksAgree, DeviceOk
    <3>2. dev'[d] = Destroyed(Witnessed(dev[d], FALSE))
        BY <1>2, <2>2
    <3>3. Follows(dev[d], dev'[d]) /\ dev'[d].state = "GONE"
        BY <2>1, <3>1, <3>2, DestroyedOk
    <3>4. QED
        BY <3>3 DEF Follows
  <2>3. CASE ~\E n \in Nodes : InTree(n) /\ node[n].device = d
    <3>1. dev'[d] = dev[d]
        BY <1>2, <2>3
    <3>2. dev[d].state # "free" => ~InTree(dev[d].node)
        BY <1>1, <2>1, <2>3 DEF LinksAgree, DeviceOk
    <3>3. dev[d].state = "RUNNING" => BeingRevived(d) \/ "lost" \in dev[d].races
        BY <1>1, <3>2 DEF RunningHasNode
    <3>4. QED
        BY <2>1, <3>1, <3>2, <3>3 DEF NodeOk, Keeps
  <2>4. QED
      BY <2>2, <2>3
<1>7. node' \in [Nodes -> NodeType] /\ dev' \in [Devs -> DevType]
    BY <1>2, <1>5, <1>6
<1>8. TypeOK'
    BY <1>3, <1>7 DEF TypeOK, Around, CardType, NodeType, DevType
<1>9. LinksAgree'
    BY <1>1, <1>5, <1>6 DEF LinksAgree
<1>10. RunningHasNode' /\ RevivalOk'
  <2>1. \A x \in Devs : BeingRevived(x) => BeingRevived(x)'
      BY <1>6 DEF BeingRevived
  <2>2. RunningHasNode'
      BY <1>6, <2>1 DEF RunningHasNode
  <2>3. \A y \in Devs : dev[y].pc \in {"init_swap", "init_drop"} => dev[y].found \in Devs /\ Known(dev[dev[y].found])
      BY <1>1 DEF RevivalOk
  <2>4. RevivalOk'
      BY <1>1, <1>6, <2>3, RevivalKept
  <2>5. QED
      BY <2>2, <2>4
<1>11. (\A x \in Devs : DeviceOk(dev[x]) /\ NodeOk(dev[x]))'
  <2>1. \A x \in Devs : DeviceOk(dev[x])'
      BY <1>6 DEF DeviceOk, WorkOk, Astray, Fresh
  <2>2. \A x \in Devs : NodeOk(dev[x])'
      BY <1>6 DEF NodeOk
  <2>3. QED
      BY <2>1, <2>2
<1>12. NodesOk'
    BY <1>5 DEF NodesOk, InTree
<1>13. QED
    BY <1>8, <1>9, <1>10, <1>11, <1>12 DEF DeviceInv

LEMMA NothingMoves ==
    ASSUME DeviceInv, Around', UNCHANGED <<node, dev>>
    PROVE  DeviceInv'
<1>1. /\ TypeOK /\ LinksAgree /\ RunningHasNode /\ RevivalOk /\ NodesOk
      /\ \A d \in Devs : DeviceOk(dev[d]) /\ NodeOk(dev[d])
    BY DEF DeviceInv
<1>2. TypeOK'
    BY <1>1 DEF TypeOK, Around, CardType
<1>3. LinksAgree' /\ NodesOk'
    BY <1>1 DEF LinksAgree, NodesOk, InTree
<1>4. RunningHasNode'
    BY <1>1 DEF RunningHasNode, BeingRevived, InTree
<1>5. RevivalOk'
    BY <1>1 DEF RevivalOk, Known, Revived, Astray
<1>6. (\A d \in Devs : DeviceOk(dev[d]) /\ NodeOk(dev[d]))'
    BY <1>1 DEF DeviceOk, WorkOk, Astray, NodeOk, Fresh, InTree
<1>7. QED
    BY <1>2, <1>3, <1>4, <1>5, <1>6 DEF DeviceInv

-----------------------------------------------------------------------------
(* Reads that fail.                                                         *)
LEMMA FailedReads ==
    ASSUME Around, NEW d \in Devs, ReadFails(d), UNCHANGED <<card, env>>
    PROVE  Around'
<1>1. fails' \in 0..MaxFails
  <2>1. fails \in 0..MaxFails /\ (fails' = fails \/ (fails > 0 /\ fails' = fails - 1))
      BY DEF ReadFails, Around
  <2>2. QED
      BY <2>1, DeviceAssumption
<1>2. QED
    BY <1>1 DEF Around

LEMMA ReadFailures ==
    ASSUME DeviceInv, NEW d \in Devs,
           InitReadFails(d) \/ RereadFails(d) \/ RefreshNoMemory(d) \/ (RefreshRuns(d) /\ dev[d].state = "GONE")
    PROVE  DeviceInv'
<1>1. dev[d] \in DevType /\ Around
    BY Types DEF DeviceInv
<1>2. dev[d].rom \in Roms \cup {None, Freed} /\ [dev[d] EXCEPT !.rom = dev[d].rom] = dev[d]
    BY <1>1 DEF DevType
<1>3. CASE InitReadFails(d)
  <2>1. Around' /\ dev[d].pc = "init_read"
      BY <1>1, <1>3, FailedReads DEF InitReadFails
  <2>2. CASE MayRetry(dev[d]) /\ dev' = [dev EXCEPT ![d] = Retried(dev[d])] /\ UNCHANGED node
      BY <1>2, <2>1, <2>2, Retries
  <2>3. CASE Release(d)
      BY <2>1, <2>3, Releases
  <2>4. QED
      BY <1>3, <2>2, <2>3 DEF InitReadFails, Goes
<1>4. CASE RereadFails(d)
  <2>1. Around' /\ dev[d].pc \in {"reread", "refresh_read"} /\ UNCHANGED node
      BY <1>1, <1>4, FailedReads DEF RereadFails
  <2>2. CASE MayRetry(dev[d])
    <3>1. dev' = [dev EXCEPT ![d] = Retried(dev[d])]
        BY <1>4, <2>2 DEF RereadFails, Goes, FailedConfigRom
    <3>2. QED
        BY <1>2, <2>1, <2>2, <3>1, Retries
  <2>3. CASE ~MayRetry(dev[d])
    <3>1. dev' = [dev EXCEPT ![d] = Gone(dev[d])]
        BY <1>4, <2>3 DEF RereadFails, Goes, FailedConfigRom
    <3>2. QED
        BY <1>2, <2>1, <3>1, GivesUp DEF Refreshing
  <2>4. QED
      BY <2>2, <2>3
<1>5. CASE RefreshNoMemory(d)
  <2>1. Around' /\ dev[d].pc = "refresh_read" /\ UNCHANGED node
      BY <1>1, <1>5 DEF RefreshNoMemory, Around
  <2>2. MayRetry([dev[d] EXCEPT !.rom = Freed]) <=> MayRetry(dev[d])
      BY <1>1 DEF MayRetry, DevType
  <2>3. CASE MayRetry(dev[d])
    <3>1. dev' = [dev EXCEPT ![d] = Retried([dev[d] EXCEPT !.rom = Freed])]
        BY <1>5, <2>2, <2>3 DEF RefreshNoMemory, Goes, FailedConfigRom
    <3>2. QED
        BY <2>1, <2>3, <3>1, Retries
  <2>4. CASE ~MayRetry(dev[d])
    <3>1. dev' = [dev EXCEPT ![d] = Gone([dev[d] EXCEPT !.rom = Freed])]
        BY <1>5, <2>2, <2>4 DEF RefreshNoMemory, Goes, FailedConfigRom
    <3>2. QED
        BY <2>1, <3>1, GivesUp DEF Refreshing
  <2>5. QED
      BY <2>3, <2>4
<1>6. CASE RefreshRuns(d) /\ dev[d].state = "GONE"
  <2>1. /\ Around' /\ dev[d].pc \in Refreshing /\ UNCHANGED node
        /\ dev' = [dev EXCEPT ![d] = Gone(dev[d])]
      BY <1>1, <1>6 DEF RefreshRuns, Around, Refreshing, Goes
  <2>2. QED
      BY <1>2, <1>6, <2>1, GivesUp
<1>7. QED
    BY <1>3, <1>4, <1>5, <1>6

-----------------------------------------------------------------------------
LEMMA WorkKeeps ==
    ASSUME DeviceInv, NEW d \in Devs, Work(d)
    PROVE  DeviceInv'
<1>1. Around
    BY Types DEF DeviceInv
<1>2. CASE StartInit(d) \/ StartRefresh(d) \/ StartUpdate(d) \/ Update(d)
    BY <1>2, StartsInit, StartsRefresh, StartsUpdate, Updates
<1>3. CASE InitReads(d) \/ InitFindsNothing(d) \/ InitAdds(d) \/ InitRevives(d) \/ InitSwaps(d)
    BY <1>3, ReadsRom, FindsNothing, Adds, Revives, Swaps
<1>10. CASE InitDrops(d) \/ Unregister(d)
    BY <1>10, Drops, Unregisters
<1>4. CASE InitAddFails(d)
  <2>1. Release(d) /\ dev[d].pc = "init_add" /\ UNCHANGED <<card, fails, env>>
      BY <1>4 DEF InitAddFails
  <2>2. Around'
      BY <1>1, <2>1 DEF Around
  <2>3. QED
      BY <2>1, <2>2, Releases
<1>5. CASE InitRuns(d)
    BY <1>5, PulledOut, BeginsToRun
<1>6. CASE InitReadFails(d) \/ RereadFails(d) \/ RefreshNoMemory(d) \/ (RefreshRuns(d) /\ dev[d].state = "GONE")
    BY <1>6, ReadFailures
<1>7. CASE RereadSame(d) \/ RereadChanged(d) \/ RefreshReads(d) \/ RefreshUnits(d)
           \/ (RefreshRuns(d) /\ dev[d].state # "GONE")
    BY <1>7, SameRom, ChangedRom, RereadsRom, CreatesUnits, RunsAgain
<1>8. CASE ShutdownLater(d) \/ ShutdownRefused(d) \/ Shutdown(d)
    BY <1>8, ShutsDownLater, RefusesShutdown, ShutsDown
<1>9. QED
    BY <1>2, <1>3, <1>4, <1>5, <1>6, <1>7, <1>8, <1>10 DEF Work

LEMMA DevicesInitially == Init => DeviceInv
<1> SUFFICES ASSUME Init PROVE DeviceInv
    OBVIOUS
<1>1. /\ dev \in [Devs -> DevType] /\ \A d \in Devs : dev[d] = FreeDevice
      /\ node = [n \in Nodes |-> FreeNode] /\ \A n \in Nodes : node[n] = FreeNode
    BY FreeDeviceType DEF Init
<1>2. /\ FreeDevice.state = "free" /\ FreeDevice.node = None /\ ~FreeDevice.queued /\ FreeDevice.pc = "idle"
      /\ ~FreeDevice.added
      /\ FreeNode.at = "none" /\ FreeNode.device = None /\ FreeNode \in NodeType
    BY DEF FreeDevice, FreeNode, NodeType
<1>3. Around
  <2>1. 1 \in 1..(MaxResets + 1) /\ 1 \in 1..MaxVersion
      BY DeviceAssumption
  <2>2. card \in CardType
      BY <2>1 DEF Init, CardType
  <2>3. env \in Environments /\ fails \in 0..MaxFails
      BY DeviceAssumption DEF Init, Environment
  <2>4. QED
      BY <2>2, <2>3 DEF Around
<1>4. TypeOK
    BY <1>1, <1>2, <1>3, Types
<1>5. LinksAgree
    BY <1>1, <1>2, DeviceAssumption DEF LinksAgree
<1>6. RunningHasNode /\ RevivalOk
    BY <1>1, <1>2 DEF RunningHasNode, RevivalOk
<1>7. \A d \in Devs : DeviceOk(dev[d]) /\ NodeOk(dev[d])
    BY <1>1, <1>2 DEF DeviceOk, NodeOk, Early, Refreshing
<1>8. NodesOk
    BY <1>1, <1>2 DEF NodesOk, InTree
<1>9. QED
    BY <1>4, <1>5, <1>6, <1>7, <1>8 DEF DeviceInv

LEMMA DevicesInductive == DeviceInv /\ [Next]_vars => DeviceInv'
<1> SUFFICES ASSUME DeviceInv, [Next]_vars PROVE DeviceInv'
    OBVIOUS
<1>1. Around
    BY Types DEF DeviceInv
<1>2. CASE UNCHANGED vars \/ Settle
  <2>1. Around' /\ UNCHANGED <<node, dev>>
      BY <1>1, <1>2 DEF vars, Settle, Around, CardType
  <2>2. QED
      BY <2>1, NothingMoves
<1>3. CASE BusReset \/ Rebuild \/ RemoveCard
    BY <1>3, BusResets, CardRemoved
<1>4. CASE \E d \in Devs : WorkPicked(d) \/ Work(d)
    BY <1>4, Picks, WorkKeeps
<1>5. QED
    BY <1>2, <1>3, <1>4 DEF Next

(* DevicesConsistent: fw_device and fw_node point at each other, no work item is left of a      *)
(* device that was freed, and a running device is on the bus (fw_node_event(),                  *)
(* fw_device_init(), _refresh() and _shutdown() against each other), for any number of nodes,   *)
(* devices, ROMs, retries and bus resets, and whatever places of the work items these meet,     *)
(* failing allocations included.  The devices for which the code does not keep to that are      *)
(* those that the definitions Astray and RunningHasNode name.                                   *)
THEOREM DevicesCorrect == Spec => []DevicesConsistent
<1>1. DeviceInv => DevicesConsistent
    BY DEF DeviceInv, DevicesConsistent, NoDanglingDevice, NoWorkAfterRelease, DeviceOk
<1>2. QED
    BY <1>1, DevicesInitially, DevicesInductive, PTL DEF Spec
=============================================================================
