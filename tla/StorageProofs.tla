---------------------------- MODULE StorageProofs ----------------------------
EXTENDS FwSbp2, SbpAgent, FiniteSetTheorems, TLAPS

(***************************************************************************)
(* The references, callbacks and lists of SBP-2 ORBs for any number of      *)
(* logical units, ORBs, bus resets and retries.                             *)
(*                                                                          *)
(* OrbReferencesExact counts references; it is not inductive.  OrbInv adds  *)
(* what an ORB is on which list, which thread may use it and what a         *)
(* callback still has to do (OrbSound, ListsSound, ThreadsSound), why the   *)
(* removal of a logical unit finds no command of it (RemovalSound,          *)
(* CommandSound), and the counters of the target, without which their types *)
(* cannot be kept (CountersSound).                                          *)
(*                                                                          *)
(* The target of the other side follows: its logins (TargetInv) and the     *)
(* command block agent of one of them (AgInv).                              *)
(***************************************************************************)

\* The types of all fields.
OrbType ==
    [kind : {"free", "mgmt", "cmd"}, lu : LU \cup {"none"},
     list : SbpThread \cup {"none", "lu", "stack"}, t : {"idle", "flight", "closing", "done"},
     rcode : {"unset", "complete", "failed", "cancelled"}, ref : Int, calls : Nat,
     status : {"none", "ok", "error"}, raced : BOOLEAN, overtaken : BOOLEAN]
LuType ==
    [alive : BOOLEAN, gen : 0 .. SbpMaxGen, login : BOOLEAN, retries : 0 .. SbpRetryLimit + 1,
     sdev : BOOLEAN, blocked : BOOLEAN, workfn : {"login", "reconnect"}, queued : BOOLEAN]
ThreadType ==
    [pc : {"idle", "send", "wait", "cancel", "result", "adding", "unblock", "unblocking"},
     fn : {"none", "login", "reconnect", "logout"},
     after : {"none", "login", "reconnect", "logout", "remove"}, gen : 0 .. SbpMaxGen,
     orb : 0 .. NOrb, lu : LU \cup {"none"}, found : BOOLEAN, retval : {"ok", "error"}]
TgtType ==
    [state : {"absent", "bound", "removing", "gone"}, dont_block : Nat,
     blocked : 0 .. Cardinality(LU), host : BOOLEAN]
BusType == [card : 0 .. SbpMaxGen, device : 0 .. SbpMaxGen, due : BOOLEAN, shutdown : BOOLEAN]

SbpTypes ==
    /\ sbpBus \in BusType
    /\ tgt \in TgtType
    /\ lus \in [LU -> LuType]
    /\ orbs \in [Orb -> OrbType]
    /\ run \in [SbpThread -> ThreadType]
    /\ command \in 0 .. NOrb

-----------------------------------------------------------------------------
(* An ORB by itself.  owned: its sender still holds a reference.            *)
Count(P) == IF P THEN 1 ELSE 0

OrbSound(b, owned) ==
    /\ b.list = "stack" => b.kind = "mgmt" /\ b.t = "done"
    /\ b.kind = "free" <=> b.lu = "none"
    /\ b.raced => b.list = "none"
    /\ b.kind = "free" => b = NoOrb /\ ~owned
    /\ b.kind = "mgmt" => b.rcode # "unset"
    /\ b.kind # "free" /\ ~b.raced =>
        /\ b.t # "idle"
        /\ b.calls <= 1
        /\ b.calls = 0 <=> b.list # "none"
        /\ b.ref = Count(owned) + Count(b.t # "done") + Count(b.calls = 0)
        /\ b.rcode = "unset" => b.calls = 0
        /\ b.kind = "cmd" /\ b.t # "done" /\ b.calls = 0 => b.rcode = "unset"
        /\ b.rcode \in {"failed", "cancelled"} => b.t = "done"
        /\ b.calls = 1 /\ b.t # "done" => b.overtaken

\* A work item waits for the ORB that it sent.
Sent(o) == \E l \in LU : run[l].orb = o

OrbsSound == \A o \in Orb : OrbSound(orbs[o], Sent(o))

\* Where the ORBs are.
ListsSound ==
    \A o \in Orb : LET b == orbs[o] IN
        /\ b.list = "lu" /\ b.kind = "mgmt" => run[b.lu].pc = "wait"
        /\ b.list \in LU => run[b.list].pc = "cancel" /\ b.lu = b.list
        /\ b.list = "eh" => run["eh"].pc = "cancel"

ThreadsSound ==
    /\ run["eh"].pc \in {"idle", "cancel"}
    /\ \A l \in LU : LET r == run[l] IN
        /\ r.pc = "idle" => r = NoThread
        /\ r.pc # "idle" => lus[l].alive
        /\ r.orb # 0 => /\ r.pc \in {"wait", "cancel", "result"}
                        /\ orbs[r.orb].kind = "mgmt" /\ orbs[r.orb].lu = l
        /\ r.pc = "adding" => ~lus[l].sdev /\ r.after # "remove"

\* The removal of a logical unit: no command is left and none can come.
RemovalSound ==
    \A l \in LU : run[l].after = "remove" =>
        /\ run[l].fn = "logout" /\ run[l].pc \in {"send", "wait", "cancel", "result"}
        /\ run[l].pc \in {"wait", "cancel"} => run[l].orb # 0
        /\ ~lus[l].sdev
        /\ \A o \in Orb : orbs[o].lu = l => orbs[o].list # "eh"
                            /\ (orbs[o].kind = "cmd" => orbs[o].list = "none")

CommandSound ==
    /\ \A o \in Orb : orbs[o].kind = "cmd" /\ orbs[o].list # "none" =>
                        command = o \/ orbs[o].list \in LU
    /\ run["eh"].pc = "idle" /\ command # 0 =>
            orbs[command].kind = "cmd" /\ orbs[command].list # "none"
    /\ run["eh"].pc = "cancel" =>
            command # 0 /\ \A o \in Orb : orbs[o].kind = "cmd" => orbs[o].list # "lu"

Blocked == {l \in LU : lus[l].blocked}
Dead == {l \in LU : ~lus[l].alive}
Unsettled == {l \in LU : lus[l].alive /\ ~lus[l].sdev /\ run[l].after # "remove"}

CountersSound ==
    /\ tgt.state = "absent" => (\A l \in LU : lus[l] = NoLu) /\ tgt.blocked = 0
    /\ Cardinality(Blocked) <= tgt.blocked /\ tgt.blocked <= Cardinality(Blocked \cup Dead)
    /\ Cardinality(Unsettled) <= tgt.dont_block

OrbInv ==
    /\ SbpTypes /\ OrbsSound /\ ListsSound /\ ThreadsSound /\ RemovalSound /\ CommandSound
    /\ CountersSound /\ LogicalUnitOutlivesOrbs

-----------------------------------------------------------------------------
(* The helpers on one ORB.                                                  *)

\* A free ORB is sound.
LEMMA NoOrbSound == NoOrb \in OrbType /\ OrbSound(NoOrb, FALSE)
BY SbpAssumption DEF NoOrb, OrbType, OrbSound, SbpThread

\* free_orb(): only what nobody uses is freed.
LEMMA Freed ==
    ASSUME NEW o \in Orb, NEW b \in OrbType, b.kind # "free", OrbSound(b, Sent(o))
    PROVE  /\ free_orb(b, o) \in OrbType /\ OrbSound(free_orb(b, o), Sent(o))
           /\ \/ free_orb(b, o) = b
              \/ free_orb(b, o) = NoOrb /\ b.list = "none" /\ b.t \notin {"flight", "closing"}
<1> DEFINE f == free_orb(b, o)
<1>1. f = b \/ f = NoOrb
    BY DEF free_orb
<1>2. CASE f = b
    BY <1>2
<1>3. CASE f = NoOrb /\ f # b
  <2>1. ~Sent(o) /\ b.list = "none" /\ b.t \notin {"flight", "closing"}
    <3>1. CASE b.raced
      <4>1. b.t = "done" /\ \A l \in LU : run[l].orb # o
          BY <1>3, <3>1 DEF free_orb
      <4>2. QED
          BY <3>1, <4>1 DEF OrbSound, Sent
    <3>2. CASE ~b.raced
      <4>1. b.ref = 0
          BY <1>3, <3>2 DEF free_orb
      <4>2. b.ref = Count(Sent(o)) + Count(b.t # "done") + Count(b.calls = 0)
            /\ (b.calls = 0 <=> b.list # "none")
          BY <3>2 DEF OrbSound
      <4>3. Count(Sent(o)) = 0 /\ Count(b.t # "done") = 0 /\ Count(b.calls = 0) = 0
          BY <4>1, <4>2 DEF Count
      <4>4. ~Sent(o)
        <5>1. 1 # 0
            OBVIOUS
        <5>2. QED
            BY <4>3, <5>1, Zenon DEF Count
      <4>5. b.t = "done" /\ b.calls # 0
          BY <4>3 DEF Count
      <4>6. QED
          BY <4>2, <4>4, <4>5
    <3>3. QED
        BY <3>1, <3>2
  <2>2. Sent(o) = FALSE
      BY <2>1, Zenon DEF Sent
  <2>3. QED
      BY <1>3, <2>1, <2>2, NoOrbSound
<1>4. QED
    BY <1>1, <1>2, <1>3

\* What the last steps of an ORB may do to it: b becomes c.
Advances(b, c) ==
    \/ c = NoOrb
    \/ /\ c.kind = b.kind /\ c.lu = b.lu /\ c.kind # "free"
       /\ c.list \in {"none", "stack", b.list}
       /\ c.t \in {"flight", "closing"} =>
            b.t \in {"flight", "closing"} /\ (b.raced => c.raced) /\ (b.overtaken => c.overtaken)

\* The callback of an ORB: the one reference and the one call that were left.
LEMMA CalledBack ==
    ASSUME NEW o \in Orb, NEW b \in OrbType, NEW status \in {"none", "ok", "error"},
           b.kind # "free", b.lu # "none", b.list = "none", b.rcode # "unset",
           ~b.raced => /\ b.t # "idle" /\ b.calls = 0
                       /\ b.ref = Count(Sent(o)) + Count(b.t # "done") + 1
                       /\ b.rcode \in {"failed", "cancelled"} => b.t = "done"
                       /\ b.t # "done" => b.overtaken
    PROVE  /\ Callback(b, o, status) \in OrbType /\ OrbSound(Callback(b, o, status), Sent(o))
           /\ Advances(b, Callback(b, o, status)) /\ Callback(b, o, status).list = "none"
<1> DEFINE c == [b EXCEPT !.calls = b.calls + 1,
                          !.status = IF b.kind = "mgmt" THEN status ELSE b.status]
           d == [c EXCEPT !.ref = c.ref - 1]
<1>1. Callback(b, o, status) = free_orb(d, o)
    BY DEF Callback, kref_put
<1>2. d \in OrbType
  <2>1. b.calls + 1 \in Nat /\ b.ref - 1 \in Int
        /\ (IF b.kind = "mgmt" THEN status ELSE b.status) \in {"none", "ok", "error"}
      BY DEF OrbType
  <2>2. c \in OrbType /\ c.ref = b.ref
      BY <2>1 DEF OrbType
  <2> HIDE DEF c
  <2>3. c.ref - 1 \in Int
      BY <2>1, <2>2
  <2>4. QED
      BY <2>2, <2>3 DEF OrbType
<1>3. /\ d.kind = b.kind /\ d.lu = b.lu /\ d.list = b.list /\ d.t = b.t /\ d.rcode = b.rcode
      /\ d.calls = b.calls + 1 /\ d.ref = b.ref - 1 /\ d.raced = b.raced
      /\ d.overtaken = b.overtaken
    BY DEF OrbType
<1> HIDE DEF c, d
<1>4. /\ b.calls \in Nat /\ b.ref \in Int /\ b.kind \in {"free", "mgmt", "cmd"}
      /\ b.t \in {"idle", "flight", "closing", "done"} /\ b.raced \in BOOLEAN
      /\ Count(Sent(o)) \in {0, 1} /\ Count(b.t # "done") \in {0, 1}
    BY DEF OrbType, Count
<1>5. OrbSound(d, Sent(o))
  <2>1. ~d.raced => d.calls = 1 /\ d.ref = Count(Sent(o)) + Count(d.t # "done")
      BY <1>3, <1>4
  <2>2. d.calls = 1 => Count(d.calls = 0) = 0
      BY DEF Count
  <2>3. QED
      BY <1>3, <1>4, <2>1, <2>2 DEF OrbSound
<1>6. /\ free_orb(d, o) \in OrbType /\ OrbSound(free_orb(d, o), Sent(o))
      /\ free_orb(d, o) = d \/ free_orb(d, o) = NoOrb
    BY <1>2, <1>3, <1>5, Freed
<1>7. NoOrb.list = "none"
    BY DEF NoOrb
<1>8. QED
    BY <1>1, <1>3, <1>6, <1>7 DEF Advances

-----------------------------------------------------------------------------
(* The counters of the target.                                              *)

\* Sets of logical units are finite, so that they can be counted.
LEMMA LuSets ==
    /\ IsFiniteSet(LU) /\ Cardinality(LU) \in Nat
    /\ \A S \in SUBSET LU : IsFiniteSet(S) /\ Cardinality(S) \in Nat
                            /\ Cardinality(S) <= Cardinality(LU)
BY SbpAssumption, FS_Subset, FS_CardinalityType

\* Steps that neither block nor unblock a logical unit.
LEMMA CountersKept ==
    ASSUME CountersSound, tgt \in TgtType, tgt' \in TgtType,
           \A l \in LU : /\ lus'[l].alive = lus[l].alive /\ lus'[l].blocked = lus[l].blocked
                         /\ l \in Unsettled' => l \in Unsettled,
           tgt'.blocked = tgt.blocked, tgt'.dont_block >= tgt.dont_block,
           tgt'.state = "absent" => tgt.state = "absent" /\ \A l \in LU : lus'[l] = lus[l]
    PROVE  CountersSound'
<1>1. Blocked' = Blocked /\ Dead' = Dead
    BY DEF Blocked, Dead
<1>2. Unsettled' \subseteq Unsettled /\ Unsettled \subseteq LU
    BY DEF Unsettled
<1>3. Cardinality(Unsettled') <= Cardinality(Unsettled)
      /\ Cardinality(Unsettled') \in Nat /\ Cardinality(Unsettled) \in Nat
    BY <1>2, LuSets, FS_Subset
<1>4. tgt.dont_block \in Nat /\ tgt'.dont_block \in Nat
    BY DEF TgtType
<1>5. Cardinality(Unsettled') <= tgt'.dont_block
    BY <1>3, <1>4 DEF CountersSound
<1>6. QED
    BY <1>1, <1>5 DEF CountersSound

\* sbp2_conditionally_block()
LEMMA Blocks ==
    ASSUME CountersSound, SbpTypes, NEW l \in LU, lus[l].alive,
           LET b == sbp2_conditionally_block(tgt, lus, l) IN tgt' = b.tgt /\ lus' = b.lus,
           \A k \in LU : run'[k].after = run[k].after
    PROVE  /\ tgt' \in TgtType /\ lus' \in [LU -> LuType] /\ CountersSound'
           /\ \A k \in LU : lus'[k].alive = lus[k].alive /\ lus'[k].sdev = lus[k].sdev
<1>1. tgt \in TgtType /\ lus \in [LU -> LuType] /\ tgt.state # "absent"
    BY DEF SbpTypes, CountersSound, NoLu
<1>2. CASE tgt' = tgt /\ lus' = lus
  <2>1. Unsettled' = Unsettled
      BY <1>2 DEF Unsettled
  <2>2. QED
      BY <1>1, <1>2, <2>1, CountersKept DEF TgtType
<1>3. CASE /\ ~lus[l].blocked
           /\ tgt' = [tgt EXCEPT !.blocked = @ + 1, !.host = @ \/ tgt.blocked = 0]
           /\ lus' = [lus EXCEPT ![l].blocked = TRUE]
  <2> DEFINE u == [lus[l] EXCEPT !.blocked = TRUE]
  <2>1. /\ lus' \in [LU -> LuType]
        /\ \A k \in LU : lus'[k].alive = lus[k].alive /\ lus'[k].sdev = lus[k].sdev
                         /\ (lus'[k].blocked <=> (lus[k].blocked \/ k = l))
    <3>1. lus[l] \in LuType
        BY <1>1
    <3>2. u \in LuType /\ u.blocked = TRUE /\ u.alive = lus[l].alive /\ u.sdev = lus[l].sdev
        BY <3>1 DEF LuType
    <3>3. lus' = [lus EXCEPT ![l] = u]
        BY <1>3
    <3> HIDE DEF u
    <3>4. lus' \in [LU -> LuType] /\ lus'[l] = u /\ \A k \in LU \ {l} : lus'[k] = lus[k]
        BY <1>1, <3>2, <3>3
    <3>5. QED
        BY <3>2, <3>4
  <2>2. /\ tgt'.blocked = tgt.blocked + 1 /\ tgt'.dont_block = tgt.dont_block
        /\ tgt'.state = tgt.state /\ tgt.blocked \in Nat /\ tgt.dont_block \in Nat
      BY <1>1, <1>3, LuSets DEF TgtType
  <2>3. Unsettled' = Unsettled /\ Dead' = Dead /\ Blocked' = Blocked \cup {l}
        /\ (Blocked \cup Dead)' = (Blocked \cup Dead) \cup {l}
      BY <2>1 DEF Unsettled, Dead, Blocked
  <2>4. l \notin Blocked /\ l \notin Dead /\ Blocked \in SUBSET LU /\ Dead \in SUBSET LU
      BY <1>3 DEF Dead, Blocked
  <2>5. Cardinality(Blocked') = Cardinality(Blocked) + 1
        /\ Cardinality((Blocked \cup Dead)') = Cardinality(Blocked \cup Dead) + 1
        /\ Cardinality((Blocked \cup Dead)') <= Cardinality(LU)
        /\ Cardinality(Blocked) \in Nat /\ Cardinality(Blocked \cup Dead) \in Nat
      BY <2>3, <2>4, LuSets, FS_AddElement
  <2>6. CountersSound'
      BY <1>1, <2>2, <2>3, <2>5 DEF CountersSound
  <2>7. tgt'.blocked \in 0 .. Cardinality(LU)
      BY <2>2, <2>5, LuSets DEF CountersSound
  <2>8. tgt' \in TgtType
      BY <1>1, <1>3, <2>2, <2>7 DEF TgtType
  <2>9. QED
      BY <2>1, <2>6, <2>8
<1>4. QED
    BY <1>2, <1>3 DEF sbp2_conditionally_block

-----------------------------------------------------------------------------
(* Callbacks of transactions and of the status FIFO, and cancellation.      *)

\* What a callback does: ORB o becomes c, and a command may end and the host be blocked.
CallbackEffect(o, c) ==
    /\ orbs' = [orbs EXCEPT ![o] = c] /\ c \in OrbType
    /\ OrbSound(c, Sent(o)) /\ Advances(orbs[o], c)
    /\ \/ command' = complete_command_orb(o) /\ c.list = "none"
       \/ command' = command /\ (c.list = "none" => orbs[o].list = "none")
    /\ tgt' \in TgtType /\ lus' \in [LU -> LuType] /\ CountersSound'
    /\ \A k \in LU : lus'[k].alive = lus[k].alive /\ lus'[k].sdev = lus[k].sdev

\* A step that leaves the target and its logical units alone keeps the counters.
LEMMA HostUntouched ==
    ASSUME SbpTypes, CountersSound, UNCHANGED <<tgt, lus>>,
           \A k \in LU : run'[k].after = run[k].after
    PROVE  tgt' \in TgtType /\ lus' \in [LU -> LuType] /\ CountersSound'
<1>1. Unsettled' = Unsettled
    BY DEF Unsettled
<1>2. tgt \in TgtType /\ lus \in [LU -> LuType] /\ tgt.dont_block \in Nat
    BY DEF SbpTypes, TgtType
<1>3. QED
    BY <1>1, <1>2, CountersKept

\* The callback without a status of an ORB that is off its list.
LEMMA CallbackFails ==
    ASSUME SbpTypes, CountersSound, NEW o \in Orb, NEW b \in OrbType,
           orbs[o].kind # "free", b.kind = orbs[o].kind, b.lu = orbs[o].lu, b.lu \in LU,
           b.list = "none", b.rcode # "unset",
           ~b.raced => /\ b.t # "idle" /\ b.calls = 0
                       /\ b.ref = Count(Sent(o)) + Count(b.t # "done") + 1
                       /\ b.rcode \in {"failed", "cancelled"} => b.t = "done"
                       /\ b.t # "done" => b.overtaken,
           b.t \in {"flight", "closing"} =>
               orbs[o].t \in {"flight", "closing"} /\ (orbs[o].raced => b.raced)
               /\ (orbs[o].overtaken => b.overtaken),
           FailedCallback(b, o), \A k \in LU : run'[k].after = run[k].after
    PROVE  CallbackEffect(o, Callback(b, o, "none"))
<1> DEFINE c == Callback(b, o, "none")
<1>1. /\ c \in OrbType /\ OrbSound(c, Sent(o)) /\ Advances(b, c) /\ c.list = "none"
    BY SbpAssumption, CalledBack
<1> HIDE DEF c
<1>2. Advances(orbs[o], c)
    BY <1>1 DEF Advances
<1>3. orbs' = [orbs EXCEPT ![o] = c] /\ command' = complete_command_orb(o)
    BY DEF FailedCallback, c
<1>4. /\ tgt' \in TgtType /\ lus' \in [LU -> LuType] /\ CountersSound'
      /\ \A k \in LU : lus'[k].alive = lus[k].alive /\ lus'[k].sdev = lus[k].sdev
  <2>1. CASE b.kind = "cmd" /\ lus[b.lu].alive
    <3>1. LET x == sbp2_conditionally_block(tgt, lus, b.lu) IN tgt' = x.tgt /\ lus' = x.lus
        BY <2>1, Zenon DEF FailedCallback
    <3>2. QED
        BY <2>1, <3>1, Blocks
  <2>2. CASE ~(b.kind = "cmd" /\ lus[b.lu].alive)
    <3>1. tgt' = tgt /\ lus' = lus
        BY <2>2 DEF FailedCallback
    <3>2. QED
        BY <3>1, HostUntouched
  <2>3. QED
      BY <2>1, <2>2
<1>5. CallbackEffect(o, c)
    BY <1>1, <1>2, <1>3, <1>4 DEF CallbackEffect
<1>6. QED
    BY <1>5 DEF c

\* complete_transaction(), also as the callback of a cancelled transaction.
LEMMA TransactionCompleted ==
    ASSUME SbpTypes, CountersSound, NEW o \in Orb, OrbSound(orbs[o], Sent(o)),
           orbs[o].t \in {"flight", "closing"}, NEW b,
           \/ b = orbs[o]
           \/ orbs[o].list # "none" /\ b = [orbs[o] EXCEPT !.list = "stack"],
           NEW rcode \in {"complete", "failed", "cancelled"},
           b # orbs[o] => rcode = "cancelled",
           CompleteTransaction(o, b, rcode), \A k \in LU : run'[k].after = run[k].after
    PROVE  \E c \in OrbType : CallbackEffect(o, c)
<1> DEFINE r == IF b.rcode = "unset" THEN rcode ELSE b.rcode
           b1 == [b EXCEPT !.t = "done", !.overtaken = FALSE, !.rcode = r, !.ref = b.ref - 1]
           b2 == [b1 EXCEPT !.list = "none"]
<1>1. orbs[o] \in OrbType
    BY DEF SbpTypes
<1>2. /\ b \in OrbType /\ b.kind = orbs[o].kind /\ b.lu = orbs[o].lu /\ b.t = orbs[o].t
      /\ b.rcode = orbs[o].rcode /\ b.ref = orbs[o].ref /\ b.calls = orbs[o].calls
      /\ b.raced = orbs[o].raced /\ b.overtaken = orbs[o].overtaken
      /\ b.list = orbs[o].list \/ (b.list = "stack" /\ orbs[o].list # "none")
  <2>1. CASE b = orbs[o]
      BY <1>1, <2>1
  <2>2. CASE orbs[o].list # "none" /\ b = [orbs[o] EXCEPT !.list = "stack"]
      BY <1>1, <2>2 DEF OrbType
  <2>3. QED
      BY <2>1, <2>2
<1>3. orbs[o].kind # "free" /\ orbs[o].lu \in LU
  <2>1. NoOrb.t = "idle"
      BY DEF NoOrb
  <2>2. orbs[o].kind # "free"
      BY <2>1 DEF OrbSound
  <2>3. QED
      BY <1>1, <2>2 DEF OrbType, OrbSound
<1>4. r \in {"complete", "failed", "cancelled"} /\ b.ref - 1 \in Int /\ b.calls \in Nat
    BY <1>2 DEF OrbType
<1>5. b1 \in OrbType
  <2> HIDE DEF r
  <2>1. b \in OrbType /\ r \in {"complete", "failed", "cancelled"} /\ b.ref - 1 \in Int
      BY <1>2, <1>4
  <2>2. QED
      BY <2>1 DEF OrbType
<1>6. /\ b1.kind = b.kind /\ b1.lu = b.lu /\ b1.list = b.list /\ b1.t = "done" /\ b1.rcode = r
      /\ b1.ref = b.ref - 1 /\ b1.calls = b.calls /\ b1.raced = b.raced
    BY <1>2 DEF OrbType
<1>7. CASE r # "complete"
  <2>1. FailedCallback(b2, o)
      BY <1>7, Zenon DEF CompleteTransaction
  <2> HIDE DEF b1, r
  <2>2. b2 \in OrbType
      BY <1>5 DEF OrbType
  <2>3. /\ b2.kind = b.kind /\ b2.lu = b.lu /\ b2.list = "none" /\ b2.t = "done"
        /\ b2.rcode = r /\ b2.ref = b.ref - 1 /\ b2.calls = b.calls /\ b2.raced = b.raced
      BY <1>5, <1>6 DEF OrbType
  <2> HIDE DEF b2
  <2>4. ~b.raced => b.calls = 0 /\ b.ref = Count(Sent(o)) + 2
    <3>1. HAVE ~b.raced
    <3>2. b.calls = 0
        BY <1>1, <1>2, <1>3, <1>4, <1>7, <3>1 DEF OrbSound, OrbType, r
    <3>3. Count(b.t # "done") = 1 /\ Count(b.calls = 0) = 1
        BY <1>2, <3>2 DEF Count
    <3>4. Count(Sent(o)) \in {0, 1}
        BY DEF Count
    <3>5. QED
        BY <1>2, <1>3, <3>1, <3>2, <3>3, <3>4 DEF OrbSound
  <2>5. Count(b2.t # "done") = 0 /\ Count(Sent(o)) \in {0, 1}
      BY <2>3 DEF Count
  <2>6. ~b2.raced => b2.calls = 0 /\ b2.ref = Count(Sent(o)) + Count(b2.t # "done") + 1
      BY <2>3, <2>4, <2>5
  <2>7. CallbackEffect(o, Callback(b2, o, "none"))
      BY <1>2, <1>3, <1>4, <2>1, <2>2, <2>3, <2>6, CallbackFails
  <2>8. Callback(b2, o, "none") \in OrbType
      BY <2>7 DEF CallbackEffect
  <2>9. QED
      BY <2>7, <2>8
<1>8. CASE r = "complete"
  <2> DEFINE c == free_orb(b1, o)
  <2>1. orbs' = [orbs EXCEPT ![o] = c] /\ UNCHANGED <<tgt, lus, command>>
      BY <1>8, Zenon DEF CompleteTransaction
  <2> HIDE DEF c, b1, r
  <2>2. OrbSound(b1, Sent(o))
    <3>1. b1.list = "stack" => b1.kind = "mgmt"
      <4>1. CASE b = orbs[o]
          BY <1>2, <1>6, <4>1 DEF OrbSound
      <4>2. CASE b # orbs[o]
        <5>1. orbs[o].rcode = "complete" /\ orbs[o].list # "none" /\ rcode = "cancelled"
            BY <1>2, <1>8, <4>2 DEF r
        <5>2. QED
            BY <1>1, <1>2, <1>3, <1>6, <5>1 DEF OrbSound, OrbType
      <4>3. QED
          BY <4>1, <4>2
    <3>2. Count(b.t # "done") = 1 /\ Count(b1.t # "done") = 0 /\ Count(Sent(o)) \in {0, 1}
          /\ Count(b.calls = 0) \in {0, 1}
        BY <1>2, <1>6 DEF Count
    <3>3. ~b1.raced => /\ b1.calls <= 1 /\ (b1.calls = 0 <=> b1.list # "none")
                       /\ b1.ref = Count(Sent(o)) + Count(b1.t # "done") + Count(b1.calls = 0)
        BY <1>2, <1>3, <1>6, <3>2 DEF OrbSound
    <3>4. b1.raced => b1.list = "none"
        BY <1>2, <1>6 DEF OrbSound
    <3>5. QED
        BY <1>2, <1>3, <1>6, <1>8, <3>1, <3>3, <3>4, SbpAssumption DEF OrbSound
  <2>3. /\ c \in OrbType /\ OrbSound(c, Sent(o))
        /\ c = b1 \/ (c = NoOrb /\ b1.list = "none")
    <3>1. b1.kind # "free"
        BY <1>2, <1>3, <1>6
    <3>2. QED
        BY <1>5, <2>2, <3>1, Freed DEF c
  <2>4. Advances(orbs[o], c)
      BY <1>2, <1>3, <1>6, <2>3 DEF Advances
  <2>5. c.list = "none" => orbs[o].list = "none"
      BY <1>2, <1>6, <2>3
  <2>6. CallbackEffect(o, c)
      BY <2>1, <2>3, <2>4, <2>5, HostUntouched DEF CallbackEffect
  <2>7. QED
      BY <2>3, <2>6
<1>9. QED
    BY <1>7, <1>8

\* Threads keep their places.
SamePlaces ==
    /\ run' \in [SbpThread -> ThreadType]
    /\ \A h \in SbpThread :
        /\ run'[h].pc = run[h].pc /\ run'[h].fn = run[h].fn /\ run'[h].after = run[h].after
        /\ run'[h].orb = run[h].orb
        /\ run[h].pc = "idle" => run'[h] = run[h]

\* Whatever the callback of one ORB does, the invariant is kept.
LEMMA CallbackKeeps ==
    ASSUME OrbInv, NEW o \in Orb, orbs[o].kind # "free", NEW c, CallbackEffect(o, c),
           UNCHANGED sbpBus, SamePlaces
    PROVE  OrbInv'
<1>1. /\ orbs' \in [Orb -> OrbType] /\ orbs'[o] = c /\ c \in OrbType
      /\ \A p \in Orb \ {o} : orbs'[p] = orbs[p]
      /\ orbs \in [Orb -> OrbType]
    BY DEF CallbackEffect, OrbInv, SbpTypes
<1>2. /\ NoOrb.list = "none" /\ NoOrb.t = "idle" /\ NoOrb.kind = "free" /\ NoOrb.lu = "none"
      /\ "none" \notin LU /\ "lu" \notin LU /\ "stack" \notin LU /\ "eh" \notin LU
    BY SbpAssumption DEF NoOrb
<1>3. /\ c.list # "none" => c.kind = orbs[o].kind /\ c.lu = orbs[o].lu
      /\ c.list \in {"none", "stack", orbs[o].list}
      /\ c.kind # "free" => c.kind = orbs[o].kind /\ c.lu = orbs[o].lu
      /\ c.kind = "free" => c.lu = "none" /\ c.list = "none" /\ ~Sent(o)
      /\ c.list = "stack" => c.kind = "mgmt"
    BY <1>2 DEF CallbackEffect, Advances, OrbSound
<1>4. \A h \in SbpThread : run'[h].pc = run[h].pc /\ run'[h].after = run[h].after
                           /\ run'[h].orb = run[h].orb /\ run'[h].fn = run[h].fn
    BY DEF SamePlaces
<1>5. LU \subseteq SbpThread /\ "eh" \in SbpThread
    BY DEF SbpThread
<1>6. command' = command \/ (command' = 0 /\ command = o /\ run["eh"].pc = "idle")
    BY DEF CallbackEffect, complete_command_orb
<1>7. command = o /\ run["eh"].pc = "idle" => command' = 0 \/ c.list # "none"
  <2>1. 0 \notin Orb
      BY SbpAssumption DEF Orb
  <2>2. command = o /\ run["eh"].pc = "idle" => orbs[o].list # "none"
      BY <2>1 DEF OrbInv, CommandSound
  <2>3. QED
      BY <2>2 DEF CallbackEffect, complete_command_orb
<1>8. SbpTypes'
    BY <1>1, <1>6, SbpAssumption DEF CallbackEffect, SamePlaces, OrbInv, SbpTypes
<1>9. OrbsSound'
  <2> SUFFICES ASSUME NEW p \in Orb PROVE OrbSound(orbs'[p], Sent(p)')
      BY DEF OrbsSound
  <2>1. Sent(p)' = Sent(p)
      BY <1>4, <1>5, Zenon DEF Sent
  <2>2. CASE p = o
      BY <1>1, <2>1, <2>2, Zenon DEF CallbackEffect
  <2>3. CASE p # o
      BY <1>1, <2>1, <2>3, Zenon DEF OrbInv, OrbsSound
  <2>4. QED
      BY <2>2, <2>3
<1>10. ListsSound'
  <2> SUFFICES ASSUME NEW p \in Orb
               PROVE  LET b == orbs'[p] IN
                      /\ b.list = "lu" /\ b.kind = "mgmt" => run'[b.lu].pc = "wait"
                      /\ b.list \in LU => run'[b.list].pc = "cancel" /\ b.lu = b.list
                      /\ b.list = "eh" => run'["eh"].pc = "cancel"
      BY DEF ListsSound
  <2>1. /\ orbs[p].list = "lu" /\ orbs[p].kind = "mgmt" => run[orbs[p].lu].pc = "wait"
        /\ orbs[p].list \in LU => run[orbs[p].list].pc = "cancel" /\ orbs[p].lu = orbs[p].list
        /\ orbs[p].list = "eh" => run["eh"].pc = "cancel"
      BY Zenon DEF OrbInv, ListsSound
  <2>2. orbs[p].list = "lu" => orbs[p].lu \in LU
    <3>1. orbs[p].list # "none"
        => orbs[p].kind # "free" /\ orbs[p].lu # "none"
        BY <1>2 DEF OrbInv, OrbsSound, OrbSound
    <3>2. QED
        BY <1>1, <3>1 DEF OrbType
  <2>3. CASE p = o
      BY <1>1, <1>2, <1>3, <1>4, <1>5, <2>1, <2>2, <2>3
  <2>4. CASE p # o
      BY <1>1, <1>2, <1>4, <1>5, <2>1, <2>2, <2>4
  <2>5. QED
      BY <2>3, <2>4
<1>11. ThreadsSound'
  <2>1. run'["eh"].pc \in {"idle", "cancel"}
      BY <1>4, <1>5 DEF OrbInv, ThreadsSound
  <2>2. ASSUME NEW l \in LU, run'[l].orb # 0
        PROVE  run'[l].pc \in {"wait", "cancel", "result"}
               /\ orbs'[run'[l].orb].kind = "mgmt" /\ orbs'[run'[l].orb].lu = l
    <3> DEFINE p == run[l].orb
    <3>1. p # 0 /\ run'[l].orb = p /\ run'[l].pc = run[l].pc
        BY <1>4, <1>5, <2>2
    <3>2. run[l].pc \in {"wait", "cancel", "result"} /\ orbs[p].kind = "mgmt" /\ orbs[p].lu = l
        BY <3>1 DEF OrbInv, ThreadsSound
    <3>3. p \in Orb
        BY <1>5, <3>1, SbpAssumption DEF OrbInv, SbpTypes, ThreadType, Orb
    <3>4. Sent(p)
        BY DEF Sent
    <3> HIDE DEF p
    <3>5. CASE p = o
        BY <1>1, <1>3, <3>1, <3>2, <3>4, <3>5
    <3>6. CASE p # o
        BY <1>1, <3>1, <3>2, <3>3, <3>6
    <3>7. QED
        BY <3>5, <3>6
  <2>3. ASSUME NEW l \in LU
        PROVE  /\ run'[l].pc = "idle" => run'[l] = NoThread
               /\ run'[l].pc # "idle" => lus'[l].alive
               /\ run'[l].pc = "adding" => ~lus'[l].sdev /\ run'[l].after # "remove"
      BY <1>4, <1>5 DEF OrbInv, ThreadsSound, CallbackEffect, SamePlaces
  <2>4. QED
      BY <2>1, <2>2, <2>3, Zenon DEF ThreadsSound
<1>12. RemovalSound'
  <2> SUFFICES ASSUME NEW l \in LU, run'[l].after = "remove"
               PROVE  /\ run'[l].fn = "logout" /\ run'[l].pc \in {"send", "wait", "cancel", "result"}
                      /\ run'[l].pc \in {"wait", "cancel"} => run'[l].orb # 0
                      /\ ~lus'[l].sdev
                      /\ \A p \in Orb : orbs'[p].lu = l => orbs'[p].list # "eh"
                            /\ (orbs'[p].kind = "cmd" => orbs'[p].list = "none")
      BY Zenon DEF RemovalSound
  <2>1. /\ run[l].fn = "logout" /\ run[l].pc \in {"send", "wait", "cancel", "result"}
        /\ run[l].pc \in {"wait", "cancel"} => run[l].orb # 0
        /\ ~lus[l].sdev
        /\ \A p \in Orb : orbs[p].lu = l => orbs[p].list # "eh"
                            /\ (orbs[p].kind = "cmd" => orbs[p].list = "none")
      BY <1>4, <1>5, Zenon DEF OrbInv, RemovalSound
  <2>2. c.lu = l => c.list # "eh" /\ (c.kind = "cmd" => c.list = "none")
      BY <1>2, <1>3, <2>1
  <2>3. ~lus'[l].sdev
      BY <2>1 DEF CallbackEffect
  <2>4. QED
      BY <1>1, <1>4, <1>5, <2>1, <2>2, <2>3
<1>13. CommandSound'
  <2>1. ASSUME NEW p \in Orb, orbs'[p].kind = "cmd", orbs'[p].list # "none"
        PROVE  command' = p \/ orbs'[p].list \in LU
    <3>1. orbs'[p].kind = orbs[p].kind /\ orbs'[p].list = orbs[p].list
        BY <1>1, <1>3, <2>1
    <3>2. command = p \/ orbs[p].list \in LU
        BY <2>1, <3>1, Zenon DEF OrbInv, CommandSound
    <3>3. command # p \/ command' = p \/ (run["eh"].pc = "idle" /\ command = o /\ command' = 0)
        BY <1>6, Zenon
    <3>4. QED
        BY <1>1, <1>7, <2>1, <3>1, <3>2, <3>3 DEF CallbackEffect, complete_command_orb
  <2>2. ASSUME run'["eh"].pc = "idle", command' # 0
        PROVE  orbs'[command'].kind = "cmd" /\ orbs'[command'].list # "none"
    <3>1. command' = command /\ run["eh"].pc = "idle" /\ command \in Orb
        BY <1>4, <1>5, <1>6, <2>2, SbpAssumption DEF OrbInv, SbpTypes, Orb
    <3>2. orbs[command].kind = "cmd" /\ orbs[command].list # "none"
        BY <2>2, <3>1 DEF OrbInv, CommandSound
    <3>3. CASE command = o
        BY <1>1, <1>3, <1>7, <2>2, <3>1, <3>2, <3>3
    <3>4. CASE command # o
        BY <1>1, <3>1, <3>2, <3>4
    <3>5. QED
        BY <3>3, <3>4
  <2>3. ASSUME run'["eh"].pc = "cancel"
        PROVE  command' # 0 /\ \A p \in Orb : orbs'[p].kind = "cmd" => orbs'[p].list # "lu"
    <3>1. run["eh"].pc = "cancel"
        BY <1>4, <1>5, <2>3
    <3>2. command # 0 /\ \A p \in Orb : orbs[p].kind = "cmd" => orbs[p].list # "lu"
        BY <3>1, Zenon DEF OrbInv, CommandSound
    <3>3. QED
        BY <1>1, <1>3, <1>6, <3>1, <3>2
  <2>4. QED
      BY <2>1, <2>2, <2>3, Zenon DEF CommandSound
<1>14. LogicalUnitOutlivesOrbs'
  <2> SUFFICES ASSUME NEW p \in Orb, orbs'[p].t \in {"flight", "closing"}
               PROVE  lus'[orbs'[p].lu].alive \/ orbs'[p].overtaken \/ orbs'[p].raced
      BY DEF LogicalUnitOutlivesOrbs
  <2>1. orbs[p].t \in {"flight", "closing"} /\ orbs'[p].lu = orbs[p].lu
        /\ (orbs[p].raced => orbs'[p].raced) /\ (orbs[p].overtaken => orbs'[p].overtaken)
      BY <1>1, <1>2 DEF CallbackEffect, Advances
  <2>2. lus[orbs[p].lu].alive \/ orbs[p].overtaken \/ orbs[p].raced
      BY <2>1 DEF OrbInv, LogicalUnitOutlivesOrbs
  <2>3. orbs[p].lu \in LU
    <3>1. orbs[p].kind # "free"
        BY <1>2, <2>1 DEF OrbInv, OrbsSound, OrbSound
    <3>2. QED
        BY <1>1, <3>1 DEF OrbInv, OrbsSound, OrbSound, OrbType
  <2>4. QED
      BY <2>1, <2>2, <2>3 DEF CallbackEffect
<1>15. CountersSound'
    BY DEF CallbackEffect
<1>16. QED
    BY <1>8, <1>9, <1>10, <1>11, <1>12, <1>13, <1>14, <1>15 DEF OrbInv

\* A step of no thread leaves every thread where it is.
LEMMA PlacesUnchanged ==
    ASSUME SbpTypes, UNCHANGED run
    PROVE  SamePlaces /\ \A l \in LU : run'[l].after = run[l].after
BY DEF SbpTypes, SamePlaces

\* An ORB with a transaction or on a list is one.
LEMMA InUse ==
    ASSUME OrbInv, NEW o \in Orb,
           orbs[o].t # "idle" \/ orbs[o].list # "none" \/ orbs[o].kind # "free"
    PROVE  orbs[o].kind # "free" /\ orbs[o].lu \in LU /\ orbs[o] \in OrbType
           /\ OrbSound(orbs[o], Sent(o))
<1>1. orbs[o] \in OrbType /\ OrbSound(orbs[o], Sent(o))
    BY DEF OrbInv, SbpTypes, OrbsSound
<1>2. NoOrb.t = "idle" /\ NoOrb.list = "none"
    BY DEF NoOrb
<1>3. orbs[o].kind # "free"
    BY <1>1, <1>2 DEF OrbSound
<1>4. QED
    BY <1>1, <1>3 DEF OrbType, OrbSound

\* The end of the ORB pointer write.
LEMMA TransactionEndsKeeps ==
    ASSUME OrbInv, NEW o \in Orb, TransactionEnds(o)
    PROVE  OrbInv'
<1> DEFINE b == orbs[o]
           c == [b EXCEPT !.t = "closing"]
<1>1. b.kind # "free" /\ b.lu \in LU /\ b \in OrbType /\ OrbSound(b, Sent(o)) /\ b.t = "flight"
    BY InUse DEF TransactionEnds
<1>2. orbs' = [orbs EXCEPT ![o] = c] /\ UNCHANGED <<sbpBus, tgt, lus, run, command>>
    BY DEF TransactionEnds
<1> HIDE DEF b
<1>3. /\ c \in OrbType /\ c.kind = b.kind /\ c.lu = b.lu /\ c.list = b.list /\ c.t = "closing"
      /\ c.rcode = b.rcode /\ c.ref = b.ref /\ c.calls = b.calls /\ c.raced = b.raced
      /\ c.overtaken = b.overtaken
    BY <1>1 DEF OrbType
<1> HIDE DEF c
<1>4. Count(c.t # "done") = Count(b.t # "done")
    BY <1>1, <1>3 DEF Count
<1>5. OrbSound(c, Sent(o))
    BY <1>1, <1>3, <1>4 DEF OrbSound
<1>6. Advances(b, c)
    BY <1>1, <1>3 DEF Advances
<1>7. CallbackEffect(o, c)
    BY <1>2, <1>3, <1>5, <1>6, HostUntouched DEF CallbackEffect, OrbInv, b
<1>8. QED
    BY <1>1, <1>2, <1>7, CallbackKeeps, PlacesUnchanged DEF OrbInv, b

\* complete_transaction()
LEMMA CompleteTransactionKeeps ==
    ASSUME OrbInv, NEW o \in Orb, NEW r \in {"complete", "failed"}, complete_transaction(o, r)
    PROVE  OrbInv'
<1>1. orbs[o].kind # "free" /\ OrbSound(orbs[o], Sent(o)) /\ orbs[o].t = "closing"
    BY InUse DEF complete_transaction
<1>2. CompleteTransaction(o, orbs[o], r) /\ UNCHANGED <<sbpBus, run>>
    BY DEF complete_transaction
<1>3. SamePlaces /\ \A l \in LU : run'[l].after = run[l].after
    BY <1>2, PlacesUnchanged DEF OrbInv
<1>4. PICK c \in OrbType : CallbackEffect(o, c)
    BY <1>1, <1>2, <1>3, TransactionCompleted DEF OrbInv
<1>5. QED
    BY <1>1, <1>2, <1>3, <1>4, CallbackKeeps

\* sbp2_status_write()
LEMMA StatusWriteKeeps ==
    ASSUME OrbInv, NEW o \in Orb, NEW s \in {"ok", "error"}, sbp2_status_write(o, s)
    PROVE  OrbInv'
<1> DEFINE a == orbs[o]
           ov == IF a.t # "done" THEN TRUE ELSE a.overtaken
           b == [a EXCEPT !.rcode = "complete", !.list = "none",
                          !.overtaken = a.overtaken \/ a.t # "done"]
           c == Callback(b, o, s)
<1>1. a.kind # "free" /\ a.lu \in LU /\ a \in OrbType /\ OrbSound(a, Sent(o)) /\ a.list = "lu"
    BY InUse DEF sbp2_status_write
<1>2. /\ orbs' = [orbs EXCEPT ![o] = c] /\ command' = complete_command_orb(o)
      /\ UNCHANGED <<sbpBus, tgt, lus, run>>
    BY DEF sbp2_status_write
<1> HIDE DEF a
<1>3. /\ b \in OrbType /\ b.kind = a.kind /\ b.lu = a.lu /\ b.list = "none" /\ b.t = a.t
      /\ b.rcode = "complete" /\ b.ref = a.ref /\ b.calls = a.calls /\ b.raced = a.raced
      /\ (a.overtaken \/ a.t # "done" => b.overtaken)
    BY <1>1 DEF OrbType
<1> HIDE DEF b, ov
<1>4. b.lu # "none" /\ a.t \in {"idle", "flight", "closing", "done"}
    BY <1>1, <1>3, SbpAssumption DEF OrbType
<1>5. ~a.raced
    BY <1>1 DEF OrbSound
<1>6. a.calls = 0 /\ a.t # "idle" /\ a.ref = Count(Sent(o)) + Count(a.t # "done") + Count(a.calls = 0)
    BY <1>1, <1>5 DEF OrbSound
<1>7. Count(a.calls = 0) = 1
    BY <1>6 DEF Count
<1>8. /\ c \in OrbType /\ OrbSound(c, Sent(o)) /\ Advances(b, c) /\ c.list = "none"
    BY <1>1, <1>3, <1>4, <1>5, <1>6, <1>7, CalledBack
<1> HIDE DEF c
<1>9. Advances(a, c)
    BY <1>3, <1>4, <1>8 DEF Advances
<1>10. SamePlaces /\ \A l \in LU : run'[l].after = run[l].after
    BY <1>2, PlacesUnchanged DEF OrbInv
<1>11. CallbackEffect(o, c)
    BY <1>2, <1>8, <1>9, <1>10, HostUntouched DEF CallbackEffect, OrbInv, a
<1>12. QED
    BY <1>1, <1>2, <1>10, <1>11, CallbackKeeps DEF a

\* One round of sbp2_cancel_orbs().
LEMMA CancelKeeps ==
    ASSUME OrbInv, NEW h \in SbpThread, sbp2_cancel_orbs(h)
    PROVE  OrbInv'
<1>1. run[h].pc = "cancel" /\ UNCHANGED sbpBus /\ run' = [run EXCEPT ![h].found = TRUE]
    BY DEF sbp2_cancel_orbs
<1>2. SamePlaces /\ \A l \in LU : run'[l].after = run[l].after
  <2>1. run \in [SbpThread -> ThreadType] /\ LU \subseteq SbpThread
      BY DEF OrbInv, SbpTypes, SbpThread
  <2> DEFINE t == [run[h] EXCEPT !.found = TRUE]
  <2>2. /\ t \in ThreadType /\ t.pc = run[h].pc /\ t.fn = run[h].fn /\ t.after = run[h].after
        /\ t.orb = run[h].orb
    <3>1. ASSUME NEW u \in ThreadType
          PROVE  LET v == [u EXCEPT !.found = TRUE]
                 IN v \in ThreadType /\ v.pc = u.pc /\ v.fn = u.fn /\ v.after = u.after
                    /\ v.orb = u.orb
        BY DEF ThreadType
    <3>2. QED
        BY <2>1, <3>1
  <2>3. run' = [run EXCEPT ![h] = t]
      BY <1>1
  <2> HIDE DEF t
  <2>4. run' \in [SbpThread -> ThreadType] /\ run'[h] = t
        /\ \A g \in SbpThread \ {h} : run'[g] = run[g]
      BY <2>1, <2>2, <2>3
  <2>5. QED
      BY <1>1, <2>1, <2>2, <2>4 DEF SamePlaces
<1>3. PICK o \in Spliced(orbs, h) :
        IF orbs[o].t = "flight"
        THEN CompleteTransaction(o, [orbs[o] EXCEPT !.list = "stack"], "cancelled")
        ELSE FailedCallback([orbs[o] EXCEPT !.rcode = "cancelled", !.list = "none",
                                            !.raced = (orbs[o].t = "closing")], o)
    BY DEF sbp2_cancel_orbs
<1> DEFINE a == orbs[o]
<1>4. o \in Orb /\ a.list = h /\ h \notin {"none", "lu", "stack"}
    BY SbpAssumption DEF Spliced, SbpThread
<1>5. /\ a.kind # "free" /\ a.lu \in LU /\ a \in OrbType /\ OrbSound(a, Sent(o))
      /\ a.lu # "none"
    BY <1>4, InUse, SbpAssumption
<1>6. ~a.raced /\ a.calls = 0 /\ a.t # "idle"
      /\ a.ref = Count(Sent(o)) + Count(a.t # "done") + 1
  <2>1. ~a.raced
      BY <1>4, <1>5 DEF OrbSound
  <2>2. a.calls = 0 /\ a.t # "idle"
        /\ a.ref = Count(Sent(o)) + Count(a.t # "done") + Count(a.calls = 0)
      BY <1>4, <1>5, <2>1 DEF OrbSound
  <2>3. Count(a.calls = 0) = 1
      BY <2>2 DEF Count
  <2>4. QED
      BY <2>1, <2>2, <2>3
<1>7. CASE a.t = "flight"
  <2> DEFINE b == [orbs[o] EXCEPT !.list = "stack"]
  <2>1. CompleteTransaction(o, b, "cancelled")
      BY <1>3, <1>7
  <2> HIDE DEF b
  <2>2. b = [orbs[o] EXCEPT !.list = "stack"]
      BY DEF b
  <2>3. \E c \in OrbType : CallbackEffect(o, c)
      BY <1>2, <1>4, <1>5, <1>7, <2>1, <2>2, TransactionCompleted DEF OrbInv
  <2>4. QED
      BY <1>1, <1>2, <1>4, <1>5, <2>3, CallbackKeeps
<1>8. CASE a.t # "flight"
  <2> DEFINE rc == (a.t = "closing")
             b == [a EXCEPT !.rcode = "cancelled", !.list = "none", !.raced = rc]
  <2>1. FailedCallback(b, o)
      BY <1>3, <1>8
  <2>2. rc \in BOOLEAN
      OBVIOUS
  <2> HIDE DEF a, rc
  <2>3. /\ b \in OrbType /\ b.kind = a.kind /\ b.lu = a.lu /\ b.list = "none" /\ b.t = a.t
        /\ b.rcode = "cancelled" /\ b.ref = a.ref /\ b.calls = a.calls /\ b.raced = rc
        /\ b.overtaken = a.overtaken
      BY <1>5, <2>2 DEF OrbType
  <2> HIDE DEF b
  <2>4. ~b.raced => b.t = "done"
      BY <1>5, <1>6, <1>8, <2>3 DEF OrbType, rc
  <2>5. CallbackEffect(o, Callback(b, o, "none"))
    <3>1. /\ orbs[o].kind # "free" /\ b.kind = orbs[o].kind /\ b.lu = orbs[o].lu /\ b.lu \in LU
          /\ b.list = "none" /\ b.rcode # "unset"
        BY <1>5, <2>3 DEF a
    <3>2. ~b.raced => /\ b.t # "idle" /\ b.calls = 0
                      /\ b.ref = Count(Sent(o)) + Count(b.t # "done") + 1
                      /\ b.rcode \in {"failed", "cancelled"} => b.t = "done"
                      /\ b.t # "done" => b.overtaken
        BY <1>6, <2>3, <2>4
    <3>3. b.t \in {"flight", "closing"} =>
               orbs[o].t \in {"flight", "closing"} /\ (orbs[o].raced => b.raced)
               /\ (orbs[o].overtaken => b.overtaken)
        BY <1>6, <2>3 DEF a
    <3>4. QED
        BY <1>2, <1>4, <2>1, <2>3, <3>1, <3>2, <3>3, CallbackFails DEF OrbInv
  <2>6. QED
      BY <1>1, <1>2, <1>4, <1>5, <2>5, CallbackKeeps DEF a
<1>9. QED
    BY <1>7, <1>8

-----------------------------------------------------------------------------
(* Bus resets, probe, update and removal of the target.                     *)

\* A step that touches neither ORBs nor threads.
LEMMA EnvKeeps ==
    ASSUME OrbInv, UNCHANGED <<orbs, run, command>>, sbpBus' \in BusType, tgt' \in TgtType,
           lus' \in [LU -> LuType], CountersSound',
           \A l \in LU : lus[l].alive => lus'[l].alive /\ lus'[l].sdev = lus[l].sdev
    PROVE  OrbInv'
<1>1. SbpTypes'
    BY DEF OrbInv, SbpTypes
<1>2. OrbsSound' /\ ListsSound' /\ CommandSound'
    BY Zenon DEF OrbInv, OrbsSound, Sent, ListsSound, CommandSound
<1>3. \A l \in LU : run[l].pc # "idle" => lus[l].alive
    BY Zenon DEF OrbInv, ThreadsSound
<1>4. ThreadsSound'
    BY <1>3 DEF OrbInv, ThreadsSound
<1>5. RemovalSound'
  <2> SUFFICES ASSUME NEW l \in LU, run'[l].after = "remove"
               PROVE  /\ run'[l].fn = "logout" /\ run'[l].pc \in {"send", "wait", "cancel", "result"}
                      /\ run'[l].pc \in {"wait", "cancel"} => run'[l].orb # 0
                      /\ ~lus'[l].sdev
                      /\ \A p \in Orb : orbs'[p].lu = l => orbs'[p].list # "eh"
                            /\ (orbs'[p].kind = "cmd" => orbs'[p].list = "none")
      BY Zenon DEF RemovalSound
  <2>1. /\ run[l].fn = "logout" /\ run[l].pc \in {"send", "wait", "cancel", "result"}
        /\ run[l].pc \in {"wait", "cancel"} => run[l].orb # 0
        /\ ~lus[l].sdev
        /\ \A p \in Orb : orbs[p].lu = l => orbs[p].list # "eh"
                            /\ (orbs[p].kind = "cmd" => orbs[p].list = "none")
      BY Zenon DEF OrbInv, RemovalSound
  <2>2. lus'[l].sdev = lus[l].sdev
      BY <1>3, <2>1
  <2>3. QED
      BY <2>1, <2>2, Zenon
<1>6. LogicalUnitOutlivesOrbs'
  <2> SUFFICES ASSUME NEW p \in Orb, orbs[p].t \in {"flight", "closing"}
               PROVE  lus'[orbs[p].lu].alive \/ orbs[p].overtaken \/ orbs[p].raced
      BY DEF LogicalUnitOutlivesOrbs
  <2>1. lus[orbs[p].lu].alive \/ orbs[p].overtaken \/ orbs[p].raced
      BY DEF OrbInv, LogicalUnitOutlivesOrbs
  <2>2. orbs[p].lu \in LU
      BY InUse
  <2>3. QED
      BY <2>1, <2>2
<1>7. QED
    BY <1>1, <1>2, <1>4, <1>5, <1>6 DEF OrbInv

\* A bus reset and its node event.
LEMMA BusKeeps ==
    ASSUME OrbInv, SbpBusReset \/ SbpNodeEvent
    PROVE  OrbInv'
<1>1. UNCHANGED <<tgt, lus, orbs, run, command>>
    BY DEF SbpBusReset, SbpNodeEvent
<1>2. sbpBus \in BusType /\ SbpMaxGen \in Nat
    BY SbpAssumption DEF OrbInv, SbpTypes
<1>3. sbpBus' \in BusType
  <2>1. CASE SbpBusReset
    <3>1. sbpBus.card + 1 \in 0 .. SbpMaxGen
        BY <1>2, <2>1 DEF SbpBusReset, BusType
    <3>2. QED
        BY <1>2, <2>1, <3>1 DEF SbpBusReset, BusType
  <2>2. CASE SbpNodeEvent
    <3>1. CASE sbpBus' = [sbpBus EXCEPT !.device = sbpBus.card, !.due = TRUE]
        BY <1>2, <3>1 DEF BusType
    <3>2. CASE sbpBus' = [sbpBus EXCEPT !.shutdown = TRUE, !.due = FALSE]
        BY <1>2, <3>2 DEF BusType
    <3>3. QED
        BY <2>2, <3>1, <3>2 DEF SbpNodeEvent
  <2>3. QED
      BY <2>1, <2>2
<1>4. tgt' \in TgtType /\ lus' \in [LU -> LuType] /\ CountersSound'
    BY <1>1, HostUntouched DEF OrbInv
<1>5. QED
    BY <1>1, <1>3, <1>4, EnvKeeps

\* sbp2_probe()
LEMMA ProbeKeeps ==
    ASSUME OrbInv, sbp2_probe
    PROVE  OrbInv'
<1>1. /\ tgt.state = "absent" /\ UNCHANGED <<sbpBus, orbs, run, command>>
      /\ tgt \in TgtType /\ sbpBus \in BusType /\ lus \in [LU -> LuType]
      /\ tgt.blocked = 0 /\ \A l \in LU : lus[l] = NoLu
    BY DEF sbp2_probe, OrbInv, SbpTypes, CountersSound
<1>2. NoLu.alive = FALSE /\ NoLu.blocked = FALSE
    BY DEF NoLu
<1>3. CASE tgt' = [tgt EXCEPT !.state = "gone"] /\ UNCHANGED lus
  <2>1. /\ tgt' \in TgtType /\ tgt'.state = "gone" /\ tgt'.blocked = tgt.blocked
        /\ tgt'.dont_block = tgt.dont_block /\ tgt.dont_block \in Nat
      BY <1>1, <1>3 DEF TgtType
  <2>2. Unsettled' = Unsettled
      BY <1>1, <1>3 DEF Unsettled
  <2>3. CountersSound'
      BY <1>1, <1>3, <2>1, <2>2, CountersKept DEF OrbInv
  <2>4. QED
      BY <1>1, <1>3, <2>1, <2>3, EnvKeeps
<1>4. ASSUME NEW ok \in BOOLEAN, NEW S \in SUBSET LU,
             lus' = [l \in LU |-> [sbp2_scan_unit_dir(S)[l] EXCEPT !.queued = ok]],
             tgt' = [tgt EXCEPT !.state = IF ok THEN "bound" ELSE "removing",
                                !.dont_block = Cardinality(S) + (IF ok THEN 0 ELSE 1)]
      PROVE  OrbInv'
  <2>1. Cardinality(S) \in Nat /\ Cardinality(LU) \in Nat /\ SbpMaxGen \in Nat
        /\ SbpRetryLimit \in Nat
      BY LuSets, SbpAssumption
  <2>2. ASSUME NEW l \in LU
        PROVE  /\ lus'[l] \in LuType /\ ~lus'[l].blocked /\ (lus'[l].alive => l \in S)
    <3>1. NoLu \in LuType /\ sbp2_add_logical_unit \in LuType
          /\ ~NoLu.blocked /\ ~sbp2_add_logical_unit.blocked /\ ~NoLu.alive
      <4>1. NoLu \in LuType /\ ~NoLu.blocked /\ ~NoLu.alive
          BY <2>1 DEF NoLu, LuType
      <4>2. ASSUME NEW u \in LuType PROVE LET v == [u EXCEPT !.alive = TRUE]
                                          IN v \in LuType /\ v.blocked = u.blocked
          BY DEF LuType
      <4>3. QED
          BY <4>1, <4>2 DEF sbp2_add_logical_unit
    <3>2. lus'[l] = [(IF l \in S THEN sbp2_add_logical_unit ELSE NoLu) EXCEPT !.queued = ok]
        BY <1>4 DEF sbp2_scan_unit_dir
    <3>3. ASSUME NEW u \in LuType PROVE LET v == [u EXCEPT !.queued = ok]
                                        IN v \in LuType /\ v.blocked = u.blocked /\ v.alive = u.alive
        BY DEF LuType
    <3>4. QED
        BY <3>1, <3>2, <3>3
  <2>3. lus' \in [LU -> LuType]
      BY <1>4, <2>2
  <2>4. /\ tgt' \in TgtType /\ tgt'.state # "absent" /\ tgt'.blocked = 0
        /\ tgt'.dont_block >= Cardinality(S) /\ tgt'.dont_block \in Nat
    <3> DEFINE d == Cardinality(S) + (IF ok THEN 0 ELSE 1)
               st == IF ok THEN "bound" ELSE "removing"
    <3>1. d \in Nat /\ d >= Cardinality(S) /\ st \in {"bound", "removing"}
        BY <2>1
    <3>2. tgt' = [tgt EXCEPT !.state = st, !.dont_block = d]
        BY <1>4
    <3> HIDE DEF d, st
    <3>3. QED
        BY <1>1, <3>1, <3>2 DEF TgtType
  <2>5. Blocked' = {} /\ Unsettled' \subseteq S /\ (Blocked \cup Dead)' \in SUBSET LU
      BY <2>2 DEF Blocked, Unsettled, Dead
  <2>6. Cardinality(Unsettled') <= Cardinality(S) /\ Cardinality(Unsettled') \in Nat
        /\ Cardinality(Blocked') = 0 /\ Cardinality((Blocked \cup Dead)') \in Nat
      BY <2>5, LuSets, FS_Subset, FS_EmptySet
  <2>7. CountersSound'
      BY <2>1, <2>4, <2>6 DEF CountersSound
  <2>8. QED
      BY <1>1, <1>2, <2>3, <2>4, <2>7, EnvKeeps
<1>5. QED
    BY <1>3, <1>4 DEF sbp2_probe

\* sbp2_update()
LEMMA UpdateKeeps ==
    ASSUME OrbInv, sbp2_update
    PROVE  OrbInv'
<1> DEFINE stale == {l \in LU : lus[l].alive /\ ~lus[l].blocked /\ tgt.dont_block = 0
                                /\ lus[l].gen # sbpBus.card}
<1>1. /\ tgt.state = "bound" /\ sbpBus' = [sbpBus EXCEPT !.due = FALSE]
      /\ lus' = [l \in LU |-> [lus[l] EXCEPT !.blocked = @ \/ l \in stale, !.retries = 0,
                                             !.queued = lus[l].alive]]
      /\ tgt' = [tgt EXCEPT !.blocked = @ + Cardinality(stale),
                            !.host = @ \/ (stale # {} /\ tgt.blocked = 0)]
      /\ UNCHANGED <<orbs, run, command>>
    BY DEF sbp2_update
<1>2. tgt \in TgtType /\ sbpBus \in BusType /\ lus \in [LU -> LuType] /\ SbpRetryLimit \in Nat
    BY SbpAssumption DEF OrbInv, SbpTypes
<1>3. stale \in SUBSET LU /\ stale \cap (Blocked \cup Dead) = {} /\ stale \cap Blocked = {}
    BY DEF Blocked, Dead
<1> HIDE DEF stale
<1>4. ASSUME NEW l \in LU
      PROVE  /\ lus'[l] \in LuType /\ (lus'[l].blocked <=> (lus[l].blocked \/ l \in stale))
             /\ lus'[l].alive = lus[l].alive /\ lus'[l].sdev = lus[l].sdev
  <2>2. (lus[l].blocked \/ l \in stale) \in BOOLEAN /\ lus[l].alive \in BOOLEAN
        /\ lus[l] \in LuType
      BY <1>2 DEF LuType
  <2> DEFINE b == lus[l].blocked \/ l \in stale
  <2>3. lus'[l] = [lus[l] EXCEPT !.blocked = b, !.retries = 0, !.queued = lus[l].alive]
      BY <1>1
  <2>4. b \in BOOLEAN /\ (b <=> (lus[l].blocked \/ l \in stale))
      BY <2>2
  <2> HIDE DEF b
  <2>5. /\ lus'[l] \in LuType /\ lus'[l].blocked = b
        /\ lus'[l].alive = lus[l].alive /\ lus'[l].sdev = lus[l].sdev
    <3> DEFINE v == [lus[l] EXCEPT !.blocked = b, !.retries = 0, !.queued = lus[l].alive]
    <3>1. v \in LuType /\ v.blocked = b /\ v.alive = lus[l].alive /\ v.sdev = lus[l].sdev
      <4>1. 0 \in 0 .. SbpRetryLimit + 1
          BY <1>2
      <4>2. v \in LuType
          BY <2>2, <2>4, <4>1 DEF LuType
      <4>3. QED
          BY <2>2, <4>2 DEF LuType
    <3>2. lus'[l] = v
        BY <2>3
    <3> HIDE DEF v
    <3>3. QED
        BY <3>1, <3>2
  <2>6. QED
      BY <2>4, <2>5
<1>5. lus' \in [LU -> LuType]
    BY <1>1, <1>4
<1>6. /\ Blocked' = Blocked \cup stale /\ (Blocked \cup Dead)' = (Blocked \cup Dead) \cup stale
      /\ Unsettled' = Unsettled
  <2>1. Blocked' = Blocked \cup stale
      BY <1>3, <1>4 DEF Blocked
  <2>2. Dead' = Dead
      BY <1>4 DEF Dead
  <2>3. Unsettled' = Unsettled
      BY <1>1, <1>4 DEF Unsettled
  <2>4. QED
      BY <2>1, <2>2, <2>3
<1>7. Blocked \in SUBSET LU /\ Blocked \cup Dead \in SUBSET LU
    BY DEF Blocked, Dead
<1>8. /\ Cardinality(Blocked') = Cardinality(Blocked) + Cardinality(stale)
      /\ Cardinality((Blocked \cup Dead)') = Cardinality(Blocked \cup Dead) + Cardinality(stale)
      /\ Cardinality((Blocked \cup Dead)') <= Cardinality(LU)
      /\ Cardinality(stale) \in Nat /\ Cardinality(Blocked) \in Nat
      /\ Cardinality(Blocked \cup Dead) \in Nat /\ Cardinality(LU) \in Nat
  <2>1. IsFiniteSet(stale) /\ IsFiniteSet(Blocked) /\ IsFiniteSet(Blocked \cup Dead)
        /\ Cardinality(stale) \in Nat /\ Cardinality(Blocked) \in Nat
        /\ Cardinality(Blocked \cup Dead) \in Nat /\ Cardinality(LU) \in Nat
      BY <1>3, <1>7, LuSets
  <2>2. Cardinality({}) = 0
      BY FS_EmptySet
  <2>3. Cardinality(Blocked \cup stale) = Cardinality(Blocked) + Cardinality(stale)
    <3>1. Blocked \cap stale = {}
        BY <1>3
    <3>2. Cardinality(Blocked \cup stale)
            = Cardinality(Blocked) + Cardinality(stale) - Cardinality(Blocked \cap stale)
        BY <2>1, FS_Union
    <3>3. QED
      <4>1. Cardinality(Blocked \cap stale) = 0
          BY <2>2, <3>1, Zenon
      <4>2. QED
          BY <2>1, <3>2, <4>1
  <2>4. Cardinality((Blocked \cup Dead) \cup stale)
            = Cardinality(Blocked \cup Dead) + Cardinality(stale)
    <3>1. (Blocked \cup Dead) \cap stale = {}
        BY <1>3
    <3>2. Cardinality((Blocked \cup Dead) \cup stale) = Cardinality(Blocked \cup Dead)
            + Cardinality(stale) - Cardinality((Blocked \cup Dead) \cap stale)
        BY <2>1, FS_Union
    <3>3. QED
      <4>1. Cardinality((Blocked \cup Dead) \cap stale) = 0
          BY <2>2, <3>1, Zenon
      <4>2. QED
          BY <2>1, <3>2, <4>1
  <2>5. (Blocked \cup Dead) \cup stale \in SUBSET LU
      BY <1>3, <1>7
  <2>6. Cardinality((Blocked \cup Dead) \cup stale) <= Cardinality(LU)
      BY <2>5, LuSets
  <2>7. QED
      BY <1>6, <2>1, <2>3, <2>4, <2>6
<1> DEFINE n == tgt.blocked + Cardinality(stale)
           host == tgt.host \/ (stale # {} /\ tgt.blocked = 0)
<1>9. n \in 0 .. Cardinality(LU) /\ tgt.blocked \in Nat
  <2>1. tgt.blocked \in Nat
      BY <1>2, <1>8 DEF TgtType
  <2>2. tgt.blocked <= Cardinality(Blocked \cup Dead)
      BY DEF OrbInv, CountersSound
  <2>3. QED
      BY <1>8, <2>1, <2>2
<1>10. host \in BOOLEAN /\ tgt' = [tgt EXCEPT !.blocked = n, !.host = host]
    BY <1>1
<1>11. n = tgt.blocked + Cardinality(stale)
    OBVIOUS
<1> HIDE DEF n, host
<1>12. /\ tgt' \in TgtType /\ tgt'.blocked = n /\ tgt'.state = "bound"
       /\ tgt'.dont_block = tgt.dont_block
    BY <1>1, <1>2, <1>9, <1>10 DEF TgtType
<1>15. CountersSound'
    BY <1>6, <1>8, <1>9, <1>11, <1>12 DEF OrbInv, CountersSound
<1>13. sbpBus' \in BusType
    BY <1>1, <1>2 DEF BusType
<1>14. QED
    BY <1>1, <1>4, <1>5, <1>12, <1>13, <1>15, EnvKeeps

\* sbp2_remove() starts.
LEMMA RemoveKeeps ==
    ASSUME OrbInv, sbp2_remove
    PROVE  OrbInv'
<1>1. /\ tgt.state = "bound" /\ tgt' = [sbp2_unblock(tgt) EXCEPT !.state = "removing"]
      /\ sbpBus' = [sbpBus EXCEPT !.due = FALSE] /\ UNCHANGED <<lus, orbs, run, command>>
    BY DEF sbp2_remove
<1>2. tgt \in TgtType /\ sbpBus \in BusType /\ lus \in [LU -> LuType]
    BY DEF OrbInv, SbpTypes
<1>3. /\ tgt' \in TgtType /\ tgt'.state = "removing" /\ tgt'.blocked = tgt.blocked
      /\ tgt'.dont_block = tgt.dont_block + 1 /\ tgt.dont_block \in Nat
  <2>1. tgt' = [tgt EXCEPT !.dont_block = tgt.dont_block + 1, !.host = FALSE, !.state = "removing"]
      BY <1>1 DEF sbp2_unblock
  <2>2. tgt.dont_block + 1 \in Nat /\ tgt.dont_block \in Nat
      BY <1>2 DEF TgtType
  <2>3. QED
      BY <1>2, <2>1, <2>2 DEF TgtType
<1>4. Unsettled' = Unsettled
    BY <1>1 DEF Unsettled
<1>5. CountersSound'
    BY <1>1, <1>2, <1>3, <1>4, CountersKept DEF OrbInv
<1>6. sbpBus' \in BusType
    BY <1>1, <1>2 DEF BusType
<1>7. QED
    BY <1>1, <1>2, <1>3, <1>5, <1>6, EnvKeeps

\* The target is released.
LEMMA ReleaseKeeps ==
    ASSUME OrbInv, TargetReleased
    PROVE  OrbInv'
<1>1. tgt' = [tgt EXCEPT !.state = "gone"] /\ UNCHANGED <<sbpBus, lus, orbs, run, command>>
    BY DEF TargetReleased
<1>2. tgt \in TgtType /\ sbpBus \in BusType /\ lus \in [LU -> LuType]
    BY DEF OrbInv, SbpTypes
<1>3. /\ tgt' \in TgtType /\ tgt'.state = "gone" /\ tgt'.blocked = tgt.blocked
      /\ tgt'.dont_block = tgt.dont_block /\ tgt.dont_block \in Nat
    BY <1>1, <1>2 DEF TgtType
<1>4. Unsettled' = Unsettled
    BY <1>1 DEF Unsettled
<1>5. CountersSound'
    BY <1>1, <1>2, <1>3, <1>4, CountersKept DEF OrbInv
<1>6. QED
    BY <1>1, <1>2, <1>3, <1>5, EnvKeeps

-----------------------------------------------------------------------------
(* Steps of the threads: ORBs that are put or move to a private list.       *)

\* What a step of the thread of logical unit l may do to an ORB that it does not own, with
\* cancels whether it goes on to cancel the ORBs of the logical unit.
Passes(b, c, l, cancels) ==
    \/ c = NoOrb /\ b.kind # "cmd"
    \/ /\ c.kind = b.kind /\ c.lu = b.lu /\ c.t = b.t /\ c.raced = b.raced
       /\ c.overtaken = b.overtaken
       /\ \/ c.list = b.list
          \/ b.list = "lu" /\ b.lu = l /\ c.list = l /\ cancels

\* The splice of sbp2_cancel_orbs().
LEMMA SplicedSound ==
    ASSUME NEW os \in [Orb -> OrbType], NEW h \in SbpThread, NEW l \in LU
    PROVE  /\ Splice(os, h, l) \in [Orb -> OrbType]
           /\ \A o \in Orb : LET b == os[o]
                                 c == Splice(os, h, l)[o]
                IN /\ IF b.list = "lu" /\ b.lu = l THEN c.list = h ELSE c = b
                   /\ c.kind = b.kind /\ c.lu = b.lu /\ c.t = b.t /\ c.raced = b.raced
                   /\ c.overtaken = b.overtaken
                   /\ \A x \in BOOLEAN : OrbSound(b, x) => OrbSound(c, x)
<1> DEFINE S == Splice(os, h, l)
<1>1. h \notin {"none", "lu", "stack"}
    BY SbpAssumption DEF SbpThread
<1>2. ASSUME NEW o \in Orb
      PROVE  LET b == os[o]
                 c == S[o]
             IN /\ c \in OrbType
                /\ IF b.list = "lu" /\ b.lu = l THEN c.list = h ELSE c = b
                /\ c.kind = b.kind /\ c.lu = b.lu /\ c.t = b.t /\ c.raced = b.raced
                /\ c.overtaken = b.overtaken
                /\ \A x \in BOOLEAN : OrbSound(b, x) => OrbSound(c, x)
  <2> DEFINE b == os[o]
             c == S[o]
             d == [b EXCEPT !.list = h]
  <2>1. b \in OrbType
      OBVIOUS
  <2>2. CASE b.list = "lu" /\ b.lu = l
    <3>1. c = d
        BY <2>2 DEF Splice
    <3> HIDE DEF b, c
    <3>2. /\ c \in OrbType /\ c.list = h /\ c.kind = b.kind /\ c.lu = b.lu /\ c.t = b.t
          /\ c.raced = b.raced /\ c.overtaken = b.overtaken /\ c.rcode = b.rcode
          /\ c.ref = b.ref /\ c.calls = b.calls
        BY <2>1, <3>1 DEF OrbType
    <3>3. NoOrb.list = "none"
        BY DEF NoOrb
    <3>4. ASSUME NEW x \in BOOLEAN, OrbSound(b, x) PROVE OrbSound(c, x)
      <4>1. b.kind # "free" /\ ~b.raced
          BY <2>2, <3>3, <3>4 DEF OrbSound
      <4>2. QED
          BY <1>1, <2>2, <3>2, <3>4, <4>1 DEF OrbSound
    <3>5. QED
        BY <2>2, <3>2, <3>4 DEF b, c
  <2>3. CASE ~(b.list = "lu" /\ b.lu = l)
    <3>1. c = b
        BY <2>3 DEF Splice
    <3>2. QED
        BY <2>1, <2>3, <3>1
  <2>4. QED
      BY <2>2, <2>3
<1>3. DOMAIN S = Orb /\ S = [o \in Orb |-> S[o]]
    BY DEF Splice
<1> HIDE DEF S
<1>4. S \in [Orb -> OrbType]
    BY <1>2, <1>3
<1>5. QED
    BY <1>2, <1>4 DEF S

\* Whether a thread other than that of l owns ORB o.
OwnedByOther(o, l) == \E k \in LU \ {l} : run[k].orb = o

\* Each ORB has one owner at most.
LEMMA OneOwner ==
    ASSUME OrbInv, NEW l \in LU, run[l].orb # 0
    PROVE  /\ run[l].orb \in Orb /\ ~OwnedByOther(run[l].orb, l) /\ Sent(run[l].orb)
           /\ orbs[run[l].orb].kind = "mgmt" /\ orbs[run[l].orb].lu = l
<1>1. \A k \in LU : run[k].orb # 0 => orbs[run[k].orb].kind = "mgmt" /\ orbs[run[k].orb].lu = k
    BY DEF OrbInv, ThreadsSound
<1>2. run[l].orb \in Orb
    BY SbpAssumption DEF OrbInv, SbpTypes, ThreadType, Orb, SbpThread
<1>3. QED
    BY <1>1, <1>2 DEF OwnedByOther, Sent

\* The put of the sender's reference to a management ORB.
LEMMA PutSound ==
    ASSUME OrbInv, NEW l \in LU
    PROVE  /\ PutManagementOrb(l) \in [Orb -> OrbType]
           /\ \A o \in Orb : LET c == PutManagementOrb(l)[o] IN
                /\ OrbSound(c, OwnedByOther(o, l))
                /\ Passes(orbs[o], c, l, FALSE)
<1> DEFINE q == run[l].orb
           P == PutManagementOrb(l)
<1>0. orbs \in [Orb -> OrbType]
    BY DEF OrbInv, SbpTypes
<1>1. ASSUME NEW o \in Orb, o # q PROVE OrbSound(orbs[o], OwnedByOther(o, l))
  <2>1. Sent(o) <=> OwnedByOther(o, l)
      BY <1>1 DEF Sent, OwnedByOther
  <2>2. Sent(o) = OwnedByOther(o, l)
      BY <2>1, Zenon DEF Sent, OwnedByOther
  <2>3. QED
      BY <2>2, Zenon DEF OrbInv, OrbsSound
<1>2. \A o \in Orb : Passes(orbs[o], orbs[o], l, FALSE)
    BY DEF Passes
<1>3. CASE q = 0
  <2>1. P = orbs
      BY <1>3 DEF PutManagementOrb
  <2>2. 0 \notin Orb
      BY SbpAssumption DEF Orb
  <2>3. QED
      BY <1>0, <1>1, <1>2, <1>3, <2>1, <2>2
<1>4. CASE q # 0
  <2> DEFINE b == orbs[q]
             d == [b EXCEPT !.ref = b.ref - 1]
             c == IF b.list = "stack" THEN NoOrb ELSE kref_put(b, q)
  <2>1. /\ q \in Orb /\ ~OwnedByOther(q, l) /\ Sent(q) /\ b.kind = "mgmt" /\ b.lu = l
      BY <1>4, OneOwner
  <2>2. b \in OrbType /\ OrbSound(b, TRUE)
    <3>1. OrbSound(b, Sent(q)) /\ Sent(q) = TRUE
        BY <2>1, Zenon DEF OrbInv, OrbsSound, Sent
    <3>2. QED
        BY <1>0, <2>1, <3>1
  <2>3. P = [orbs EXCEPT ![q] = c]
      BY <1>4, Zenon DEF PutManagementOrb
  <2>4. c \in OrbType /\ OrbSound(c, FALSE) /\ Passes(b, c, l, FALSE)
    <3>1. CASE c = NoOrb
        BY <2>1, <3>1, NoOrbSound DEF Passes
    <3>2. CASE c = d /\ (b.raced \/ d.ref # 0)
      <4> HIDE DEF b, c
      <4>1. /\ d \in OrbType /\ d.ref = b.ref - 1 /\ d.kind = b.kind /\ d.lu = b.lu
            /\ d.list = b.list /\ d.t = b.t /\ d.rcode = b.rcode /\ d.calls = b.calls
            /\ d.raced = b.raced /\ d.overtaken = b.overtaken /\ b.ref \in Int
          BY <2>2 DEF OrbType
      <4> HIDE DEF d
      <4>2. Count(TRUE) = 1 /\ Count(FALSE) = 0
            /\ Count(b.t # "done") \in {0, 1} /\ Count(b.calls = 0) \in {0, 1}
          BY DEF Count
      <4>3. OrbSound(d, FALSE)
        <5>1. ~b.raced => b.ref = Count(TRUE) + Count(b.t # "done") + Count(b.calls = 0)
            BY <2>1, <2>2, Zenon DEF OrbSound
        <5>2. ~d.raced => d.ref = Count(FALSE) + Count(d.t # "done") + Count(d.calls = 0)
          <6> DEFINE x == Count(b.t # "done")
                     y == Count(b.calls = 0)
          <6>1. x \in {0, 1} /\ y \in {0, 1}
              BY <4>2
          <6>2. Count(TRUE) = 1 /\ Count(FALSE) = 0
              BY <4>2
          <6>3. ~b.raced => b.ref = 1 + x + y
              BY <5>1, <6>2, Zenon
          <6> HIDE DEF x, y
          <6>4. ~b.raced => d.ref = 0 + x + y
              BY <4>1, <6>1, <6>3
          <6>5. ~b.raced => d.ref = Count(FALSE) + x + y
              BY <6>2, <6>4, Zenon
          <6>6. QED
              BY <4>1, <6>5, Zenon DEF x, y
        <5>3. /\ b.list = "stack" => b.kind = "mgmt" /\ b.t = "done"
              /\ b.lu # "none"
              /\ b.raced => b.list = "none"
              /\ b.rcode # "unset"
              /\ ~b.raced => /\ b.t # "idle" /\ b.calls <= 1 /\ (b.calls = 0 <=> b.list # "none")
                             /\ b.rcode \in {"failed", "cancelled"} => b.t = "done"
                             /\ b.calls = 1 /\ b.t # "done" => b.overtaken
            BY <2>1, <2>2, Zenon DEF OrbSound
        <5>4. QED
            BY <2>1, <4>1, <5>2, <5>3 DEF OrbSound
      <4>4. QED
          BY <3>2, <4>1, <4>3 DEF Passes
    <3>3. c = NoOrb \/ c = d
        BY DEF kref_put, free_orb
    <3>4. c # NoOrb => b.raced \/ d.ref # 0
      <4>1. d.raced = b.raced
          BY <2>2 DEF OrbType
      <4>2. QED
          BY <4>1 DEF kref_put, free_orb
    <3>5. QED
        BY <3>1, <3>2, <3>3, <3>4
  <2>5. OwnedByOther(q, l) = FALSE
      BY <2>1, Zenon DEF OwnedByOther
  <2> HIDE DEF b, c
  <2>6. /\ P \in [Orb -> OrbType] /\ P[q] = c /\ \A o \in Orb \ {q} : P[o] = orbs[o]
      BY <1>0, <2>1, <2>3, <2>4
  <2>7. ASSUME NEW o \in Orb
        PROVE  OrbSound(P[o], OwnedByOther(o, l)) /\ Passes(orbs[o], P[o], l, FALSE)
    <3>1. CASE o = q
        BY <2>4, <2>5, <2>6, <3>1 DEF b
    <3>2. CASE o # q
        BY <1>1, <1>2, <2>6, <3>2
    <3>3. QED
        BY <3>1, <3>2
  <2>8. QED
      BY <2>6, <2>7
<1>5. QED
    BY <1>3, <1>4

\* A step of the thread of logical unit l, which becomes r.
LEMMA ThreadKeeps ==
    ASSUME OrbInv, NEW l \in LU, NEW r \in ThreadType, run' = [run EXCEPT ![l] = r],
           lus[l].alive \/ r = NoThread, UNCHANGED <<sbpBus, command>>,
           orbs' \in [Orb -> OrbType], OrbsSound',
           \A o \in Orb : Passes(orbs[o], orbs'[o], l, r.pc = "cancel"),
           tgt' \in TgtType, lus' \in [LU -> LuType], CountersSound',
           \A k \in LU \ {l} : lus'[k].alive = lus[k].alive /\ lus'[k].sdev = lus[k].sdev,
           \/ lus'[l].alive = lus[l].alive
           \/ r = NoThread /\ \A o \in Orb : orbs'[o].lu = l /\ orbs'[o].t \in {"flight", "closing"}
                                             => orbs'[o].overtaken \/ orbs'[o].raced,
           r.pc = "idle" => r = NoThread,
           run[l].pc = "cancel" /\ r.pc # "cancel" => \A o \in Orb : orbs'[o].list # l,
           run[l].pc = "wait" /\ r.pc # "wait" =>
               \A o \in Orb : orbs'[o].list = "lu" => orbs'[o].lu # l,
           r.orb # 0 => /\ r.orb = run[l].orb /\ r.pc \in {"wait", "cancel", "result"}
                        /\ orbs'[r.orb].kind # "free",
           r.pc = "adding" => ~lus'[l].sdev /\ r.after # "remove",
           r.after = "remove" =>
               /\ run[l].after = "remove" /\ r.fn = "logout"
               /\ r.pc \in {"send", "wait", "cancel", "result"}
               /\ r.pc \in {"wait", "cancel"} => r.orb # 0
               /\ lus'[l].sdev = lus[l].sdev
    PROVE  OrbInv'
<1>1. /\ run'[l] = r /\ \A h \in SbpThread \ {l} : run'[h] = run[h]
      /\ run' \in [SbpThread -> ThreadType] /\ l \in SbpThread /\ l # "eh"
      /\ LU \subseteq SbpThread /\ "eh" \in SbpThread /\ run'["eh"] = run["eh"]
      /\ l \notin {"none", "lu", "stack"}
    BY SbpAssumption DEF OrbInv, SbpTypes, SbpThread
<1>2. NoOrb.list = "none" /\ NoOrb.t = "idle" /\ NoOrb.kind = "free" /\ NoOrb.lu = "none"
      /\ "none" \notin LU /\ "lu" \notin LU /\ "eh" \notin LU
    BY SbpAssumption DEF NoOrb
<1>3. ASSUME NEW o \in Orb
      PROVE  /\ orbs'[o].list # "none" =>
                  /\ orbs'[o].kind = orbs[o].kind /\ orbs'[o].lu = orbs[o].lu
                  /\ \/ orbs'[o].list = orbs[o].list
                     \/ orbs'[o].list = l /\ orbs'[o].lu = l /\ r.pc = "cancel"
             /\ orbs'[o].list = "none" => orbs[o].list = "none" \/ orbs[o].kind # "cmd"
             /\ orbs'[o].kind # "free" => orbs'[o].kind = orbs[o].kind /\ orbs'[o].lu = orbs[o].lu
             /\ orbs[o].kind = "cmd" => orbs'[o].kind = "cmd"
             /\ orbs'[o].lu \in LU => orbs'[o].lu = orbs[o].lu /\ orbs'[o].kind = orbs[o].kind
             /\ orbs'[o].t # "idle" =>
                  /\ orbs'[o].t = orbs[o].t /\ orbs'[o].lu = orbs[o].lu
                  /\ orbs'[o].raced = orbs[o].raced /\ orbs'[o].overtaken = orbs[o].overtaken
    BY <1>1, <1>2 DEF Passes
<1>4. SbpTypes'
    BY <1>1 DEF OrbInv, SbpTypes
<1>5. ListsSound'
  <2> SUFFICES ASSUME NEW p \in Orb
               PROVE  LET b == orbs'[p] IN
                      /\ b.list = "lu" /\ b.kind = "mgmt" => run'[b.lu].pc = "wait"
                      /\ b.list \in LU => run'[b.list].pc = "cancel" /\ b.lu = b.list
                      /\ b.list = "eh" => run'["eh"].pc = "cancel"
      BY DEF ListsSound
  <2>1. /\ orbs[p].list = "lu" /\ orbs[p].kind = "mgmt" => run[orbs[p].lu].pc = "wait"
        /\ orbs[p].list \in LU => run[orbs[p].list].pc = "cancel" /\ orbs[p].lu = orbs[p].list
        /\ orbs[p].list = "eh" => run["eh"].pc = "cancel"
      BY Zenon DEF OrbInv, ListsSound
  <2>2. orbs[p].list # "none" => orbs[p].lu \in LU
      BY InUse
  <2>3. ASSUME orbs'[p].list = "lu", orbs'[p].kind = "mgmt" PROVE run'[orbs'[p].lu].pc = "wait"
    <3>1. orbs[p].list = "lu" /\ orbs[p].kind = "mgmt" /\ orbs'[p].lu = orbs[p].lu
        BY <1>1, <1>3, <2>3
    <3>2. CASE orbs[p].lu = l
        BY <1>1, <2>1, <2>3, <3>1, <3>2
    <3>3. CASE orbs[p].lu # l
        BY <1>1, <2>1, <2>2, <3>1, <3>3
    <3>4. QED
        BY <3>2, <3>3
  <2>4. ASSUME orbs'[p].list \in LU
        PROVE  run'[orbs'[p].list].pc = "cancel" /\ orbs'[p].lu = orbs'[p].list
    <3>1. CASE orbs'[p].list = l /\ orbs'[p].lu = l /\ r.pc = "cancel"
        BY <1>1, <3>1
    <3>2. CASE orbs'[p].list = orbs[p].list /\ orbs'[p].lu = orbs[p].lu
      <4>1. CASE orbs[p].list = l
          BY <1>1, <2>1, <2>4, <3>2, <4>1
      <4>2. CASE orbs[p].list # l
          BY <1>1, <2>1, <2>4, <3>2, <4>2
      <4>3. QED
          BY <4>1, <4>2
    <3>3. QED
        BY <1>2, <1>3, <2>4, <3>1, <3>2
  <2>5. ASSUME orbs'[p].list = "eh" PROVE run'["eh"].pc = "cancel"
      BY <1>1, <1>3, <2>1, <2>5
  <2>6. QED
      BY <2>3, <2>4, <2>5
<1>6. ThreadsSound'
  <2>1. run'["eh"].pc \in {"idle", "cancel"}
      BY <1>1 DEF OrbInv, ThreadsSound
  <2>2. ASSUME NEW k \in LU
        PROVE  /\ run'[k].pc = "idle" => run'[k] = NoThread
               /\ run'[k].pc # "idle" => lus'[k].alive
               /\ run'[k].pc = "adding" => ~lus'[k].sdev /\ run'[k].after # "remove"
    <3>1. CASE k = l
        BY <1>1, <3>1 DEF NoThread
    <3>2. CASE k # l
        BY <1>1, <3>2 DEF OrbInv, ThreadsSound
    <3>3. QED
        BY <3>1, <3>2
  <2>3. ASSUME NEW k \in LU, run'[k].orb # 0
        PROVE  run'[k].pc \in {"wait", "cancel", "result"}
               /\ orbs'[run'[k].orb].kind = "mgmt" /\ orbs'[run'[k].orb].lu = k
    <3>1. run'[k].orb = run[k].orb /\ run'[k].pc \in {"wait", "cancel", "result"}
        BY <1>1, <2>3 DEF OrbInv, ThreadsSound
    <3>2. run[k].orb \in Orb /\ orbs[run[k].orb].kind = "mgmt" /\ orbs[run[k].orb].lu = k
        BY <2>3, <3>1, OneOwner
    <3>3. orbs'[run[k].orb].kind # "free"
      <4>1. CASE k = l
          BY <1>1, <2>3, <4>1
      <4>2. CASE k # l
        <5>1. Sent(run[k].orb)'
            BY <2>3, <3>1, Zenon DEF Sent
        <5>2. OrbSound(orbs'[run[k].orb], Sent(run[k].orb)')
            BY <3>1, <3>2, Zenon DEF OrbsSound
        <5>3. QED
            BY <5>1, <5>2, Zenon DEF OrbSound
      <4>3. QED
          BY <4>1, <4>2
    <3>4. QED
        BY <1>3, <3>1, <3>2, <3>3
  <2>4. QED
      BY <2>1, <2>2, <2>3, Zenon DEF ThreadsSound
<1>7. RemovalSound'
  <2> SUFFICES ASSUME NEW k \in LU, run'[k].after = "remove"
               PROVE  /\ run'[k].fn = "logout" /\ run'[k].pc \in {"send", "wait", "cancel", "result"}
                      /\ run'[k].pc \in {"wait", "cancel"} => run'[k].orb # 0
                      /\ ~lus'[k].sdev
                      /\ \A p \in Orb : orbs'[p].lu = k => orbs'[p].list # "eh"
                            /\ (orbs'[p].kind = "cmd" => orbs'[p].list = "none")
      BY Zenon DEF RemovalSound
  <2>1. run[k].after = "remove"
      BY <1>1
  <2>2. /\ run[k].fn = "logout" /\ run[k].pc \in {"send", "wait", "cancel", "result"}
        /\ run[k].pc \in {"wait", "cancel"} => run[k].orb # 0
        /\ ~lus[k].sdev
        /\ \A p \in Orb : orbs[p].lu = k => orbs[p].list # "eh"
                            /\ (orbs[p].kind = "cmd" => orbs[p].list = "none")
      BY <2>1, Zenon DEF OrbInv, RemovalSound
  <2>3. /\ run'[k].fn = "logout" /\ run'[k].pc \in {"send", "wait", "cancel", "result"}
        /\ run'[k].pc \in {"wait", "cancel"} => run'[k].orb # 0
        /\ ~lus'[k].sdev
      BY <1>1, <2>2
  <2>4. ASSUME NEW p \in Orb, orbs'[p].lu = k
        PROVE  orbs'[p].list # "eh" /\ (orbs'[p].kind = "cmd" => orbs'[p].list = "none")
    <3>1. orbs[p].lu = k /\ orbs'[p].kind = orbs[p].kind
        BY <1>3, <2>4
    <3>2. orbs[p].list # "eh" /\ (orbs[p].kind = "cmd" => orbs[p].list = "none")
        BY <2>2, <3>1
    <3>3. orbs'[p].list = orbs[p].list \/ (orbs'[p].list = l /\ orbs[p].list = "lu")
          \/ orbs'[p].list = "none"
        BY <1>2 DEF Passes
    <3>4. QED
        BY <1>1, <3>1, <3>2, <3>3
  <2>5. QED
      BY <2>3, <2>4
<1>8. CommandSound'
  <2>1. ASSUME NEW p \in Orb, orbs'[p].kind = "cmd", orbs'[p].list # "none"
        PROVE  command' = p \/ orbs'[p].list \in LU
    <3>1. orbs[p].kind = "cmd" /\ orbs[p].list # "none"
          /\ (orbs'[p].list = orbs[p].list \/ orbs'[p].list = l)
        BY <1>1, <1>3, <2>1 DEF Passes
    <3>2. command = p \/ orbs[p].list \in LU
        BY <3>1, Zenon DEF OrbInv, CommandSound
    <3>3. QED
        BY <3>1, <3>2
  <2>2. ASSUME run'["eh"].pc = "idle", command' # 0
        PROVE  orbs'[command'].kind = "cmd" /\ orbs'[command'].list # "none"
    <3>1. command' = command /\ run["eh"].pc = "idle" /\ command \in Orb
        BY <1>1, <2>2, SbpAssumption DEF OrbInv, SbpTypes, Orb
    <3>2. orbs[command].kind = "cmd" /\ orbs[command].list # "none"
        BY <2>2, <3>1 DEF OrbInv, CommandSound
    <3>3. QED
        BY <1>3, <3>1, <3>2
  <2>3. ASSUME run'["eh"].pc = "cancel"
        PROVE  command' # 0 /\ \A p \in Orb : orbs'[p].kind = "cmd" => orbs'[p].list # "lu"
    <3>1. command # 0 /\ \A p \in Orb : orbs[p].kind = "cmd" => orbs[p].list # "lu"
        BY <1>1, <2>3, Zenon DEF OrbInv, CommandSound
    <3>2. QED
        BY <1>1, <1>3, <3>1
  <2>4. QED
      BY <2>1, <2>2, <2>3, Zenon DEF CommandSound
<1>9. LogicalUnitOutlivesOrbs'
  <2> SUFFICES ASSUME NEW p \in Orb, orbs'[p].t \in {"flight", "closing"}
               PROVE  lus'[orbs'[p].lu].alive \/ orbs'[p].overtaken \/ orbs'[p].raced
      BY DEF LogicalUnitOutlivesOrbs
  <2>1. /\ orbs[p].t \in {"flight", "closing"} /\ orbs'[p].lu = orbs[p].lu
        /\ orbs'[p].raced = orbs[p].raced /\ orbs'[p].overtaken = orbs[p].overtaken
      BY <1>3
  <2>2. lus[orbs[p].lu].alive \/ orbs[p].overtaken \/ orbs[p].raced
      BY <2>1 DEF OrbInv, LogicalUnitOutlivesOrbs
  <2>3. orbs[p].lu \in LU
      BY <2>1, InUse
  <2>4. QED
      BY <2>1, <2>2, <2>3
<1>10. QED
    BY <1>4, <1>5, <1>6, <1>7, <1>8, <1>9 DEF OrbInv

\* A step that touches no ORB and no owner.
LEMMA OrbsUnchanged ==
    ASSUME OrbInv, UNCHANGED orbs, \A k \in LU : run'[k].orb = run[k].orb
    PROVE  /\ orbs' \in [Orb -> OrbType] /\ OrbsSound'
           /\ \A o \in Orb, l \in LU, x \in BOOLEAN : Passes(orbs[o], orbs'[o], l, x)
<1>1. \A o \in Orb : Sent(o)' = Sent(o)
    BY Zenon DEF Sent
<1>2. OrbsSound'
    BY <1>1, Zenon DEF OrbInv, OrbsSound
<1>3. QED
    BY <1>2 DEF OrbInv, SbpTypes, Passes

\* The owners after a thread has put its ORB.
LEMMA OwnedAfterPut ==
    ASSUME OrbInv, NEW l \in LU, NEW r \in ThreadType, r.orb = 0,
           run' = [run EXCEPT ![l] = r]
    PROVE  \A o \in Orb : Sent(o)' = OwnedByOther(o, l)
<1>1. run'[l].orb = 0 /\ \A k \in LU \ {l} : run'[k] = run[k]
    BY DEF OrbInv, SbpTypes, SbpThread
<1>2. \A o \in Orb : o # 0
    BY SbpAssumption DEF Orb
<1>3. \A o \in Orb : (\E k \in LU : run'[k].orb = o) <=> (\E k \in LU \ {l} : run[k].orb = o)
    BY <1>1, <1>2
<1>4. QED
    BY <1>3, Zenon DEF Sent, OwnedByOther

\* The end of sbp2_send_management_orb() and what the work does next.
LEMMA ResultKeeps ==
    ASSUME OrbInv, NEW l \in LU, run[l].pc = "result", run[l].after # "remove",
           NEW r \in ThreadType, run' = [run EXCEPT ![l] = r], r.orb = 0, r.after # "remove",
           r.pc = "idle" => r = NoThread, r.pc = "adding" => ~lus[l].sdev,
           \/ orbs' = PutManagementOrb(l)
           \/ orbs' = Splice(PutManagementOrb(l), l, l) /\ r.pc = "cancel",
           NEW u \in LuType, lus' = [lus EXCEPT ![l] = u], u.alive = lus[l].alive,
           u.sdev = lus[l].sdev, u.blocked = lus[l].blocked,
           tgt' \in TgtType, tgt'.blocked = tgt.blocked, tgt'.dont_block >= tgt.dont_block,
           tgt'.state = tgt.state, UNCHANGED <<sbpBus, command>>
    PROVE  OrbInv'
<1>1. tgt \in TgtType /\ lus \in [LU -> LuType] /\ lus[l].alive
    BY DEF OrbInv, SbpTypes, ThreadsSound
<1>2. lus' \in [LU -> LuType] /\ \A k \in LU : /\ lus'[k].alive = lus[k].alive
                                              /\ lus'[k].sdev = lus[k].sdev
                                              /\ lus'[k].blocked = lus[k].blocked
  <2>1. lus' \in [LU -> LuType] /\ lus'[l] = u /\ \A k \in LU \ {l} : lus'[k] = lus[k]
      BY <1>1
  <2>2. QED
      BY <2>1
<1>3. CountersSound'
  <2>1. run'[l] = r /\ \A k \in LU \ {l} : run'[k] = run[k]
      BY DEF OrbInv, SbpTypes, SbpThread
  <2>2. Unsettled' \subseteq Unsettled
      BY <1>2, <2>1 DEF Unsettled
  <2>3. tgt.state # "absent"
      BY <1>1 DEF OrbInv, CountersSound, NoLu
  <2>4. QED
      BY <1>1, <1>2, <2>2, <2>3, CountersKept DEF OrbInv
<1>4. /\ orbs' \in [Orb -> OrbType] /\ OrbsSound'
      /\ \A o \in Orb : Passes(orbs[o], orbs'[o], l, r.pc = "cancel")
  <2> DEFINE P == PutManagementOrb(l)
  <2>1. P \in [Orb -> OrbType]
        /\ \A o \in Orb : OrbSound(P[o], OwnedByOther(o, l)) /\ Passes(orbs[o], P[o], l, FALSE)
      BY PutSound
  <2> HIDE DEF P
  <2>2. \A o \in Orb : Sent(o)' = OwnedByOther(o, l)
      BY OwnedAfterPut
  <2>3. CASE orbs' = P
    <3>1. \A o \in Orb : OrbSound(P[o], Sent(o)')
        BY <2>1, <2>2, Zenon
    <3>2. OrbsSound'
        BY <2>3, <3>1, Zenon DEF OrbsSound
    <3>3. QED
        BY <2>1, <2>3, <3>2 DEF Passes
  <2>4. CASE orbs' = Splice(P, l, l) /\ r.pc = "cancel"
    <3>1. l \in SbpThread
        BY DEF SbpThread
    <3>2. /\ orbs' \in [Orb -> OrbType]
          /\ \A o \in Orb :
                /\ IF P[o].list = "lu" /\ P[o].lu = l THEN orbs'[o].list = l ELSE orbs'[o] = P[o]
                /\ orbs'[o].kind = P[o].kind /\ orbs'[o].lu = P[o].lu /\ orbs'[o].t = P[o].t
                /\ orbs'[o].raced = P[o].raced /\ orbs'[o].overtaken = P[o].overtaken
                /\ \A x \in BOOLEAN : OrbSound(P[o], x) => OrbSound(orbs'[o], x)
        BY <2>1, <2>4, <3>1, SplicedSound
    <3>3. OrbsSound'
      <4>1. \A o \in Orb : OwnedByOther(o, l) \in BOOLEAN
          BY DEF OwnedByOther
      <4>2. \A o \in Orb : OrbSound(orbs'[o], OwnedByOther(o, l))
          BY <2>1, <3>2, <4>1, Zenon
      <4>3. \A o \in Orb : OrbSound(orbs'[o], Sent(o)')
          BY <2>2, <4>2, Zenon
      <4>4. QED
          BY <4>3, Zenon DEF OrbsSound
    <3>4. ASSUME NEW o \in Orb PROVE Passes(orbs[o], orbs'[o], l, TRUE)
      <4>1. CASE P[o] = NoOrb /\ orbs[o].kind # "cmd"
        <5>1. P[o].list = "none"
            BY <4>1 DEF NoOrb
        <5>2. orbs'[o] = P[o]
            BY <3>2, <5>1
        <5>3. QED
            BY <4>1, <5>2 DEF Passes
      <4>2. CASE /\ P[o].kind = orbs[o].kind /\ P[o].lu = orbs[o].lu /\ P[o].t = orbs[o].t
                 /\ P[o].raced = orbs[o].raced /\ P[o].overtaken = orbs[o].overtaken
                 /\ P[o].list = orbs[o].list
          BY <3>2, <4>2 DEF Passes
      <4>3. QED
          BY <2>1, <4>1, <4>2 DEF Passes
    <3>5. (r.pc = "cancel") = TRUE
        BY <2>4
    <3>6. QED
        BY <3>2, <3>3, <3>4, <3>5, Zenon
  <2>5. QED
      BY <2>3, <2>4 DEF P
<1>5. QED
    BY <1>1, <1>2, <1>3, <1>4, ThreadKeeps

\* The threads of the work items between two calls.
LEMMA GoTyped ==
    ASSUME OrbInv, NEW l \in LU, NEW fn \in {"none", "login", "reconnect", "logout"},
           NEW pc \in {"send", "cancel", "adding"},
           NEW after \in {"login", "reconnect", "logout"}, Go(l, pc, fn, after)
    PROVE  \E r \in ThreadType : /\ run' = [run EXCEPT ![l] = r] /\ r.pc = pc /\ r.orb = 0
                                 /\ r.after = after
<1> DEFINE r == [run[l] EXCEPT !.pc = pc, !.fn = fn, !.after = after, !.orb = 0]
<1>1. run[l] \in ThreadType /\ 0 \in 0 .. NOrb
    BY SbpAssumption DEF OrbInv, SbpTypes, SbpThread
<1>2. r \in ThreadType /\ r.pc = pc /\ r.orb = 0 /\ r.after = after
  <2>1. ASSUME NEW u \in ThreadType, NEW x \in 0 .. NOrb
        PROVE  LET v == [u EXCEPT !.pc = pc, !.fn = fn, !.after = after, !.orb = x]
               IN v \in ThreadType /\ v.pc = pc /\ v.orb = x /\ v.after = after
      BY ZenonT(60) DEF ThreadType
  <2>2. QED
      BY <1>1, <2>1, Zenon
<1>3. run' = [run EXCEPT ![l] = r]
    BY DEF Go
<1> HIDE DEF r
<1>4. QED
    BY <1>2, <1>3

\* An idle thread.
LEMMA NoThreadTyped ==
    /\ NoThread \in ThreadType /\ NoThread.pc = "idle" /\ NoThread.orb = 0
    /\ NoThread.after = "none"
BY SbpAssumption DEF NoThread, ThreadType

\* The types of one logical unit and of its thread.
LEMMA LuFields ==
    ASSUME OrbInv, NEW l \in LU
    PROVE  /\ lus[l] \in LuType /\ lus \in [LU -> LuType] /\ tgt \in TgtType
           /\ tgt.dont_block \in Nat /\ run[l] \in ThreadType /\ run \in [SbpThread -> ThreadType]
           /\ SbpRetryLimit \in Nat /\ SbpMaxGen \in Nat /\ l \in SbpThread
BY SbpAssumption DEF OrbInv, SbpTypes, TgtType, SbpThread

\* A thread that does not log out is not one of sbp2_remove().
LEMMA NotRemoving ==
    ASSUME OrbInv, NEW l \in LU, run[l].fn # "logout" \/ run[l].after # "remove"
    PROVE  run[l].after # "remove"
BY DEF OrbInv, RemovalSound

\* A new value of the logical unit that keeps what ORBs and counters depend on.
LuKept(l, u) ==
    /\ u \in LuType /\ lus' = [lus EXCEPT ![l] = u]
    /\ u.alive = lus[l].alive /\ u.sdev = lus[l].sdev /\ u.blocked = lus[l].blocked

\* An unchanged logical unit.
LEMMA SameLu ==
    ASSUME OrbInv, NEW l \in LU, UNCHANGED lus
    PROVE  LuKept(l, lus[l])
BY LuFields DEF LuKept

\* The target is the same.
TgtKept ==
    /\ tgt' \in TgtType /\ tgt'.blocked = tgt.blocked /\ tgt'.dont_block >= tgt.dont_block
    /\ tgt'.state = tgt.state

\* An unchanged target.
LEMMA SameTgt ==
    ASSUME OrbInv, UNCHANGED tgt
    PROVE  TgtKept
BY DEF TgtKept, OrbInv, SbpTypes, TgtType

\* The logout that precedes a new login returned.
LEMMA AfterLogoutKeeps ==
    ASSUME OrbInv, NEW l \in LU, AfterLogout(l)
    PROVE  OrbInv'
<1>1. PICK r \in ThreadType : /\ run' = [run EXCEPT ![l] = r] /\ r.pc = "send" /\ r.orb = 0
                              /\ r.after = "login"
    BY GoTyped DEF AfterLogout
<1>2. /\ run[l].pc = "result" /\ run[l].after # "remove" /\ orbs' = PutManagementOrb(l)
      /\ UNCHANGED <<sbpBus, tgt, lus, command>>
    BY DEF AfterLogout
<1>3. LuKept(l, lus[l]) /\ TgtKept
    BY <1>2, SameLu, SameTgt
<1>4. QED
    BY <1>1, <1>2, <1>3, ResultKeeps DEF LuKept, TgtKept

\* The logout after a device that was not added returned.
LEMMA ResetToLoginKeeps ==
    ASSUME OrbInv, NEW l \in LU, ResetToLogin(l)
    PROVE  OrbInv'
<1> DEFINE u == [lus[l] EXCEPT !.workfn = "login"]
<1>1. /\ run[l].pc = "result" /\ run[l].after # "remove" /\ orbs' = PutManagementOrb(l)
      /\ lus' = [lus EXCEPT ![l] = u] /\ run' = [run EXCEPT ![l] = NoThread]
      /\ UNCHANGED <<sbpBus, tgt, command>>
    BY DEF ResetToLogin, Done
<1>2. LuKept(l, u)
    BY <1>1, LuFields DEF LuKept, LuType
<1> HIDE DEF u
<1>3. QED
    BY <1>1, <1>2, NoThreadTyped, SameTgt, ResultKeeps DEF LuKept, TgtKept

\* sbp2_login() failed.
LEMMA LoginFailsKeeps ==
    ASSUME OrbInv, NEW l \in LU, LoginFails(l)
    PROVE  OrbInv'
<1>1. /\ run[l].pc = "result" /\ run[l].fn = "login" /\ orbs' = PutManagementOrb(l)
      /\ run' = [run EXCEPT ![l] = NoThread] /\ UNCHANGED <<sbpBus, command>>
    BY DEF LoginFails, Done
<1>2. run[l].after # "remove"
    BY <1>1, NotRemoving
<1>3. /\ tgt' \in TgtType /\ tgt'.blocked = tgt.blocked /\ tgt'.dont_block >= tgt.dont_block
      /\ tgt'.state = tgt.state
  <2>1. CASE tgt' = tgt
      BY <2>1, LuFields
  <2>2. CASE tgt' = [tgt EXCEPT !.dont_block = tgt.dont_block + 1, !.host = FALSE]
    <3>1. tgt.dont_block + 1 \in Nat /\ tgt.dont_block + 1 >= tgt.dont_block
        BY LuFields
    <3>2. QED
        BY <2>2, <3>1, LuFields DEF TgtType
  <2>3. QED
      BY <2>1, <2>2 DEF LoginFails, sbp2_unblock
<1>4. \E u \in LuType : LuKept(l, u)
  <2>1. CASE lus[l].retries < SbpRetryLimit
    <3> DEFINE n == lus[l].retries + 1
               u == [lus[l] EXCEPT !.retries = n, !.queued = TRUE]
    <3>1. n \in 0 .. SbpRetryLimit + 1
        BY <2>1, LuFields DEF LuType
    <3>2. lus' = [lus EXCEPT ![l] = u]
        BY <2>1, LuFields DEF LoginFails, sbp2_queue_work
    <3> HIDE DEF n
    <3>3. u \in LuType /\ u.alive = lus[l].alive /\ u.sdev = lus[l].sdev
          /\ u.blocked = lus[l].blocked
        BY <3>1, LuFields DEF LuType
    <3>4. QED
        BY <3>2, <3>3 DEF LuKept
  <2>2. CASE ~(lus[l].retries < SbpRetryLimit)
    <3> DEFINE n == SbpRetryLimit + 1
               u == [lus[l] EXCEPT !.retries = n]
    <3>1. n \in 0 .. SbpRetryLimit + 1
        BY LuFields
    <3>2. lus' = [lus EXCEPT ![l] = u]
        BY <2>2, LuFields DEF LoginFails
    <3> HIDE DEF n
    <3>3. u \in LuType /\ u.alive = lus[l].alive /\ u.sdev = lus[l].sdev
          /\ u.blocked = lus[l].blocked
        BY <3>1, LuFields DEF LuType
    <3>4. QED
        BY <3>2, <3>3 DEF LuKept
  <2>3. QED
      BY <2>1, <2>2
<1>5. QED
    BY <1>1, <1>2, <1>3, <1>4, NoThreadTyped, ResultKeeps DEF LuKept

\* sbp2_login() succeeded.
LEMMA LoginSucceedsKeeps ==
    ASSUME OrbInv, NEW l \in LU, LoginSucceeds(l)
    PROVE  OrbInv'
<1> DEFINE u == [lus[l] EXCEPT !.gen = run[l].gen, !.login = TRUE, !.workfn = "reconnect"]
<1>1. /\ run[l].pc = "result" /\ run[l].fn = "login" /\ lus' = [lus EXCEPT ![l] = u]
      /\ UNCHANGED <<sbpBus, tgt, command>>
    BY LuFields DEF LoginSucceeds
<1>2. run[l].after # "remove" /\ run[l].gen \in 0 .. SbpMaxGen
    BY <1>1, NotRemoving, LuFields DEF ThreadType
<1>3. LuKept(l, u)
    BY <1>1, <1>2, LuFields DEF LuKept, LuType
<1> HIDE DEF u
<1>4. CASE lus[l].sdev
  <2>1. orbs' = Splice(PutManagementOrb(l), l, l) /\ Go(l, "cancel", "none", "login")
      BY <1>4 DEF LoginSucceeds
  <2>2. PICK r \in ThreadType : /\ run' = [run EXCEPT ![l] = r] /\ r.pc = "cancel" /\ r.orb = 0
                                /\ r.after = "login"
      BY <2>1, GoTyped
  <2>3. QED
      BY <1>1, <1>2, <1>3, <2>1, <2>2, SameTgt, ResultKeeps DEF LuKept, TgtKept
<1>5. CASE ~lus[l].sdev
  <2>1. orbs' = PutManagementOrb(l) /\ Go(l, "adding", "none", "login")
      BY <1>5 DEF LoginSucceeds
  <2>2. PICK r \in ThreadType : /\ run' = [run EXCEPT ![l] = r] /\ r.pc = "adding" /\ r.orb = 0
                                /\ r.after = "login"
      BY <2>1, GoTyped
  <2>3. QED
      BY <1>1, <1>2, <1>3, <1>5, <2>1, <2>2, SameTgt, ResultKeeps DEF LuKept, TgtKept
<1>6. QED
    BY <1>4, <1>5

\* sbp2_reconnect() failed.
LEMMA ReconnectFailsKeeps ==
    ASSUME OrbInv, NEW l \in LU, ReconnectFails(l)
    PROVE  OrbInv'
<1>1. /\ run[l].pc = "result" /\ run[l].fn = "reconnect" /\ orbs' = PutManagementOrb(l)
      /\ run' = [run EXCEPT ![l] = NoThread] /\ UNCHANGED <<sbpBus, tgt, command>>
    BY DEF ReconnectFails, Done
<1>2. run[l].after # "remove"
    BY <1>1, NotRemoving
<1>3. \E u \in LuType : LuKept(l, u)
  <2>1. CASE run[l].gen = sbpBus.card \/ lus[l].retries >= SbpRetryLimit
    <3> DEFINE u == [lus[l] EXCEPT !.retries = 0, !.workfn = "login", !.queued = TRUE]
    <3>1. 0 \in 0 .. SbpRetryLimit + 1
        BY LuFields
    <3>2. lus' = [lus EXCEPT ![l] = u]
        BY <2>1, LuFields DEF ReconnectFails, sbp2_queue_work
    <3>3. u \in LuType /\ u.alive = lus[l].alive /\ u.sdev = lus[l].sdev
          /\ u.blocked = lus[l].blocked
        BY <3>1, LuFields DEF LuType
    <3>4. QED
        BY <3>2, <3>3 DEF LuKept
  <2>2. CASE ~(run[l].gen = sbpBus.card \/ lus[l].retries >= SbpRetryLimit)
    <3> DEFINE n == lus[l].retries + 1
               u == [lus[l] EXCEPT !.retries = n, !.queued = TRUE]
    <3>1. n \in 0 .. SbpRetryLimit + 1
        BY <2>2, LuFields DEF LuType
    <3>2. lus' = [lus EXCEPT ![l] = u]
        BY <2>2, LuFields DEF ReconnectFails, sbp2_queue_work
    <3> HIDE DEF n
    <3>3. u \in LuType /\ u.alive = lus[l].alive /\ u.sdev = lus[l].sdev
          /\ u.blocked = lus[l].blocked
        BY <3>1, LuFields DEF LuType
    <3>4. QED
        BY <3>2, <3>3 DEF LuKept
  <2>3. QED
      BY <2>1, <2>2
<1>4. QED
    BY <1>1, <1>2, <1>3, NoThreadTyped, SameTgt, ResultKeeps DEF LuKept, TgtKept

\* sbp2_reconnect() succeeded.
LEMMA ReconnectSucceedsKeeps ==
    ASSUME OrbInv, NEW l \in LU, ReconnectSucceeds(l)
    PROVE  OrbInv'
<1> DEFINE u == [lus[l] EXCEPT !.gen = run[l].gen]
<1>1. /\ run[l].pc = "result" /\ run[l].fn = "reconnect" /\ lus' = [lus EXCEPT ![l] = u]
      /\ orbs' = Splice(PutManagementOrb(l), l, l) /\ Go(l, "cancel", "none", "reconnect")
      /\ UNCHANGED <<sbpBus, tgt, command>>
    BY DEF ReconnectSucceeds
<1>2. run[l].after # "remove" /\ run[l].gen \in 0 .. SbpMaxGen
    BY <1>1, NotRemoving, LuFields DEF ThreadType
<1>3. LuKept(l, u)
    BY <1>1, <1>2, LuFields DEF LuKept, LuType
<1> HIDE DEF u
<1>4. PICK r \in ThreadType : /\ run' = [run EXCEPT ![l] = r] /\ r.pc = "cancel" /\ r.orb = 0
                              /\ r.after = "reconnect"
    BY <1>1, GoTyped
<1>5. QED
    BY <1>1, <1>2, <1>3, <1>4, SameTgt, ResultKeeps DEF LuKept, TgtKept

\* A step of a thread that leaves the ORBs alone.
LEMMA QuietKeeps ==
    ASSUME OrbInv, NEW l \in LU, NEW r \in ThreadType, run' = [run EXCEPT ![l] = r],
           UNCHANGED <<sbpBus, command, orbs>>, NEW u, LuKept(l, u), TgtKept,
           lus[l].alive \/ UNCHANGED <<tgt, lus>>, lus[l].alive \/ r = NoThread,
           r.orb = run[l].orb, r.orb # 0 => r.pc \in {"wait", "cancel", "result"},
           r.pc = "idle" => r = NoThread,
           run[l].pc = "cancel" => \A o \in Orb : orbs[o].list # l,
           run[l].pc # "wait",
           r.pc = "adding" => ~lus[l].sdev /\ r.after # "remove",
           r.after # "remove" => run[l].after # "remove",
           r.after = "remove" =>
               /\ run[l].after = "remove" /\ r.fn = "logout"
               /\ r.pc \in {"send", "wait", "cancel", "result"}
               /\ r.pc \in {"wait", "cancel"} => r.orb # 0
    PROVE  OrbInv'
<1>1. lus' \in [LU -> LuType] /\ \A k \in LU : /\ lus'[k].alive = lus[k].alive
                                              /\ lus'[k].sdev = lus[k].sdev
                                              /\ lus'[k].blocked = lus[k].blocked
  <2>1. lus' \in [LU -> LuType] /\ lus'[l] = u /\ \A k \in LU \ {l} : lus'[k] = lus[k]
      BY LuFields DEF LuKept
  <2>2. QED
      BY <2>1 DEF LuKept
<1>2. run'[l] = r /\ \A k \in LU \ {l} : run'[k] = run[k]
    BY LuFields DEF SbpThread
<1>3. CountersSound'
  <2>1. Unsettled' \subseteq Unsettled
      BY <1>1, <1>2 DEF Unsettled
  <2>2. tgt.state = "absent" => UNCHANGED lus
    <3>1. tgt.state = "absent" => ~lus[l].alive
        BY DEF OrbInv, CountersSound, NoLu
    <3>2. QED
        BY <3>1
  <2>3. QED
      BY <1>1, <2>1, <2>2, LuFields, CountersKept DEF OrbInv, TgtKept
<1>4. \A k \in LU : run'[k].orb = run[k].orb
    BY <1>2
<1>5. /\ orbs' \in [Orb -> OrbType] /\ OrbsSound'
      /\ \A o \in Orb : Passes(orbs[o], orbs'[o], l, r.pc = "cancel")
    BY <1>4, OrbsUnchanged
<1>6. r.orb # 0 => orbs'[r.orb].kind # "free"
    BY OneOwner
<1>7. QED
    BY <1>1, <1>3, <1>5, <1>6, ThreadKeeps DEF TgtKept

\* A thread at work has its logical unit.
LEMMA AliveThread ==
    ASSUME OrbInv, NEW l \in LU, run[l].pc # "idle"
    PROVE  lus[l].alive
BY DEF OrbInv, ThreadsSound

\* sbp2_send_management_orb() returns at once.
LEMMA SendReturnsKeeps ==
    ASSUME OrbInv, NEW l \in LU, run[l].pc = "send", NEW v \in {"ok", "error"},
           run' = [run EXCEPT ![l].pc = "result", ![l].retval = v],
           UNCHANGED <<sbpBus, tgt, lus, orbs, command>>
    PROVE  OrbInv'
<1> DEFINE r == [run[l] EXCEPT !.pc = "result", !.retval = v]
<1>1. run' = [run EXCEPT ![l] = r]
    OBVIOUS
<1>2. /\ r \in ThreadType /\ r.pc = "result" /\ r.orb = run[l].orb /\ r.fn = run[l].fn
      /\ r.after = run[l].after
  <2>1. ASSUME NEW u \in ThreadType
        PROVE  LET x == [u EXCEPT !.pc = "result", !.retval = v]
               IN x \in ThreadType /\ x.pc = "result" /\ x.orb = u.orb /\ x.fn = u.fn
                  /\ x.after = u.after
      BY DEF ThreadType
  <2>2. QED
      BY <2>1, LuFields
<1> HIDE DEF r
<1>3. r.after = "remove" => r.fn = "logout"
    BY <1>2 DEF OrbInv, RemovalSound
<1>4. QED
    BY <1>1, <1>2, <1>3, AliveThread, SameLu, SameTgt, QuietKeeps

\* The loop of sbp2_cancel_orbs() ends.
LEMMA CancelEndsKeeps ==
    ASSUME OrbInv, NEW l \in LU, CancelEnds(l)
    PROVE  OrbInv'
<1> DEFINE pc == IF run[l].orb # 0 THEN "result" ELSE "unblock"
           r == [run[l] EXCEPT !.pc = pc]
<1>1. l # "eh"
    BY SbpAssumption
<1>2. /\ run[l].pc = "cancel" /\ Spliced(orbs, l) = {} /\ run' = [run EXCEPT ![l] = r]
      /\ UNCHANGED <<sbpBus, tgt, lus, orbs, command>>
    BY <1>1 DEF CancelEnds
<1>3. pc \in {"result", "unblock"} /\ (run[l].orb # 0 <=> pc = "result")
    OBVIOUS
<1> HIDE DEF pc
<1>4. /\ r \in ThreadType /\ r.pc = pc /\ r.orb = run[l].orb /\ r.fn = run[l].fn
      /\ r.after = run[l].after
    BY <1>3, LuFields DEF ThreadType
<1> HIDE DEF r
<1>5. r.after = "remove" => r.fn = "logout" /\ pc = "result"
    BY <1>2, <1>3, <1>4 DEF OrbInv, RemovalSound
<1>6. \A o \in Orb : orbs[o].list # l
    BY <1>2 DEF Spliced
<1>7. QED
    BY <1>2, <1>3, <1>4, <1>5, <1>6, AliveThread, SameLu, SameTgt, QuietKeeps

\* Only a thread in sbp2_send_management_orb() holds an ORB.
LEMMA NoOrbHeld ==
    ASSUME OrbInv, NEW l \in LU, run[l].pc \notin {"wait", "cancel", "result"}
    PROVE  run[l].orb = 0
BY DEF OrbInv, ThreadsSound

\* A thread of sbp2_remove() is in sbp2_send_management_orb() or about to be.
LEMMA NoRemoval ==
    ASSUME OrbInv, NEW l \in LU, run[l].pc \notin {"send", "wait", "cancel", "result"}
    PROVE  run[l].after # "remove"
BY DEF OrbInv, RemovalSound

\* __scsi_add_device() did not add the device.
LEMMA DeviceNotAddedKeeps ==
    ASSUME OrbInv, NEW l \in LU, DeviceNotAdded(l)
    PROVE  OrbInv'
<1> DEFINE r == [run[l] EXCEPT !.pc = "send", !.fn = "logout", !.after = "logout",
                               !.gen = sbpBus.device]
<1>1. /\ run[l].pc = "adding" /\ UNCHANGED <<sbpBus, tgt, lus, orbs, command>>
      /\ run' = [run EXCEPT ![l] = r]
    BY DEF DeviceNotAdded
<1>2. sbpBus.device \in 0 .. SbpMaxGen
    BY DEF OrbInv, SbpTypes, BusType
<1>3. r \in ThreadType /\ r.pc = "send" /\ r.orb = run[l].orb /\ r.after = "logout"
  <2>1. ASSUME NEW u \in ThreadType, NEW g \in 0 .. SbpMaxGen
        PROVE  LET v == [u EXCEPT !.pc = "send", !.fn = "logout", !.after = "logout", !.gen = g]
               IN v \in ThreadType /\ v.pc = "send" /\ v.orb = u.orb /\ v.after = "logout"
      BY DEF ThreadType
  <2>2. QED
      BY <1>2, <2>1, LuFields
<1> HIDE DEF r
<1>4. run[l].orb = 0 /\ run[l].after # "remove"
    BY <1>1, NoOrbHeld, NoRemoval
<1>5. QED
    BY <1>1, <1>3, <1>4, AliveThread, SameLu, SameTgt, QuietKeeps

\* scsi_unblock_requests()
LEMMA UnblockRequestsKeeps ==
    ASSUME OrbInv, NEW l \in LU, scsi_unblock_requests(l)
    PROVE  OrbInv'
<1>1. /\ run[l].pc = "unblocking" /\ UNCHANGED <<sbpBus, lus, orbs, command>>
      /\ run' = [run EXCEPT ![l] = NoThread] /\ tgt' = [tgt EXCEPT !.host = FALSE]
    BY DEF scsi_unblock_requests, Done
<1>2. TgtKept
  <2>1. tgt' \in TgtType /\ tgt'.blocked = tgt.blocked /\ tgt'.dont_block = tgt.dont_block
        /\ tgt'.state = tgt.state
      BY <1>1, LuFields DEF TgtType
  <2>2. QED
      BY <2>1, LuFields DEF TgtKept
<1>3. run[l].orb = 0 /\ run[l].after # "remove"
    BY <1>1, NoOrbHeld, NoRemoval
<1>4. QED
    BY <1>1, <1>2, <1>3, NoThreadTyped, AliveThread, SameLu, QuietKeeps

\* sbp2_lu_workfn()
LEMMA WorkStartsKeeps ==
    ASSUME OrbInv, NEW l \in LU, sbp2_lu_workfn(l)
    PROVE  OrbInv'
<1> DEFINE u == [lus[l] EXCEPT !.queued = FALSE]
<1>1. /\ lus[l].alive /\ run[l].pc = "idle" /\ lus' = [lus EXCEPT ![l] = u]
      /\ UNCHANGED <<sbpBus, tgt, orbs, command>>
    BY DEF sbp2_lu_workfn
<1>2. LuKept(l, u)
    BY <1>1, LuFields DEF LuKept, LuType
<1> HIDE DEF u
<1>3. run[l] = NoThread /\ run[l].orb = 0 /\ run[l].after # "remove"
    BY <1>1, NoThreadTyped DEF OrbInv, ThreadsSound
<1>4. CASE UNCHANGED run
  <2>1. run' = [run EXCEPT ![l] = NoThread]
      BY <1>3, <1>4, LuFields
  <2>2. QED
      BY <1>1, <1>2, <1>3, <2>1, NoThreadTyped, SameTgt, QuietKeeps
<1>5. CASE ~sbpBus.shutdown
  <2> DEFINE fn == IF lus[l].workfn = "login" /\ lus[l].sdev THEN "logout" ELSE lus[l].workfn
             after == lus[l].workfn
             r == [NoThread EXCEPT !.pc = "send", !.gen = sbpBus.device, !.after = after,
                                   !.fn = fn]
  <2>1. run' = [run EXCEPT ![l] = r]
      BY <1>5 DEF sbp2_lu_workfn
  <2>2. sbpBus.device \in 0 .. SbpMaxGen
      BY DEF OrbInv, SbpTypes, BusType
  <2>3. fn \in {"login", "reconnect", "logout"} /\ after \in {"login", "reconnect"}
      BY LuFields DEF LuType
  <2> HIDE DEF fn, after
  <2>4. r \in ThreadType /\ r.pc = "send" /\ r.orb = 0 /\ r.after # "remove"
      BY <2>2, <2>3, NoThreadTyped DEF ThreadType
  <2> HIDE DEF r
  <2>5. QED
      BY <1>1, <1>2, <1>3, <2>1, <2>4, SameTgt, QuietKeeps
<1>6. QED
    BY <1>4, <1>5 DEF sbp2_lu_workfn

\* The wait for a management ORB ends, and its logical unit's ORBs are spliced.
LEMMA WaitEndsKeeps ==
    ASSUME OrbInv, NEW l \in LU, WaitEnds(l)
    PROVE  OrbInv'
<1> DEFINE r == [run[l] EXCEPT !.pc = "cancel", !.found = FALSE]
<1>1. /\ run[l].pc = "wait" /\ orbs' = Splice(orbs, l, l) /\ run' = [run EXCEPT ![l] = r]
      /\ UNCHANGED <<sbpBus, tgt, lus, command>>
    BY DEF WaitEnds
<1>2. /\ r \in ThreadType /\ r.pc = "cancel" /\ r.orb = run[l].orb /\ r.after = run[l].after
      /\ r.fn = run[l].fn
  <2>1. ASSUME NEW u \in ThreadType
        PROVE  LET v == [u EXCEPT !.pc = "cancel", !.found = FALSE]
               IN v \in ThreadType /\ v.pc = "cancel" /\ v.orb = u.orb /\ v.after = u.after
                  /\ v.fn = u.fn
      BY DEF ThreadType
  <2>2. QED
      BY <2>1, LuFields
<1> HIDE DEF r
<1>3. run'[l] = r /\ \A k \in LU \ {l} : run'[k] = run[k]
    BY <1>1, LuFields DEF SbpThread
<1>4. /\ orbs' \in [Orb -> OrbType]
      /\ \A o \in Orb :
            /\ IF orbs[o].list = "lu" /\ orbs[o].lu = l THEN orbs'[o].list = l
               ELSE orbs'[o] = orbs[o]
            /\ orbs'[o].kind = orbs[o].kind /\ orbs'[o].lu = orbs[o].lu /\ orbs'[o].t = orbs[o].t
            /\ orbs'[o].raced = orbs[o].raced /\ orbs'[o].overtaken = orbs[o].overtaken
            /\ \A x \in BOOLEAN : OrbSound(orbs[o], x) => OrbSound(orbs'[o], x)
  <2>1. orbs \in [Orb -> OrbType] /\ l \in SbpThread
      BY LuFields DEF OrbInv, SbpTypes
  <2>2. /\ Splice(orbs, l, l) \in [Orb -> OrbType]
        /\ \A o \in Orb : LET b == orbs[o]
                              c == Splice(orbs, l, l)[o]
             IN /\ IF b.list = "lu" /\ b.lu = l THEN c.list = l ELSE c = b
                /\ c.kind = b.kind /\ c.lu = b.lu /\ c.t = b.t /\ c.raced = b.raced
                /\ c.overtaken = b.overtaken
                /\ \A x \in BOOLEAN : OrbSound(b, x) => OrbSound(c, x)
      BY <2>1, SplicedSound
  <2>3. QED
      BY <1>1, <2>2, Zenon
<1>5. OrbsSound'
  <2>1. \A o \in Orb : Sent(o)' = Sent(o) /\ Sent(o) \in BOOLEAN
    <3>1. \A k \in LU : run'[k].orb = run[k].orb
        BY <1>2, <1>3
    <3>2. QED
        BY <3>1, Zenon DEF Sent
  <2>2. \A o \in Orb : OrbSound(orbs'[o], Sent(o)')
      BY <1>4, <2>1, Zenon DEF OrbInv, OrbsSound
  <2>3. QED
      BY <2>2, Zenon DEF OrbsSound
<1>6. \A o \in Orb : Passes(orbs[o], orbs'[o], l, TRUE)
    BY <1>4 DEF Passes
<1>7. \A o \in Orb : Passes(orbs[o], orbs'[o], l, r.pc = "cancel")
  <2>1. (r.pc = "cancel") = TRUE
      BY <1>2
  <2>2. QED
      BY <1>6, <2>1, Zenon
<1>8. \A o \in Orb : orbs'[o].list = "lu" => orbs'[o].lu # l
    BY <1>4, SbpAssumption
<1>9. r.orb # 0 => orbs'[r.orb].kind # "free"
    BY <1>2, <1>4, OneOwner
<1>10. r.after = "remove" => r.fn = "logout" /\ r.orb # 0
    BY <1>1, <1>2 DEF OrbInv, RemovalSound
<1>11. CountersSound' /\ tgt' \in TgtType /\ lus' \in [LU -> LuType]
  <2>1. \A k \in LU : run'[k].after = run[k].after
      BY <1>2, <1>3
  <2>2. QED
      BY <1>1, <2>1, HostUntouched DEF OrbInv
<1>12. lus[l].alive /\ r.pc \notin {"idle", "adding"}
       /\ \A k \in LU : lus'[k].alive = lus[k].alive /\ lus'[k].sdev = lus[k].sdev
    BY <1>1, <1>2, AliveThread
<1>13. r.after = "remove" => /\ run[l].after = "remove" /\ r.fn = "logout" /\ r.orb # 0
                             /\ lus'[l].sdev = lus[l].sdev
    BY <1>2, <1>10, <1>12
<1>14. r.orb # 0 => r.orb = run[l].orb /\ orbs'[r.orb].kind # "free"
    BY <1>2, <1>9
<1>15. run' = [run EXCEPT ![l] = r] /\ UNCHANGED <<sbpBus, command>>
    BY <1>1
<1>16. QED
    BY <1>2, <1>4, <1>5, <1>7, <1>8, <1>11, <1>12, <1>13, <1>14, <1>15, ThreadKeeps

\* __scsi_add_device() added the device.
LEMMA DeviceAddedKeeps ==
    ASSUME OrbInv, NEW l \in LU, DeviceAdded(l)
    PROVE  OrbInv'
<1> DEFINE u == [lus[l] EXCEPT !.sdev = TRUE]
<1>1. /\ run[l].pc = "adding" /\ lus' = [lus EXCEPT ![l] = u]
      /\ tgt' = [tgt EXCEPT !.dont_block = tgt.dont_block - 1]
      /\ run' = [run EXCEPT ![l] = NoThread] /\ UNCHANGED <<sbpBus, orbs, command>>
    BY DEF DeviceAdded, Done
<1>2. u \in LuType /\ u.sdev = TRUE /\ u.alive = lus[l].alive /\ u.blocked = lus[l].blocked
    BY LuFields DEF LuType
<1> HIDE DEF u
<1>3. /\ lus' \in [LU -> LuType] /\ lus'[l] = u /\ \A k \in LU \ {l} : lus'[k] = lus[k]
      /\ run'[l] = NoThread /\ \A k \in LU \ {l} : run'[k] = run[k]
    BY <1>1, <1>2, LuFields DEF SbpThread
<1>4. lus[l].alive /\ ~lus[l].sdev /\ run[l].after # "remove" /\ run[l].orb = 0
    BY <1>1, AliveThread, NoRemoval, NoOrbHeld DEF OrbInv, ThreadsSound
<1>5. l \in Unsettled /\ Unsettled' = Unsettled \ {l} /\ Blocked' = Blocked /\ Dead' = Dead
      /\ Unsettled \in SUBSET LU
    BY <1>2, <1>3, <1>4 DEF Unsettled, Blocked, Dead
<1>6. Cardinality(Unsettled') = Cardinality(Unsettled) - 1 /\ Cardinality(Unsettled) \in Nat
      /\ Cardinality(Unsettled') \in Nat
    BY <1>5, LuSets, FS_RemoveElement
<1>7. tgt.dont_block - 1 \in Nat /\ Cardinality(Unsettled') <= tgt.dont_block - 1
    BY <1>6, LuFields DEF OrbInv, CountersSound
<1>8. tgt' \in TgtType /\ tgt'.blocked = tgt.blocked /\ tgt'.state = tgt.state
      /\ tgt'.dont_block = tgt.dont_block - 1
    BY <1>1, <1>7, LuFields DEF TgtType
<1>9. tgt.state # "absent"
    BY <1>4 DEF OrbInv, CountersSound, NoLu
<1>10. CountersSound'
    BY <1>5, <1>7, <1>8, <1>9 DEF OrbInv, CountersSound
<1>11. \A k \in LU : run'[k].orb = run[k].orb
    BY <1>3, <1>4, NoThreadTyped
<1>12. /\ orbs' \in [Orb -> OrbType] /\ OrbsSound'
       /\ \A o \in Orb : Passes(orbs[o], orbs'[o], l, NoThread.pc = "cancel")
    BY <1>1, <1>11, OrbsUnchanged
<1>13. \A k \in LU : lus'[k].alive = lus[k].alive /\ (k # l => lus'[k].sdev = lus[k].sdev)
    BY <1>2, <1>3
<1>14. QED
    BY <1>1, <1>3, <1>8, <1>10, <1>12, <1>13, NoThreadTyped, ThreadKeeps

\* sbp2_conditionally_unblock()
LEMMA UnblockKeeps ==
    ASSUME OrbInv, NEW l \in LU, sbp2_conditionally_unblock(l)
    PROVE  OrbInv'
<1>1. run[l].pc = "unblock" /\ UNCHANGED <<sbpBus, orbs, command>>
    BY DEF sbp2_conditionally_unblock
<1>2. lus[l].alive /\ run[l].after # "remove" /\ run[l].orb = 0
    BY <1>1, AliveThread, NoRemoval, NoOrbHeld
<1>3. CASE ~(lus[l].blocked /\ lus[l].gen = sbpBus.card)
  <2>1. run' = [run EXCEPT ![l] = NoThread] /\ UNCHANGED <<lus, tgt>>
      BY <1>3 DEF sbp2_conditionally_unblock, Done
  <2>2. QED
      BY <1>1, <1>2, <2>1, NoThreadTyped, SameLu, SameTgt, QuietKeeps
<1>4. CASE lus[l].blocked /\ lus[l].gen = sbpBus.card
  <2> DEFINE u == [lus[l] EXCEPT !.blocked = FALSE]
             s == [run[l] EXCEPT !.pc = "unblocking"]
  <2>1. /\ lus' = [lus EXCEPT ![l] = u] /\ tgt' = [tgt EXCEPT !.blocked = tgt.blocked - 1]
        /\ \/ run' = [run EXCEPT ![l] = s]
           \/ run' = [run EXCEPT ![l] = NoThread]
      BY <1>4 DEF sbp2_conditionally_unblock, Done
  <2>2. u \in LuType /\ u.sdev = lus[l].sdev /\ u.alive = lus[l].alive /\ u.blocked = FALSE
      BY LuFields DEF LuType
  <2>3. s \in ThreadType /\ s.pc = "unblocking" /\ s.orb = 0 /\ s.after # "remove"
      BY <1>2, LuFields DEF ThreadType
  <2> HIDE DEF u, s
  <2>4. PICK r \in ThreadType : /\ run' = [run EXCEPT ![l] = r] /\ r.orb = 0
                                /\ r.after # "remove"
                                /\ (r = NoThread \/ r.pc = "unblocking")
      BY <2>1, <2>3, NoThreadTyped
  <2>5. /\ lus' \in [LU -> LuType] /\ lus'[l] = u /\ \A k \in LU \ {l} : lus'[k] = lus[k]
        /\ run'[l] = r /\ \A k \in LU \ {l} : run'[k] = run[k]
      BY <2>1, <2>2, <2>4, LuFields DEF SbpThread
  <2>6. /\ l \in Blocked /\ Blocked' = Blocked \ {l} /\ Blocked \in SUBSET LU
        /\ l \in Blocked \cup Dead /\ (Blocked \cup Dead)' = (Blocked \cup Dead) \ {l}
        /\ Blocked \cup Dead \in SUBSET LU
      BY <1>2, <1>4, <2>2, <2>5 DEF Blocked, Dead
  <2>7. Unsettled' = Unsettled
    <3>1. \A k \in LU : lus'[k].alive = lus[k].alive /\ lus'[k].sdev = lus[k].sdev
                         /\ (run'[k].after # "remove" <=> run[k].after # "remove")
        BY <1>2, <2>2, <2>4, <2>5
    <3>2. QED
        BY <3>1 DEF Unsettled
  <2>8. /\ Cardinality(Blocked') = Cardinality(Blocked) - 1
        /\ Cardinality((Blocked \cup Dead)') = Cardinality(Blocked \cup Dead) - 1
        /\ Cardinality(Blocked) \in Nat /\ Cardinality(Blocked') \in Nat
        /\ Cardinality(Blocked \cup Dead) \in Nat
    <3>1. IsFiniteSet(Blocked) /\ IsFiniteSet(Blocked \cup Dead)
          /\ Cardinality(Blocked) \in Nat /\ Cardinality(Blocked \cup Dead) \in Nat
          /\ Cardinality(Blocked \ {l}) \in Nat
        BY <2>6, LuSets
    <3>2. Cardinality(Blocked \ {l}) = Cardinality(Blocked) - 1
        BY <2>6, <3>1, FS_RemoveElement
    <3>3. Cardinality((Blocked \cup Dead) \ {l}) = Cardinality(Blocked \cup Dead) - 1
        BY <2>6, <3>1, FS_RemoveElement
    <3>4. QED
        BY <2>6, <3>1, <3>2, <3>3, Zenon
  <2>9. tgt.blocked \in 0 .. Cardinality(LU) /\ Cardinality(LU) \in Nat
      BY LuFields, LuSets DEF TgtType
  <2>10. tgt.blocked - 1 \in 0 .. Cardinality(LU)
      BY <2>8, <2>9 DEF OrbInv, CountersSound
  <2>11. tgt' \in TgtType /\ tgt'.blocked = tgt.blocked - 1 /\ tgt'.state = tgt.state
         /\ tgt'.dont_block = tgt.dont_block
      BY <2>1, <2>10, LuFields DEF TgtType
  <2>12. tgt.state # "absent"
      BY <1>2 DEF OrbInv, CountersSound, NoLu
  <2>13. CountersSound'
      BY <2>7, <2>8, <2>9, <2>11, <2>12 DEF OrbInv, CountersSound
  <2>14. \A k \in LU : run'[k].orb = run[k].orb
      BY <1>2, <2>4, <2>5
  <2>15. /\ orbs' \in [Orb -> OrbType] /\ OrbsSound'
         /\ \A o \in Orb : Passes(orbs[o], orbs'[o], l, r.pc = "cancel")
      BY <1>1, <2>14, OrbsUnchanged
  <2>16. \A k \in LU : lus'[k].alive = lus[k].alive /\ lus'[k].sdev = lus[k].sdev
      BY <2>2, <2>5
  <2>17. r.pc = "idle" => r = NoThread
      BY <2>4
  <2>18. r.pc # "adding"
      BY <2>4, NoThreadTyped
  <2>19. QED
      BY <1>1, <1>2, <2>4, <2>5, <2>11, <2>13, <2>15, <2>16, <2>17, <2>18, ThreadKeeps
<1>5. QED
    BY <1>3, <1>4


\* sbp2_remove() frees a logical unit.
LEMMA FreeKeeps ==
    ASSUME OrbInv, NEW l \in LU, FreeLogicalUnit(l)
    PROVE  OrbInv'
<1>1. /\ run[l].pc = "result" /\ run[l].after = "remove" /\ orbs' = PutManagementOrb(l)
      /\ lus' = [lus EXCEPT ![l] = NoLu] /\ run' = [run EXCEPT ![l] = NoThread]
      /\ UNCHANGED <<sbpBus, tgt, command>>
    BY DEF FreeLogicalUnit, Done
<1>2. /\ NoLu \in LuType /\ NoLu.alive = FALSE /\ NoLu.blocked = FALSE
    BY SbpAssumption DEF NoLu, LuType
<1>3. /\ lus' \in [LU -> LuType] /\ lus'[l] = NoLu /\ \A k \in LU \ {l} : lus'[k] = lus[k]
      /\ run'[l] = NoThread /\ \A k \in LU \ {l} : run'[k] = run[k]
    BY <1>1, <1>2, LuFields DEF SbpThread
<1>4. /\ orbs' \in [Orb -> OrbType]
      /\ \A o \in Orb : OrbSound(orbs'[o], OwnedByOther(o, l)) /\ Passes(orbs[o], orbs'[o], l, FALSE)
    BY <1>1, PutSound, Zenon
<1>5. OrbsSound'
  <2>1. \A o \in Orb : Sent(o)' = OwnedByOther(o, l)
      BY <1>1, NoThreadTyped, OwnedAfterPut
  <2>2. QED
      BY <1>4, <2>1, Zenon DEF OrbsSound
<1>6. \A o \in Orb : Passes(orbs[o], orbs'[o], l, NoThread.pc = "cancel")
  <2>1. (NoThread.pc = "cancel") = FALSE
      BY NoThreadTyped
  <2>2. QED
      BY <1>4, <2>1, Zenon
<1>7. ASSUME NEW o \in Orb, orbs'[o].lu = l, orbs'[o].t \in {"flight", "closing"}
      PROVE  orbs'[o].overtaken \/ orbs'[o].raced
  <2>1. orbs[o].lu = l /\ orbs[o].t = orbs'[o].t /\ orbs'[o].raced = orbs[o].raced
        /\ orbs'[o].overtaken = orbs[o].overtaken
      BY <1>4, <1>7 DEF Passes, NoOrb
  <2>2. orbs[o].kind # "free" /\ orbs[o] \in OrbType /\ OrbSound(orbs[o], Sent(o))
      BY <1>7, <2>1, InUse
  <2>3. orbs[o].list = "none"
    <3>1. orbs[o].list \in LU => run[orbs[o].list].pc = "cancel" /\ orbs[o].lu = orbs[o].list
        BY Zenon DEF OrbInv, ListsSound
    <3>2. orbs[o].list \notin LU
        BY <1>1, <2>1, <3>1
    <3>3. orbs[o].list # "stack"
        BY <1>7, <2>1, <2>2 DEF OrbSound
    <3>4. orbs[o].list # "eh" /\ (orbs[o].kind = "cmd" => orbs[o].list = "none")
        BY <1>1, <2>1, Zenon DEF OrbInv, RemovalSound
    <3>5. ~(orbs[o].list = "lu" /\ orbs[o].kind = "mgmt")
        BY <1>1, <2>1, Zenon DEF OrbInv, ListsSound
    <3>6. orbs[o].list \in LU \cup {"eh", "none", "lu", "stack"}
          /\ orbs[o].kind \in {"free", "mgmt", "cmd"}
        BY <2>2 DEF OrbType, SbpThread
    <3>7. QED
        BY <2>2, <3>2, <3>3, <3>4, <3>5, <3>6
  <2>4. ~orbs[o].raced => orbs[o].calls = 1
      BY <2>2, <2>3 DEF OrbSound, OrbType
  <2>5. ~orbs[o].raced => orbs[o].overtaken
      BY <1>7, <2>1, <2>2, <2>4 DEF OrbSound
  <2>6. QED
      BY <2>1, <2>5
<1>8. lus[l].alive
    BY <1>1, AliveThread
<1>9. /\ Blocked' = Blocked \ {l} /\ (Blocked \cup Dead)' = (Blocked \cup Dead) \cup {l}
      /\ Unsettled' = Unsettled
      /\ Blocked \in SUBSET LU /\ Blocked \cup Dead \in SUBSET LU
    BY <1>1, <1>2, <1>3, <1>8 DEF Blocked, Dead, Unsettled
<1>10. Cardinality(Blocked') <= Cardinality(Blocked)
  <2>1. IsFiniteSet(Blocked) /\ Blocked' \subseteq Blocked
      BY <1>9, LuSets
  <2>2. QED
      BY <2>1, FS_Subset
<1>11. Cardinality(Blocked \cup Dead) <= Cardinality((Blocked \cup Dead)')
  <2>1. (Blocked \cup Dead)' \in SUBSET LU /\ Blocked \cup Dead \subseteq (Blocked \cup Dead)'
      BY <1>9
  <2>2. IsFiniteSet((Blocked \cup Dead)')
      BY <2>1, LuSets
  <2>3. QED
      BY <2>1, <2>2, FS_Subset
<1>12. CountersSound'
  <2>1. tgt.state # "absent"
      BY <1>2, <1>8 DEF OrbInv, CountersSound
  <2>2. /\ Cardinality(Blocked) \in Nat /\ Cardinality(Blocked') \in Nat
        /\ Cardinality(Blocked \cup Dead) \in Nat /\ Cardinality((Blocked \cup Dead)') \in Nat
    <3>1. Blocked' \in SUBSET LU /\ (Blocked \cup Dead)' \in SUBSET LU
        BY <1>9
    <3>2. QED
        BY <1>9, <3>1, LuSets
  <2>3. tgt.blocked \in Nat
      BY LuFields, LuSets DEF TgtType
  <2>4. QED
      BY <1>1, <1>9, <1>10, <1>11, <2>1, <2>2, <2>3 DEF OrbInv, CountersSound
<1>13. tgt' \in TgtType
    BY <1>1, LuFields
<1>14. \A k \in LU \ {l} : lus'[k].alive = lus[k].alive /\ lus'[k].sdev = lus[k].sdev
    BY <1>3
<1>15. QED
    BY <1>1, <1>3, <1>4, <1>5, <1>6, <1>7, <1>12, <1>13, <1>14, NoThreadTyped, ThreadKeeps

\* A new ORB.
LEMMA NewOrb ==
    ASSUME OrbInv, NEW l \in LU, FreeOrbs # {}, NEW kind \in {"mgmt", "cmd"},
           NEW rcode \in {"unset", "complete"}, kind = "mgmt" => rcode # "unset",
           kind = "cmd" => rcode = "unset", NEW x \in BOOLEAN,
           sbp2_send_orb(AnOrb, kind, l, rcode, Count(x))
    PROVE  /\ AnOrb \in Orb /\ AnOrb \in Nat /\ AnOrb # 0
           /\ orbs[AnOrb] = NoOrb /\ orbs[AnOrb].kind = "free" /\ ~Sent(AnOrb)
           /\ orbs' \in [Orb -> OrbType] /\ \A o \in Orb \ {AnOrb} : orbs'[o] = orbs[o]
           /\ LET n == orbs'[AnOrb]
              IN n.kind = kind /\ n.lu = l /\ n.list = "lu" /\ n.t = "flight" /\ OrbSound(n, x)
<1> DEFINE ref == Count(x)
           n == [NoOrb EXCEPT !.kind = kind, !.lu = l, !.list = "lu", !.t = "flight",
                              !.rcode = rcode, !.ref = ref + 2]
<1>1. AnOrb \in Orb /\ orbs[AnOrb].kind = "free"
  <2>1. AnOrb \in FreeOrbs
      BY Zenon DEF AnOrb
  <2>2. QED
      BY <2>1 DEF FreeOrbs
<1>2. AnOrb \in Nat /\ AnOrb # 0
    BY <1>1, SbpAssumption DEF Orb
<1>3. OrbSound(orbs[AnOrb], Sent(AnOrb))
    BY <1>1 DEF OrbInv, OrbsSound
<1>4. orbs[AnOrb] = NoOrb /\ ~Sent(AnOrb)
    BY <1>1, <1>3, Zenon DEF OrbSound
<1>5. ref \in {0, 1}
    BY DEF Count
<1>6. orbs' = [orbs EXCEPT ![AnOrb] = n] /\ orbs \in [Orb -> OrbType]
    BY DEF sbp2_send_orb, OrbInv, SbpTypes
<1> HIDE DEF ref
<1>7. /\ n \in OrbType /\ n.kind = kind /\ n.lu = l /\ n.list = "lu" /\ n.t = "flight"
      /\ n.rcode = rcode /\ n.ref = ref + 2 /\ n.calls = 0 /\ ~n.raced /\ ~n.overtaken
  <2>1. NoOrb \in OrbType /\ NoOrb.calls = 0 /\ ~NoOrb.raced /\ ~NoOrb.overtaken
      BY NoOrbSound DEF NoOrb
  <2>2. ref + 2 \in Int
      BY <1>5
  <2>3. ASSUME NEW b \in OrbType, NEW x1 \in Int
        PROVE  LET v == [b EXCEPT !.kind = kind, !.lu = l, !.list = "lu", !.t = "flight",
                                  !.rcode = rcode, !.ref = x1]
               IN /\ v \in OrbType /\ v.kind = kind /\ v.lu = l /\ v.list = "lu"
                  /\ v.t = "flight" /\ v.rcode = rcode /\ v.ref = x1 /\ v.calls = b.calls
                  /\ v.raced = b.raced /\ v.overtaken = b.overtaken
      BY DEF OrbType
  <2> DEFINE x1 == ref + 2
  <2> HIDE DEF x1
  <2>4. LET v == [NoOrb EXCEPT !.kind = kind, !.lu = l, !.list = "lu", !.t = "flight",
                               !.rcode = rcode, !.ref = x1]
        IN /\ v \in OrbType /\ v.kind = kind /\ v.lu = l /\ v.list = "lu"
           /\ v.t = "flight" /\ v.rcode = rcode /\ v.ref = x1 /\ v.calls = NoOrb.calls
           /\ v.raced = NoOrb.raced /\ v.overtaken = NoOrb.overtaken
    <3>1. x1 \in Int
        BY <2>2 DEF x1
    <3>2. QED
        BY <2>1, <2>3, <3>1, Zenon
  <2>5. QED
      BY <2>1, <2>4, Zenon DEF x1
<1> HIDE DEF n
<1>8. /\ n.ref = Count(x) + Count(n.t # "done") + Count(n.calls = 0)
  <2>1. Count(n.t # "done") = 1 /\ Count(n.calls = 0) = 1
      BY <1>7 DEF Count
  <2>2. QED
      BY <1>5, <1>7, <2>1 DEF ref
<1>9. OrbSound(n, x)
    BY <1>7, <1>8, SbpAssumption DEF OrbSound
<1>10. orbs' \in [Orb -> OrbType] /\ orbs'[AnOrb] = n /\ \A o \in Orb \ {AnOrb} : orbs'[o] = orbs[o]
    BY <1>1, <1>6, <1>7
<1>11. QED
    BY <1>1, <1>2, <1>4, <1>7, <1>9, <1>10


\* sbp2_send_management_orb() up to its wait.
LEMMA SendKeeps ==
    ASSUME OrbInv, NEW l \in LU, sbp2_send_management_orb(l)
    PROVE  OrbInv'
<1>1. run[l].pc = "send" /\ UNCHANGED <<sbpBus, tgt, lus, command>>
    BY DEF sbp2_send_management_orb
<1>2. CASE \E v \in {"ok", "error"} : run' = [run EXCEPT ![l].pc = "result", ![l].retval = v]
                                       /\ UNCHANGED orbs
    BY <1>1, <1>2, SendReturnsKeeps
<1>3. CASE /\ FreeOrbs # {} /\ sbp2_send_orb(AnOrb, "mgmt", l, "complete", 1)
           /\ run' = [run EXCEPT ![l].pc = "wait", ![l].orb = AnOrb]
  <2>1. sbp2_send_orb(AnOrb, "mgmt", l, "complete", Count(TRUE))
    <3>1. Count(TRUE) = 1
        BY DEF Count
    <3>2. QED
        BY <1>3, <3>1, Zenon
  <2>2. PICK a \in Orb :
            /\ a = AnOrb /\ a \in Nat /\ a # 0
            /\ orbs[a] = NoOrb /\ orbs[a].kind = "free" /\ ~Sent(a)
            /\ orbs' \in [Orb -> OrbType] /\ \A o \in Orb \ {a} : orbs'[o] = orbs[o]
            /\ orbs'[a].kind = "mgmt" /\ orbs'[a].lu = l /\ orbs'[a].list = "lu"
            /\ orbs'[a].t = "flight" /\ OrbSound(orbs'[a], TRUE)
    <3>1. /\ AnOrb \in Orb /\ AnOrb \in Nat /\ AnOrb # 0
          /\ orbs[AnOrb] = NoOrb /\ orbs[AnOrb].kind = "free" /\ ~Sent(AnOrb)
          /\ orbs' \in [Orb -> OrbType] /\ \A o \in Orb \ {AnOrb} : orbs'[o] = orbs[o]
          /\ orbs'[AnOrb].kind = "mgmt" /\ orbs'[AnOrb].lu = l /\ orbs'[AnOrb].list = "lu"
          /\ orbs'[AnOrb].t = "flight" /\ OrbSound(orbs'[AnOrb], TRUE)
        BY <1>3, <2>1, NewOrb
    <3>2. QED
        BY <3>1, Zenon
  <2> DEFINE r == [run[l] EXCEPT !.pc = "wait", !.orb = a]
  <2>3. a \in 0 .. NOrb
      BY <2>2, SbpAssumption DEF Orb
  <2>4. /\ r \in ThreadType /\ r.pc = "wait" /\ r.orb = a /\ r.after = run[l].after
        /\ r.fn = run[l].fn
    <3>1. ASSUME NEW u \in ThreadType, NEW q \in 0 .. NOrb
          PROVE  LET v == [u EXCEPT !.pc = "wait", !.orb = q]
                 IN v \in ThreadType /\ v.pc = "wait" /\ v.orb = q /\ v.after = u.after
                    /\ v.fn = u.fn
        BY DEF ThreadType
    <3>2. QED
        BY <2>3, <3>1, LuFields
  <2>5. run' = [run EXCEPT ![l] = r]
      BY <1>3, <2>2
  <2> HIDE DEF r
  <2>6. /\ run' \in [SbpThread -> ThreadType] /\ run'[l] = r
        /\ \A h \in SbpThread \ {l} : run'[h] = run[h]
        /\ LU \subseteq SbpThread /\ "eh" \in SbpThread /\ l # "eh" /\ "lu" \notin LU
        /\ run'["eh"] = run["eh"]
      BY <2>4, <2>5, LuFields, SbpAssumption DEF SbpThread
  <2>7. SbpTypes'
      BY <1>1, <2>2, <2>6 DEF OrbInv, SbpTypes
  <2>8. lus[l].alive /\ run[l].orb = 0
      BY <1>1, AliveThread, NoOrbHeld
  <2>9. OrbsSound'
    <3>1. ASSUME NEW o \in Orb, o # a PROVE OrbSound(orbs'[o], Sent(o)')
      <4>1. 0 \notin Orb
          BY SbpAssumption DEF Orb
      <4>2. Sent(o)' <=> Sent(o)
          BY <2>4, <2>6, <2>8, <3>1, <4>1 DEF Sent
      <4>3. Sent(o)' = Sent(o)
          BY <4>2, Zenon DEF Sent
      <4>4. OrbSound(orbs[o], Sent(o)) /\ orbs'[o] = orbs[o]
          BY <2>2, <3>1 DEF OrbInv, OrbsSound
      <4>5. QED
          BY <4>3, <4>4, Zenon
    <3>2. Sent(a)' = TRUE
        BY <2>4, <2>6, Zenon DEF Sent
    <3>3. OrbSound(orbs'[a], Sent(a)')
        BY <2>2, <3>2, Zenon
    <3>4. \A o \in Orb : OrbSound(orbs'[o], Sent(o)')
        BY <3>1, <3>3, Zenon
    <3>5. QED
        BY <3>4, Zenon DEF OrbsSound
  <2>10. ListsSound'
    <3> SUFFICES ASSUME NEW p \in Orb
                 PROVE  LET b == orbs'[p] IN
                        /\ b.list = "lu" /\ b.kind = "mgmt" => run'[b.lu].pc = "wait"
                        /\ b.list \in LU => run'[b.list].pc = "cancel" /\ b.lu = b.list
                        /\ b.list = "eh" => run'["eh"].pc = "cancel"
        BY DEF ListsSound
    <3>1. CASE p = a
        BY <2>2, <2>4, <2>6, <3>1 DEF SbpThread
    <3>2. CASE p # a
      <4>1. /\ orbs'[p] = orbs[p]
            /\ orbs[p].list = "lu" /\ orbs[p].kind = "mgmt" => run[orbs[p].lu].pc = "wait"
            /\ orbs[p].list \in LU => run[orbs[p].list].pc = "cancel" /\ orbs[p].lu = orbs[p].list
            /\ orbs[p].list = "eh" => run["eh"].pc = "cancel"
          BY <2>2, <3>2 DEF OrbInv, ListsSound
      <4>2. orbs[p].list # "none" => orbs[p].lu \in LU
          BY InUse
      <4>3. QED
          BY <1>1, <2>6, <4>1, <4>2
    <3>3. QED
        BY <3>1, <3>2
  <2>11. ThreadsSound'
    <3>1. run'["eh"].pc \in {"idle", "cancel"}
        BY <2>6 DEF OrbInv, ThreadsSound
    <3>2. ASSUME NEW k \in LU
          PROVE  /\ run'[k].pc = "idle" => run'[k] = NoThread
                 /\ run'[k].pc # "idle" => lus'[k].alive
                 /\ run'[k].orb # 0 => /\ run'[k].pc \in {"wait", "cancel", "result"}
                                       /\ orbs'[run'[k].orb].kind = "mgmt"
                                       /\ orbs'[run'[k].orb].lu = k
                 /\ run'[k].pc = "adding" => ~lus'[k].sdev /\ run'[k].after # "remove"
      <4>1. CASE k = l
          BY <1>1, <2>2, <2>4, <2>6, <2>8, <4>1
      <4>2. CASE k # l
        <5>1. run'[k] = run[k]
            BY <2>6, <4>2
        <5>2. /\ run[k].pc = "idle" => run[k] = NoThread
              /\ run[k].pc # "idle" => lus[k].alive
              /\ run[k].orb # 0 => /\ run[k].pc \in {"wait", "cancel", "result"}
                                   /\ orbs[run[k].orb].kind = "mgmt" /\ orbs[run[k].orb].lu = k
              /\ run[k].pc = "adding" => ~lus[k].sdev /\ run[k].after # "remove"
            BY Zenon DEF OrbInv, ThreadsSound
        <5>3. run[k].orb # 0 => orbs'[run[k].orb] = orbs[run[k].orb]
          <6>1. HAVE run[k].orb # 0
          <6>2. run[k].orb \in Orb
              BY <6>1, OneOwner
          <6>3. run[k].orb # a
              BY <2>2, Zenon DEF Sent
          <6>4. QED
              BY <2>2, <6>2, <6>3
        <5>4. QED
            BY <1>1, <5>1, <5>2, <5>3
      <4>3. QED
          BY <4>1, <4>2
    <3>3. QED
        BY <3>1, <3>2, Zenon DEF ThreadsSound
  <2>12. RemovalSound'
    <3> SUFFICES ASSUME NEW k \in LU, run'[k].after = "remove"
                 PROVE  /\ run'[k].fn = "logout"
                        /\ run'[k].pc \in {"send", "wait", "cancel", "result"}
                        /\ run'[k].pc \in {"wait", "cancel"} => run'[k].orb # 0
                        /\ ~lus'[k].sdev
                        /\ \A p \in Orb : orbs'[p].lu = k => orbs'[p].list # "eh"
                              /\ (orbs'[p].kind = "cmd" => orbs'[p].list = "none")
        BY Zenon DEF RemovalSound
    <3>1. run[k].after = "remove"
        BY <2>4, <2>6
    <3>2. /\ run[k].fn = "logout" /\ run[k].pc \in {"send", "wait", "cancel", "result"}
          /\ run[k].pc \in {"wait", "cancel"} => run[k].orb # 0
          /\ ~lus[k].sdev
          /\ \A p \in Orb : orbs[p].lu = k => orbs[p].list # "eh"
                              /\ (orbs[p].kind = "cmd" => orbs[p].list = "none")
        BY <3>1, Zenon DEF OrbInv, RemovalSound
    <3>3. /\ run'[k].fn = "logout" /\ run'[k].pc \in {"send", "wait", "cancel", "result"}
          /\ run'[k].pc \in {"wait", "cancel"} => run'[k].orb # 0
          /\ ~lus'[k].sdev
        BY <1>1, <2>2, <2>4, <2>6, <3>2
    <3>4. \A p \in Orb : orbs'[p].lu = k => orbs'[p].list # "eh"
                              /\ (orbs'[p].kind = "cmd" => orbs'[p].list = "none")
        BY <2>2, <3>2
    <3>5. QED
        BY <3>3, <3>4
  <2>13. CommandSound'
    <3>1. \A o \in Orb : orbs'[o].kind = "cmd" =>
              orbs[o].kind = "cmd" /\ orbs'[o].list = orbs[o].list
        BY <2>2
    <3>2. run["eh"].pc = "idle" /\ command # 0 => orbs'[command] = orbs[command]
      <4>1. HAVE run["eh"].pc = "idle" /\ command # 0
      <4>2. orbs[command].kind = "cmd" /\ command \in Orb
          BY <4>1, SbpAssumption DEF OrbInv, CommandSound, SbpTypes, Orb
      <4>3. QED
          BY <2>2, <4>2
    <3>3. QED
        BY <1>1, <2>6, <3>1, <3>2 DEF OrbInv, CommandSound
  <2>14. CountersSound'
    <3>1. \A k \in LU : run'[k].after = run[k].after
        BY <2>4, <2>6
    <3>2. QED
        BY <1>1, <3>1, HostUntouched DEF OrbInv
  <2>15. LogicalUnitOutlivesOrbs'
      BY <1>1, <2>2, <2>8 DEF OrbInv, LogicalUnitOutlivesOrbs
  <2>16. QED
      BY <2>7, <2>9, <2>10, <2>11, <2>12, <2>13, <2>14, <2>15 DEF OrbInv
<1>4. QED
  <2>1. CASE run[l].fn = "logout" /\ sbpBus.shutdown
      BY <1>2, <2>1 DEF sbp2_send_management_orb
  <2>2. CASE ~(run[l].fn = "logout" /\ sbpBus.shutdown) /\ FreeOrbs = {}
      BY <1>2, <2>2 DEF sbp2_send_management_orb
  <2>3. CASE ~(run[l].fn = "logout" /\ sbpBus.shutdown) /\ FreeOrbs # {}
      BY <1>3, <2>3, Zenon DEF sbp2_send_management_orb
  <2>4. QED
      BY <2>1, <2>2, <2>3


\* sbp2_scsi_queuecommand()
LEMMA QueueKeeps ==
    ASSUME OrbInv, NEW l \in LU, sbp2_scsi_queuecommand(l)
    PROVE  OrbInv'
<1>1. /\ command = 0 /\ lus[l].alive /\ (lus[l].sdev \/ run[l].pc = "adding")
      /\ FreeOrbs # {} /\ run["eh"].pc = "idle" /\ command' = AnOrb
      /\ UNCHANGED <<sbpBus, tgt, lus, run>>
    BY DEF sbp2_scsi_queuecommand
<1>2. PICK a \in Orb :
          /\ a = AnOrb /\ a \in Nat /\ a # 0
          /\ orbs[a] = NoOrb /\ orbs[a].kind = "free" /\ ~Sent(a)
          /\ orbs' \in [Orb -> OrbType] /\ \A o \in Orb \ {a} : orbs'[o] = orbs[o]
          /\ orbs'[a].kind = "cmd" /\ orbs'[a].lu = l /\ orbs'[a].list = "lu"
          /\ orbs'[a].t = "flight" /\ OrbSound(orbs'[a], FALSE)
  <2>1. sbp2_send_orb(AnOrb, "cmd", l, "unset", Count(FALSE))
    <3>1. Count(FALSE) = 0
        BY DEF Count
    <3>2. QED
        BY <3>1, Zenon DEF sbp2_scsi_queuecommand
  <2>2. /\ AnOrb \in Orb /\ AnOrb \in Nat /\ AnOrb # 0
        /\ orbs[AnOrb] = NoOrb /\ orbs[AnOrb].kind = "free" /\ ~Sent(AnOrb)
        /\ orbs' \in [Orb -> OrbType] /\ \A o \in Orb \ {AnOrb} : orbs'[o] = orbs[o]
        /\ orbs'[AnOrb].kind = "cmd" /\ orbs'[AnOrb].lu = l /\ orbs'[AnOrb].list = "lu"
        /\ orbs'[AnOrb].t = "flight" /\ OrbSound(orbs'[AnOrb], FALSE)
      BY <1>1, <2>1, NewOrb
  <2>3. QED
      BY <2>2, Zenon
<1>3. command' = a /\ a \in 0 .. NOrb
    BY <1>1, <1>2, SbpAssumption DEF Orb
<1>4. SbpTypes'
    BY <1>1, <1>2, <1>3 DEF OrbInv, SbpTypes
<1>5. OrbsSound'
  <2>1. \A o \in Orb : Sent(o)' = Sent(o)
      BY <1>1, Zenon DEF Sent
  <2>2. Sent(a) = FALSE
      BY <1>2, Zenon DEF Sent
  <2>3. \A o \in Orb : OrbSound(orbs'[o], Sent(o)')
      BY <1>2, <2>1, <2>2, Zenon DEF OrbInv, OrbsSound
  <2>4. QED
      BY <2>3, Zenon DEF OrbsSound
<1>6. ListsSound'
  <2>1. "lu" \notin LU
      BY SbpAssumption
  <2>2. QED
      BY <1>1, <1>2, <2>1 DEF OrbInv, ListsSound
<1>7. ThreadsSound'
  <2>1. ASSUME NEW k \in LU, run[k].orb # 0 PROVE orbs'[run[k].orb] = orbs[run[k].orb]
    <3>1. run[k].orb \in Orb
        BY <2>1, OneOwner
    <3>2. run[k].orb # a
        BY <1>2, Zenon DEF Sent
    <3>3. QED
        BY <1>2, <3>1, <3>2
  <2>2. QED
      BY <1>1, <2>1 DEF OrbInv, ThreadsSound
<1>8. RemovalSound'
  <2>1. run[l].after # "remove"
      BY <1>1, Zenon DEF OrbInv, ThreadsSound, RemovalSound
  <2> SUFFICES ASSUME NEW k \in LU, run'[k].after = "remove"
               PROVE  /\ run'[k].fn = "logout" /\ run'[k].pc \in {"send", "wait", "cancel", "result"}
                      /\ run'[k].pc \in {"wait", "cancel"} => run'[k].orb # 0
                      /\ ~lus'[k].sdev
                      /\ \A p \in Orb : orbs'[p].lu = k => orbs'[p].list # "eh"
                            /\ (orbs'[p].kind = "cmd" => orbs'[p].list = "none")
      BY Zenon DEF RemovalSound
  <2>2. /\ run[k].fn = "logout" /\ run[k].pc \in {"send", "wait", "cancel", "result"}
        /\ run[k].pc \in {"wait", "cancel"} => run[k].orb # 0
        /\ ~lus[k].sdev
        /\ \A p \in Orb : orbs[p].lu = k => orbs[p].list # "eh"
                            /\ (orbs[p].kind = "cmd" => orbs[p].list = "none")
      BY <1>1, Zenon DEF OrbInv, RemovalSound
  <2>3. k # l
      BY <1>1, <2>1
  <2>4. QED
      BY <1>1, <1>2, <2>2, <2>3
<1>9. CommandSound'
  <2>1. \A o \in Orb : orbs[o].kind = "cmd" /\ orbs[o].list # "none" => orbs[o].list \in LU
    <3>1. \A o \in Orb : o # 0
        BY SbpAssumption DEF Orb
    <3>2. QED
        BY <1>1, <3>1 DEF OrbInv, CommandSound
  <2>2. \A o \in Orb : orbs'[o].kind = "cmd" /\ orbs'[o].list # "none"
                         => command' = o \/ orbs'[o].list \in LU
      BY <1>2, <1>3, <2>1
  <2>3. QED
      BY <1>1, <1>2, <1>3, <2>2 DEF CommandSound
<1>10. CountersSound'
  <2>1. \A k \in LU : run'[k].after = run[k].after
      BY <1>1
  <2>2. QED
      BY <1>1, <2>1, HostUntouched DEF OrbInv
<1>11. LogicalUnitOutlivesOrbs'
  <2> SUFFICES ASSUME NEW p \in Orb, orbs'[p].t \in {"flight", "closing"}
               PROVE  lus'[orbs'[p].lu].alive \/ orbs'[p].overtaken \/ orbs'[p].raced
      BY DEF LogicalUnitOutlivesOrbs
  <2>1. CASE p = a
      BY <1>1, <1>2, <2>1
  <2>2. CASE p # a
      BY <1>1, <1>2, <2>2 DEF OrbInv, LogicalUnitOutlivesOrbs
  <2>3. QED
      BY <2>1, <2>2
<1>12. QED
    BY <1>4, <1>5, <1>6, <1>7, <1>8, <1>9, <1>10, <1>11 DEF OrbInv

\* sbp2_remove() takes a logical unit: no command of it is left on any list.
LEMMA RemoveLuKeeps ==
    ASSUME OrbInv, NEW l \in LU, RemoveLogicalUnit(l)
    PROVE  OrbInv'
<1> DEFINE pc == IF lus[l].login THEN "send" ELSE "result"
           r == [NoThread EXCEPT !.pc = pc, !.fn = "logout", !.after = "remove",
                                 !.gen = sbpBus.device]
           u == [lus[l] EXCEPT !.queued = FALSE, !.sdev = FALSE]
<1>1. /\ lus[l].alive /\ run[l].pc = "idle" /\ command = 0
      /\ \A k \in LU : run[k].after # "remove"
      /\ lus' = [lus EXCEPT ![l] = u] /\ run' = [run EXCEPT ![l] = r]
      /\ UNCHANGED <<sbpBus, tgt, orbs, command>>
    BY DEF RemoveLogicalUnit
<1>2. u \in LuType /\ u.sdev = FALSE /\ u.alive = lus[l].alive /\ u.blocked = lus[l].blocked
    BY LuFields DEF LuType
<1>3. pc \in {"send", "result"} /\ sbpBus.device \in 0 .. SbpMaxGen
    BY DEF OrbInv, SbpTypes, BusType
<1> HIDE DEF u, pc
<1>4. r \in ThreadType /\ r.pc = pc /\ r.fn = "logout" /\ r.after = "remove" /\ r.orb = 0
    BY <1>3, NoThreadTyped DEF ThreadType
<1> HIDE DEF r
<1>5. /\ lus' \in [LU -> LuType] /\ lus'[l] = u /\ \A k \in LU \ {l} : lus'[k] = lus[k]
      /\ run' \in [SbpThread -> ThreadType] /\ run'[l] = r
      /\ \A h \in SbpThread \ {l} : run'[h] = run[h]
      /\ LU \subseteq SbpThread /\ "eh" \in SbpThread /\ l # "eh" /\ run'["eh"] = run["eh"]
    BY <1>1, <1>2, <1>4, LuFields, SbpAssumption DEF SbpThread
<1>6. SbpTypes'
    BY <1>1, <1>5 DEF OrbInv, SbpTypes
<1>7. run[l].orb = 0
    BY <1>1, NoOrbHeld
<1>8. OrbsSound'
  <2>1. \A k \in LU : run'[k].orb = run[k].orb
      BY <1>4, <1>5, <1>7
  <2>2. QED
      BY <1>1, <2>1, OrbsUnchanged
<1>9. ListsSound'
  <2> SUFFICES ASSUME NEW p \in Orb
               PROVE  LET b == orbs[p] IN
                      /\ b.list = "lu" /\ b.kind = "mgmt" => run'[b.lu].pc = "wait"
                      /\ b.list \in LU => run'[b.list].pc = "cancel" /\ b.lu = b.list
                      /\ b.list = "eh" => run'["eh"].pc = "cancel"
      BY <1>1 DEF ListsSound
  <2>1. /\ orbs[p].list = "lu" /\ orbs[p].kind = "mgmt" => run[orbs[p].lu].pc = "wait"
        /\ orbs[p].list \in LU => run[orbs[p].list].pc = "cancel" /\ orbs[p].lu = orbs[p].list
        /\ orbs[p].list = "eh" => run["eh"].pc = "cancel"
      BY Zenon DEF OrbInv, ListsSound
  <2>2. orbs[p].list # "none" => orbs[p].lu \in LU
      BY InUse
  <2>3. QED
      BY <1>1, <1>5, <2>1, <2>2
<1>10. ThreadsSound'
    BY <1>1, <1>2, <1>3, <1>4, <1>5 DEF OrbInv, ThreadsSound
<1>11. RemovalSound'
  <2>1. ASSUME NEW p \in Orb, orbs[p].lu = l
        PROVE  orbs[p].list # "eh" /\ (orbs[p].kind = "cmd" => orbs[p].list = "none")
    <3>1. orbs[p].list \in LU => run[orbs[p].list].pc = "cancel" /\ orbs[p].lu = orbs[p].list
        BY Zenon DEF OrbInv, ListsSound
    <3>2. orbs[p].list \notin LU
        BY <1>1, <2>1, <3>1
    <3>3. run["eh"].pc # "cancel"
        BY <1>1 DEF OrbInv, CommandSound
    <3>4. orbs[p].list # "eh"
        BY <3>3 DEF OrbInv, ListsSound
    <3>5. p # 0
        BY SbpAssumption DEF Orb
    <3>6. orbs[p].kind = "cmd" => orbs[p].list = "none"
        BY <1>1, <3>2, <3>5 DEF OrbInv, CommandSound
    <3>7. QED
        BY <3>4, <3>6
  <2>2. ASSUME NEW k \in LU, run'[k].after = "remove" PROVE k = l
      BY <1>1, <1>5, <2>2
  <2>3. QED
      BY <1>1, <1>2, <1>3, <1>4, <1>5, <2>1, <2>2 DEF RemovalSound
<1>12. CommandSound'
    BY <1>1, <1>5 DEF OrbInv, CommandSound
<1>13. CountersSound'
  <2>1. \A k \in LU : k \in Unsettled' => k \in Unsettled
      BY <1>4, <1>5 DEF Unsettled
  <2>2. tgt.state # "absent"
      BY <1>1 DEF OrbInv, CountersSound, NoLu
  <2>3. tgt \in TgtType /\ tgt.dont_block \in Nat
      BY LuFields
  <2>4. \A k \in LU : lus'[k].alive = lus[k].alive /\ lus'[k].blocked = lus[k].blocked
      BY <1>2, <1>5
  <2>5. QED
      BY <1>1, <2>1, <2>2, <2>3, <2>4, CountersKept DEF OrbInv
<1>14. LogicalUnitOutlivesOrbs'
  <2> SUFFICES ASSUME NEW p \in Orb, orbs[p].t \in {"flight", "closing"}
               PROVE  lus'[orbs[p].lu].alive \/ orbs[p].overtaken \/ orbs[p].raced
      BY <1>1 DEF LogicalUnitOutlivesOrbs
  <2>1. lus[orbs[p].lu].alive \/ orbs[p].overtaken \/ orbs[p].raced
      BY DEF OrbInv, LogicalUnitOutlivesOrbs
  <2>2. orbs[p].lu \in LU
      BY InUse
  <2>3. QED
      BY <1>2, <1>5, <2>1, <2>2
<1>15. QED
    BY <1>6, <1>8, <1>9, <1>10, <1>11, <1>12, <1>13, <1>14 DEF OrbInv


\* The command that the midlayer has outstanding, as sbp2_scsi_abort() finds it.
LEMMA AbortKeeps ==
    ASSUME OrbInv, sbp2_scsi_abort
    PROVE  OrbInv'
<1> DEFINE l == orbs[command].lu
           r == [NoThread EXCEPT !.pc = "cancel", !.lu = l]
<1>1. /\ run["eh"].pc = "idle" /\ command # 0 /\ orbs' = Splice(orbs, "eh", l)
      /\ run' = [run EXCEPT !["eh"] = r] /\ UNCHANGED <<sbpBus, tgt, lus, command>>
    BY DEF sbp2_scsi_abort
<1>2. orbs[command].kind = "cmd" /\ orbs[command].list # "none" /\ command \in Orb
    BY <1>1, SbpAssumption DEF OrbInv, CommandSound, SbpTypes, Orb
<1>3. l \in LU
    BY <1>2, InUse
<1>4. PICK m \in LU : m = l
    BY <1>3
<1> HIDE DEF l
<1>5. r \in ThreadType /\ r.pc = "cancel"
    BY <1>3, NoThreadTyped DEF ThreadType
<1> HIDE DEF r
<1>6. /\ run' \in [SbpThread -> ThreadType] /\ run'["eh"] = r
      /\ \A k \in LU : run'[k] = run[k] /\ k # "eh"
      /\ LU \subseteq SbpThread /\ "eh" \in SbpThread /\ "eh" # "lu" /\ "lu" \notin LU
    BY <1>1, <1>5, SbpAssumption DEF OrbInv, SbpTypes, SbpThread
<1>7. orbs \in [Orb -> OrbType]
    BY DEF OrbInv, SbpTypes
<1>8. /\ orbs' \in [Orb -> OrbType]
      /\ \A o \in Orb :
            /\ IF orbs[o].list = "lu" /\ orbs[o].lu = m THEN orbs'[o].list = "eh"
               ELSE orbs'[o] = orbs[o]
            /\ orbs'[o].kind = orbs[o].kind /\ orbs'[o].lu = orbs[o].lu /\ orbs'[o].t = orbs[o].t
            /\ orbs'[o].raced = orbs[o].raced /\ orbs'[o].overtaken = orbs[o].overtaken
            /\ \A x \in BOOLEAN : OrbSound(orbs[o], x) => OrbSound(orbs'[o], x)
  <2>1. /\ Splice(orbs, "eh", m) \in [Orb -> OrbType]
        /\ \A o \in Orb : LET b == orbs[o]
                              c == Splice(orbs, "eh", m)[o]
             IN /\ IF b.list = "lu" /\ b.lu = m THEN c.list = "eh" ELSE c = b
                /\ c.kind = b.kind /\ c.lu = b.lu /\ c.t = b.t /\ c.raced = b.raced
                /\ c.overtaken = b.overtaken
                /\ \A x \in BOOLEAN : OrbSound(b, x) => OrbSound(c, x)
      BY <1>6, <1>7, SplicedSound
  <2>2. orbs' = Splice(orbs, "eh", m)
      BY <1>1, <1>4
  <2>3. QED
      BY <2>1, <2>2, Zenon
<1>9. SbpTypes'
    BY <1>1, <1>6, <1>8 DEF OrbInv, SbpTypes
<1>10. OrbsSound'
  <2>1. \A k \in LU : run'[k].orb = run[k].orb
      BY <1>6
  <2>2. \A o \in Orb : Sent(o)' = Sent(o) /\ Sent(o) \in BOOLEAN
      BY <2>1, Zenon DEF Sent
  <2>3. \A o \in Orb : OrbSound(orbs'[o], Sent(o)')
      BY <1>8, <2>2, Zenon DEF OrbInv, OrbsSound
  <2>4. QED
      BY <2>3, Zenon DEF OrbsSound
<1>11. ListsSound'
  <2> SUFFICES ASSUME NEW p \in Orb
               PROVE  LET b == orbs'[p] IN
                      /\ b.list = "lu" /\ b.kind = "mgmt" => run'[b.lu].pc = "wait"
                      /\ b.list \in LU => run'[b.list].pc = "cancel" /\ b.lu = b.list
                      /\ b.list = "eh" => run'["eh"].pc = "cancel"
      BY DEF ListsSound
  <2>1. /\ orbs[p].list = "lu" /\ orbs[p].kind = "mgmt" => run[orbs[p].lu].pc = "wait"
        /\ orbs[p].list \in LU => run[orbs[p].list].pc = "cancel" /\ orbs[p].lu = orbs[p].list
      BY Zenon DEF OrbInv, ListsSound
  <2>2. orbs[p].list # "none" => orbs[p].lu \in LU
      BY InUse
  <2>3. CASE orbs[p].list = "lu" /\ orbs[p].lu = m
      BY <1>5, <1>6, <1>8, <2>3
  <2>4. CASE ~(orbs[p].list = "lu" /\ orbs[p].lu = m)
      BY <1>5, <1>6, <1>8, <2>1, <2>2, <2>4
  <2>5. QED
      BY <2>3, <2>4
<1>12. ThreadsSound'
  <2>1. \A k \in LU : run[k].orb # 0 => run[k].orb \in Orb
      BY OneOwner
  <2>2. QED
      BY <1>1, <1>5, <1>6, <1>8, <2>1 DEF OrbInv, ThreadsSound
<1>13. RemovalSound'
  <2> SUFFICES ASSUME NEW k \in LU, run'[k].after = "remove"
               PROVE  /\ run'[k].fn = "logout" /\ run'[k].pc \in {"send", "wait", "cancel", "result"}
                      /\ run'[k].pc \in {"wait", "cancel"} => run'[k].orb # 0
                      /\ ~lus'[k].sdev
                      /\ \A p \in Orb : orbs'[p].lu = k => orbs'[p].list # "eh"
                            /\ (orbs'[p].kind = "cmd" => orbs'[p].list = "none")
      BY Zenon DEF RemovalSound
  <2>0. run'[k] = run[k]
      BY <1>6
  <2>1. /\ run[k].fn = "logout" /\ run[k].pc \in {"send", "wait", "cancel", "result"}
        /\ run[k].pc \in {"wait", "cancel"} => run[k].orb # 0
        /\ ~lus[k].sdev
        /\ \A p \in Orb : orbs[p].lu = k => orbs[p].list # "eh"
                            /\ (orbs[p].kind = "cmd" => orbs[p].list = "none")
      BY <2>0, Zenon DEF OrbInv, RemovalSound
  <2>2. k # m
      BY <1>2, <1>4, <2>1 DEF l
  <2>3. \A p \in Orb : orbs'[p].lu = k => orbs'[p] = orbs[p]
      BY <1>8, <2>2
  <2>4. QED
      BY <1>1, <2>0, <2>1, <2>3
<1>14. CommandSound'
  <2>1. \A o \in Orb : orbs[o].kind = "cmd" /\ orbs[o].list # "none"
                         => command = o \/ orbs[o].list \in LU
      BY Zenon DEF OrbInv, CommandSound
  <2>2. ASSUME NEW o \in Orb, orbs'[o].kind = "cmd", orbs'[o].list # "none"
        PROVE  command' = o \/ orbs'[o].list \in LU
    <3>1. CASE orbs[o].list = "lu"
        BY <1>1, <1>6, <1>8, <2>1, <2>2, <3>1
    <3>2. CASE orbs[o].list # "lu"
        BY <1>1, <1>8, <2>1, <2>2, <3>2
    <3>3. QED
        BY <3>1, <3>2
  <2>3. ASSUME NEW o \in Orb, orbs'[o].kind = "cmd" PROVE orbs'[o].list # "lu"
    <3>1. SUFFICES ASSUME orbs'[o].list = "lu" PROVE FALSE
        OBVIOUS
    <3>2. orbs'[o] = orbs[o] /\ ~(orbs[o].list = "lu" /\ orbs[o].lu = m)
        BY <1>6, <1>8, <3>1
    <3>3. command = o
        BY <1>6, <2>1, <2>3, <3>1, <3>2
    <3>4. QED
        BY <1>4, <3>1, <3>2, <3>3 DEF l
  <2>4. QED
      BY <1>1, <1>5, <1>6, <2>2, <2>3 DEF CommandSound
<1>15. CountersSound'
  <2>1. \A k \in LU : run'[k].after = run[k].after
      BY <1>6
  <2>2. QED
      BY <1>1, <2>1, HostUntouched DEF OrbInv
<1>16. LogicalUnitOutlivesOrbs'
    BY <1>1, <1>8 DEF OrbInv, LogicalUnitOutlivesOrbs
<1>17. QED
    BY <1>9, <1>10, <1>11, <1>12, <1>13, <1>14, <1>15, <1>16 DEF OrbInv

\* The error handler has cancelled the ORBs: the midlayer takes the command back.
LEMMA AbortEndsKeeps ==
    ASSUME OrbInv, CancelEnds("eh")
    PROVE  OrbInv'
<1>1. /\ run["eh"].pc = "cancel" /\ \A o \in Orb : orbs[o].list # "eh"
      /\ run' = [run EXCEPT !["eh"] = NoThread] /\ command' = 0
      /\ UNCHANGED <<sbpBus, tgt, lus, orbs>>
    BY DEF CancelEnds, Spliced
<1>2. /\ run' \in [SbpThread -> ThreadType] /\ run'["eh"] = NoThread
      /\ \A k \in LU : run'[k] = run[k] /\ k # "eh"
    BY <1>1, NoThreadTyped, SbpAssumption DEF OrbInv, SbpTypes, SbpThread
<1>3. SbpTypes'
    BY <1>1, <1>2, SbpAssumption DEF OrbInv, SbpTypes
<1>4. OrbsSound'
  <2>1. \A k \in LU : run'[k].orb = run[k].orb
      BY <1>2
  <2>2. QED
      BY <1>1, <2>1, OrbsUnchanged
<1>5. ListsSound'
  <2>1. \A o \in Orb : orbs[o].list # "none" => orbs[o].lu \in LU
      BY InUse
  <2>2. "lu" # "none"
      OBVIOUS
  <2>3. QED
      BY <1>1, <1>2, <2>1, <2>2 DEF OrbInv, ListsSound
<1>6. ThreadsSound'
    BY <1>1, <1>2, NoThreadTyped DEF OrbInv, ThreadsSound
<1>7. RemovalSound'
    BY <1>1, <1>2 DEF OrbInv, RemovalSound
<1>8. CommandSound'
  <2>1. ASSUME NEW o \in Orb, orbs[o].kind = "cmd", orbs[o].list # "none"
        PROVE  orbs[o].list \in LU
    <3>1. orbs[o].list # "lu"
        BY <1>1, <2>1 DEF OrbInv, CommandSound
    <3>2. orbs[o].list # "stack"
        BY <2>1 DEF OrbInv, OrbsSound, OrbSound
    <3>3. orbs[o].list \in LU \cup {"eh", "none", "lu", "stack"}
        BY DEF OrbInv, SbpTypes, OrbType, SbpThread
    <3>4. QED
        BY <1>1, <2>1, <3>1, <3>2, <3>3
  <2>2. QED
      BY <1>1, <1>2, <2>1, NoThreadTyped DEF CommandSound
<1>9. CountersSound'
  <2>1. \A k \in LU : run'[k].after = run[k].after
      BY <1>2
  <2>2. QED
      BY <1>1, <2>1, HostUntouched DEF OrbInv
<1>10. LogicalUnitOutlivesOrbs'
    BY <1>1 DEF OrbInv, LogicalUnitOutlivesOrbs
<1>11. QED
    BY <1>3, <1>4, <1>5, <1>6, <1>7, <1>8, <1>9, <1>10 DEF OrbInv


-----------------------------------------------------------------------------
(* The theorem.                                                             *)

\* The initial state satisfies the invariant.
LEMMA InitEstablishes ==
    ASSUME Sbp2Init
    PROVE  OrbInv
<1>1. SbpTypes
  <2>1. SbpMaxGen \in Nat /\ SbpRetryLimit \in Nat /\ NOrb \in Nat /\ Cardinality(LU) \in Nat
      BY SbpAssumption, LuSets
  <2>2. sbpBus \in BusType /\ tgt \in TgtType /\ command \in 0 .. NOrb
      BY <2>1 DEF Sbp2Init, BusType, TgtType
  <2>3. NoLu \in LuType
      BY <2>1 DEF NoLu, LuType
  <2>4. lus \in [LU -> LuType]
      BY <2>3 DEF Sbp2Init
  <2>5. orbs \in [Orb -> OrbType]
      BY NoOrbSound DEF Sbp2Init
  <2>6. run \in [SbpThread -> ThreadType]
      BY NoThreadTyped DEF Sbp2Init
  <2>7. QED
      BY <2>2, <2>4, <2>5, <2>6 DEF SbpTypes
<1>2. /\ \A l \in LU : run[l] = NoThread /\ lus[l] = NoLu
      /\ run["eh"] = NoThread /\ \A o \in Orb : orbs[o] = NoOrb
      /\ NoOrb.list = "none" /\ NoOrb.kind = "free" /\ NoOrb.t = "idle"
      /\ ~NoLu.alive /\ ~NoLu.blocked /\ "none" \notin LU
    BY SbpAssumption DEF Sbp2Init, SbpThread, NoOrb, NoLu
<1>3. OrbsSound
  <2>1. ASSUME NEW o \in Orb PROVE Sent(o) = FALSE
    <3>1. o # 0
        BY SbpAssumption DEF Orb
    <3>2. ~Sent(o)
        BY <1>2, <3>1, NoThreadTyped DEF Sent
    <3>3. QED
        BY <3>2, Zenon DEF Sent
  <2>2. QED
      BY <1>2, <2>1, NoOrbSound, Zenon DEF OrbsSound
<1>4. ListsSound /\ RemovalSound /\ LogicalUnitOutlivesOrbs
    BY <1>2, NoThreadTyped DEF ListsSound, RemovalSound, LogicalUnitOutlivesOrbs
<1>5. ThreadsSound
    BY <1>2, NoThreadTyped DEF ThreadsSound
<1>6. CommandSound
  <2>1. command = 0 /\ NoThread.pc = "idle"
      BY NoThreadTyped DEF Sbp2Init
  <2>2. QED
      BY <1>2, <2>1 DEF CommandSound
<1>7. CountersSound
  <2>1. Blocked = {} /\ Unsettled = {} /\ Blocked \cup Dead \in SUBSET LU
      BY <1>2 DEF Blocked, Unsettled, Dead
  <2>2. Cardinality(Blocked) = 0 /\ Cardinality(Unsettled) = 0
        /\ Cardinality(Blocked \cup Dead) \in Nat
      BY <2>1, LuSets, FS_EmptySet
  <2>3. tgt.blocked = 0 /\ tgt.dont_block = 0
      BY DEF Sbp2Init
  <2>4. QED
      BY <1>2, <2>2, <2>3 DEF CountersSound
<1>8. QED
    BY <1>1, <1>3, <1>4, <1>5, <1>6, <1>7 DEF OrbInv

\* Every step keeps the invariant.
LEMMA StepKeeps ==
    ASSUME OrbInv, [Sbp2Next]_sbpvars
    PROVE  OrbInv'
<1>1. ASSUME NEW l \in LU, ThreadStep(l) PROVE OrbInv'
    BY <1>1, SendKeeps, WaitEndsKeeps, AfterLogoutKeeps, LoginFailsKeeps, LoginSucceedsKeeps,
       ResetToLoginKeeps, DeviceAddedKeeps, DeviceNotAddedKeeps, ReconnectFailsKeeps,
       ReconnectSucceedsKeeps, UnblockKeeps, UnblockRequestsKeeps, FreeKeeps, Zenon
       DEF ThreadStep
<1>2. ASSUME NEW l \in LU,
             sbp2_lu_workfn(l) \/ RemoveLogicalUnit(l) \/ sbp2_scsi_queuecommand(l)
      PROVE  OrbInv'
    BY <1>2, WorkStartsKeeps, RemoveLuKeeps, QueueKeeps, Zenon
<1>3. ASSUME NEW h \in SbpThread, CancelStep(h) PROVE OrbInv'
  <2>1. CASE sbp2_cancel_orbs(h)
      BY <2>1, CancelKeeps
  <2>2. CASE CancelEnds(h) /\ h \in LU
      BY <2>2, CancelEndsKeeps
  <2>3. CASE CancelEnds(h) /\ h = "eh"
      BY <2>3, AbortEndsKeeps
  <2>4. QED
      BY <1>3, <2>1, <2>2, <2>3 DEF CancelStep, SbpThread
<1>4. ASSUME NEW o \in Orb, CallbackStep(o) PROVE OrbInv'
    BY <1>4, TransactionEndsKeeps, CompleteTransactionKeeps, Zenon DEF CallbackStep
<1>5. ASSUME NEW o \in Orb, NEW s \in {"ok", "error"}, sbp2_status_write(o, s) PROVE OrbInv'
    BY <1>5, StatusWriteKeeps
<1>6. CASE SbpBusReset \/ SbpNodeEvent
    BY <1>6, BusKeeps
<1>7. CASE sbp2_scsi_abort \/ sbp2_probe \/ sbp2_update \/ sbp2_remove \/ TargetReleased
    BY <1>7, AbortKeeps, ProbeKeeps, UpdateKeeps, RemoveKeeps, ReleaseKeeps, Zenon
<1>8. CASE UNCHANGED sbpvars
  <2>1. UNCHANGED <<sbpBus, tgt, lus, orbs, run, command>>
      BY <1>8 DEF sbpvars
  <2>2. Sent(0)' = Sent(0) /\ \A o \in Orb : Sent(o)' = Sent(o)
      BY <2>1, Zenon DEF Sent
  <2>3. Blocked' = Blocked /\ Dead' = Dead /\ Unsettled' = Unsettled
      BY <2>1, Zenon DEF Blocked, Dead, Unsettled
  <2>4. SbpTypes' /\ CountersSound'
      BY <2>1, <2>3 DEF OrbInv, SbpTypes, CountersSound
  <2>5. OrbsSound'
      BY <2>1, <2>2, Zenon DEF OrbInv, OrbsSound
  <2>6. ListsSound' /\ ThreadsSound'
      BY <2>1, Zenon DEF OrbInv, ListsSound, ThreadsSound
  <2>7. RemovalSound' /\ CommandSound' /\ LogicalUnitOutlivesOrbs'
      BY <2>1, Zenon DEF OrbInv, RemovalSound, CommandSound, LogicalUnitOutlivesOrbs
  <2>8. QED
      BY <2>4, <2>5, <2>6, <2>7 DEF OrbInv
<1>9. QED
    BY <1>1, <1>2, <1>3, <1>4, <1>5, <1>6, <1>7, <1>8, Zenon DEF Sbp2Next

\* What the invariant says of the references that a run counts.
LEMMA InvExact ==
    ASSUME OrbInv
    PROVE  OrbReferencesExact
<1>1. Sbp2TypeOK
    BY DEF OrbInv, SbpTypes, Sbp2TypeOK, BusType, TgtType, LuType, ThreadType, OrbType
<1>2. ASSUME NEW o \in Orb, ~orbs[o].raced
      PROVE  LET b == orbs[o] IN
             /\ b.calls <= 1
             /\ b.ref = Cardinality({l \in LU : run[l].orb = o})
                        + (IF b.t \in {"flight", "closing"} THEN 1 ELSE 0)
                        + (IF b.kind # "free" /\ b.calls = 0 THEN 1 ELSE 0)
             /\ b.kind = "cmd" /\ b.calls = 0 => command = o \/ b.list \in LU
  <2> DEFINE b == orbs[o]
             H == {l \in LU : run[l].orb = o}
  <2>1. b \in OrbType /\ OrbSound(b, Sent(o))
      BY DEF OrbInv, SbpTypes, OrbsSound
  <2>2. Cardinality(H) = Count(Sent(o))
    <3>1. CASE Sent(o)
      <4>1. PICK l \in LU : run[l].orb = o
          BY <3>1 DEF Sent
      <4>2. o # 0
          BY SbpAssumption DEF Orb
      <4>3. ~OwnedByOther(o, l)
          BY <4>1, <4>2, OneOwner
      <4>4. H = {l}
          BY <4>1, <4>3 DEF OwnedByOther
      <4>5. Cardinality(H) = 1
          BY <4>4, FS_Singleton
      <4>6. Count(Sent(o)) = 1
          BY <3>1 DEF Count
      <4>7. QED
          BY <4>5, <4>6
    <3>2. CASE ~Sent(o)
      <4>1. H = {}
          BY <3>2 DEF Sent
      <4>2. Cardinality(H) = 0
          BY <4>1, FS_EmptySet
      <4>3. Count(Sent(o)) = 0
          BY <3>2 DEF Count
      <4>4. QED
          BY <4>2, <4>3
    <3>3. QED
        BY <3>1, <3>2
  <2> HIDE DEF H
  <2>3. CASE b.kind = "free"
    <3>1. b = NoOrb /\ ~Sent(o)
        BY <2>1, <2>3, Zenon DEF OrbSound
    <3>2. Cardinality(H) = 0
        BY <2>2, <3>1 DEF Count
    <3>3. QED
        BY <3>1, <3>2 DEF NoOrb, H
  <2>4. CASE b.kind # "free"
    <3>1. /\ b.t # "idle" /\ b.calls <= 1 /\ (b.calls = 0 <=> b.list # "none")
          /\ b.ref = Count(Sent(o)) + Count(b.t # "done") + Count(b.calls = 0)
        BY <1>2, <2>1, <2>4, Zenon DEF OrbSound
    <3>2. Count(b.t # "done") = IF b.t \in {"flight", "closing"} THEN 1 ELSE 0
        BY <2>1, <3>1 DEF Count, OrbType
    <3>3. Count(b.calls = 0) = IF b.kind # "free" /\ b.calls = 0 THEN 1 ELSE 0
        BY <2>4 DEF Count
    <3>4. b.kind = "cmd" /\ b.calls = 0 => command = o \/ b.list \in LU
        BY <3>1, Zenon DEF OrbInv, CommandSound
    <3>5. QED
        BY <2>2, <3>1, <3>2, <3>3, <3>4 DEF H
  <2>5. QED
      BY <2>3, <2>4
<1>3. LogicalUnitOutlivesOrbs
    BY DEF OrbInv
<1>4. QED
    BY <1>1, <1>2, <1>3, Zenon DEF OrbReferencesExact

(* Every behaviour keeps the inductive invariant of ORBs, threads and       *)
(* counters, whatever the device, the bus and the midlayer do.              *)
THEOREM OrbInvariant == Sbp2Spec => []OrbInv
<1>1. Sbp2Init => OrbInv
    BY InitEstablishes
<1>2. OrbInv /\ [Sbp2Next]_sbpvars => OrbInv'
    BY StepKeeps
<1>3. QED
    BY <1>1, <1>2, PTL DEF Sbp2Spec

(* An ORB is called back at most once and has exactly the references of its *)
(* sender, its transaction and its callback to come; a pending command has  *)
(* an ORB; and a logical unit is freed after the last ORB that uses it, but *)
(* for the two races of sbp2.c.                                             *)
THEOREM OrbReferencesCorrect == Sbp2Spec => []OrbReferencesExact
BY OrbInvariant, InvExact, PTL

-----------------------------------------------------------------------------
(* The SBP-2 target: logins and their sessions.                             *)

MgtType == [state : {"idle", "busy"}, from : Initiator, gen : Nat, excl : BOOLEAN, held : BOOLEAN,
            pc : {"none", "lost", "queued", "fetched", "found", "respond", "release", "status"},
            op : {"none", "login", "reconnect", "logout", "other"},
            status : {"same", "in", "out", "unsure"}]
SessionType == [live : BOOLEAN, gen : Nat, node : -1 .. NInit - 1,
                maint : {"off", "armed", "expired"}]
LoginType == [live : BOOLEAN, sess : BOOLEAN, excl : BOOLEAN, handler : BOOLEAN,
              fetching : BOOLEAN]

TargetTypes ==
    /\ tgtGen \in Nat /\ mgt \in MgtType
    /\ sess \in [Initiator -> SessionType] /\ login \in [Initiator -> LoginType]
    /\ tgtRace \in {"none", "session", "login"}

\* A session and the login of the same initiator come and go together, and the maintenance
\* work of a session is there to end it.
Paired(i) == (login[i].live <=> sess[i].live) /\ (sess[i].live => sess[i].maint # "off")

\* An exclusive login is alone.
ExclusiveAlone == \A i \in Logins : login[i].excl => Logins = {i}

TargetInv == TargetTypes /\ ExclusiveAlone /\ \A i \in Initiator : Paired(i)

PortType == [tpg : BOOLEAN, lun : BOOLEAN, enable : BOOLEAN, dir : BOOLEAN, max_logins : Nat,
             changes : Nat, requests : Nat]
TellTypes == tport \in PortType /\ told \in [Initiator -> {"in", "out", "unsure"}]

\* The session of i knows the node of i, so that it does not expire.
Current(i) == i \in Logins /\ sess[i].gen = tgtGen /\ sess[i].node # -1

\* What the management agent knows, and is about to say, of the login of its request.
MgtOk ==
    /\ mgt.state = "idle" \/ ~tport.tpg => mgt.pc = "none"
    /\ mgt.gen <= tgtGen
    /\ mgt.pc = "found" /\ ~mgt.held => mgt.from \notin Logins
    /\ mgt.pc = "respond" => mgt.held
    /\ mgt.pc = "release" => mgt.status \in {"out", "unsure"}
    /\ mgt.pc = "status" => /\ mgt.status = "in" /\ mgt.gen = tgtGen => Current(mgt.from)
                            /\ mgt.status = "out" => mgt.from \notin Logins

\* What an initiator was told is right, and its session will not expire, unless the answer
\* to its next request is on its way and says something else.
KnowsRightly(i) == (told[i] = "in" => Current(i)) /\ (told[i] = "out" => i \notin Logins)
ToldOk ==
    \A i \in Initiator :
        ~Answering(i) \/ (mgt.pc = "status" /\ mgt.status = "same") => KnowsRightly(i)

TellInv == TellTypes /\ (tgtRace = "none" => MgtOk /\ ToldOk)

-----------------------------------------------------------------------------
(* The command block agent of a login.                                      *)

AgentType == [state : {"reset", "active", "suspended", "dead"}, orb_pointer : 0 .. MaxOrb,
              doorbell : BOOLEAN, work : {"idle", "queued", "fetching", "fetched", "oops"},
              again : BOOLEAN, next : 0 .. MaxOrb, skip : BOOLEAN]
ReqType == [st : {"free", "fetched", "work", "core", "status", "sending", "leaked"},
            orb : Nat, gen : Nat, node : -1 .. 1]

AgTypes ==
    /\ agGen \in Nat
    /\ agSess \in [live : BOOLEAN, gen : Nat, node : -1 .. 1, updating : BOOLEAN]
    /\ agent \in AgentType
    /\ agOrbs \in [made : 0 .. MaxOrb, linked : SUBSET Nat, served : SUBSET Nat,
                   twice : BOOLEAN, foreign : BOOLEAN]
    /\ agReq \in [Tag -> ReqType]
    /\ agRace \in {"none", "login", "torn", "reset"}

\* Outside of a reconnect the node of a session is its owner in the session's generation.
SessionKnows == ~agSess.updating => agSess.node \in {-1, OwnerNode(agSess.gen)}

\* A status block is on its way to the owner in the generation it is sent in.
StatusGoesHome ==
    \A t \in Tag : agReq[t].st = "sending" => agReq[t].node \in {-1, OwnerNode(agReq[t].gen)}

\* Links go from an ORB to a later one, and what was served was made, and served once.
OrbsOk(O) ==
    /\ \A k \in O.linked : 1 <= k /\ k < O.made
    /\ \A k \in O.served : 1 <= k /\ k <= O.made
    /\ ~O.twice

\* An active agent whose ORB was served already was told by the doorbell to skip it, unless
\* its fetch work died.
ActiveOk(A, O) ==
    /\ A.orb_pointer # 0
    /\ \/ A.work = "queued" /\ (A.orb_pointer \in O.served => A.doorbell)
       \/ A.work = "fetching" /\ A.next = 0 /\ A.again /\ A.doorbell
       \/ A.work \in {"fetching", "fetched"} /\ A.next # 0 /\ (A.orb_pointer \in O.served => A.skip)
       \/ A.work = "oops"

\* The pointer is past all ORBs served, and its fetch work is at that ORB; the end of the
\* list suspends the agent, and a doorbell which comes before the work ends makes it run
\* again.
AgentOk(A, O) ==
    /\ A.orb_pointer <= O.made
    /\ A.orb_pointer # 0 => \A k \in O.served : k <= A.orb_pointer
    /\ A.work \in {"fetching", "fetched"} /\ A.next # 0 => A.next = A.orb_pointer
    /\ A.work = "fetched" => A.next # 0
    /\ A.again => A.work = "oops" \/ (A.work = "fetching" /\ A.next = 0)
    /\ A.state = "suspended" => /\ A.orb_pointer # 0 /\ ~A.again
                                /\ A.work = "idle" \/ (A.work = "fetching" /\ A.next = 0)
    /\ A.state = "active" => ActiveOk(A, O)

\* The work has one request in hand, for the ORB it is at.
FetchedOne ==
    /\ \A t \in Tag : agReq[t].st = "fetched" => agent.work = "fetched" /\ agReq[t].orb = agent.next
    /\ agent.work = "fetched" => \E t \in Tag : agReq[t].st = "fetched"
    /\ \A t, u \in Tag : agReq[t].st = "fetched" /\ agReq[u].st = "fetched" => t = u

AgInv ==
    /\ AgTypes /\ SessionKnows /\ StatusGoesHome /\ ~agOrbs.foreign
    /\ ~agSess.live => agent.work = "idle"
    /\ agRace = "none" => OrbsOk(agOrbs) /\ AgentOk(agent, agOrbs) /\ FetchedOne

\* The target starts without logins.
LEMMA TargetInit == SbpTargetInit => TargetInv
<1> SUFFICES ASSUME SbpTargetInit PROVE TargetInv
    OBVIOUS
<1>1. 0 \in Initiator /\ -1 \in -1 .. NInit - 1
    BY TgtAssumption DEF Initiator
<1>2. TargetTypes
    BY <1>1 DEF SbpTargetInit, TargetTypes, MgtType, SessionType, LoginType, NoMgt, NoSession, NoLogin
<1>3. QED
    BY <1>2 DEF TargetInv, SbpTargetInit, ExclusiveAlone, Logins, Paired, NoSession, NoLogin

\* What a target may learn of an initiator's node ID.
LEMMA NodeIds == \A i \in Initiator, g \in Nat : NodeId(i, g) \in -1 .. NInit - 1
<1> SUFFICES ASSUME NEW i \in Initiator, NEW g \in Nat PROVE NodeId(i, g) \in -1 .. NInit - 1
    OBVIOUS
<1>1. i + g \in Nat /\ NInit \in Nat /\ NInit > 0
    BY TgtAssumption DEF Initiator
<1>2. (i + g) % NInit \in 0 .. NInit - 1
    BY <1>1
<1>3. QED
    BY <1>1, <1>2 DEF NodeId

\* Requests that are done with, or on to their status.
LEMMA MgtEnds ==
    ASSUME mgt \in MgtType
    PROVE  /\ NoMgt \in MgtType
           /\ [NoMgt EXCEPT !.state = "busy", !.pc = "lost"] \in MgtType
           /\ \A s \in {"same", "in", "out", "unsure"} : StatusNext(s) => mgt' \in MgtType
           /\ \A s \in {"out", "unsure"} : [mgt EXCEPT !.pc = "release", !.status = s] \in MgtType
           /\ \A pc \in {"respond", "fetched"} : [mgt EXCEPT !.pc = pc] \in MgtType
           /\ \A h \in BOOLEAN : /\ [mgt EXCEPT !.pc = "found", !.held = h] \in MgtType
                                 /\ [mgt EXCEPT !.pc = "respond", !.held = h] \in MgtType
<1>1. 0 \in Initiator
    BY TgtAssumption DEF Initiator
<1>2. ASSUME NEW s \in {"same", "in", "out", "unsure"}, StatusNext(s)
      PROVE  mgt' \in MgtType
    BY <1>1, <1>2 DEF MgtType, NoMgt, StatusNext
<1>3. NoMgt \in MgtType
    BY <1>1 DEF MgtType, NoMgt
<1>4. [NoMgt EXCEPT !.state = "busy", !.pc = "lost"] \in MgtType
    BY <1>3 DEF MgtType
<1>5. \A s \in {"out", "unsure"} : [mgt EXCEPT !.pc = "release", !.status = s] \in MgtType
    BY ZenonT(60) DEF MgtType
<1>6. /\ \A pc \in {"respond", "fetched"} : [mgt EXCEPT !.pc = pc] \in MgtType
      /\ \A h \in BOOLEAN : [mgt EXCEPT !.pc = "found", !.held = h] \in MgtType
    BY ZenonT(60) DEF MgtType
<1>7. \A h \in BOOLEAN : [mgt EXCEPT !.pc = "respond", !.held = h] \in MgtType
    BY ZenonT(60) DEF MgtType
<1>8. QED
    BY <1>2, <1>3, <1>4, <1>5, <1>6, <1>7

\* The session and the login of one initiator change.
LEMMA LoginChanges ==
    ASSUME TargetInv, NEW i \in Initiator, NEW S \in SessionType, NEW L \in LoginType,
           sess' = [sess EXCEPT ![i] = S], login' = [login EXCEPT ![i] = L],
           L.live <=> S.live, S.live => S.maint # "off",
           L.live /\ L.sess => \/ i \in Logins /\ L.excl = login[i].excl
                               \/ /\ \A j \in Logins : ~login[j].excl
                                  /\ L.excl => Logins = {},
           tgtGen' \in Nat, mgt' \in MgtType, tgtRace' \in {"none", "session", "login"}
    PROVE  TargetInv'
<1>1. sess \in [Initiator -> SessionType] /\ login \in [Initiator -> LoginType]
      /\ ExclusiveAlone /\ \A j \in Initiator : Paired(j)
    BY DEF TargetInv, TargetTypes
<1>2. TargetTypes'
    BY <1>1 DEF TargetTypes
<1>3. /\ login'[i] = L /\ sess'[i] = S
      /\ \A j \in Initiator : j # i => login'[j] = login[j] /\ sess'[j] = sess[j]
    BY <1>1
<1>4. \A j \in Initiator : Paired(j)'
    BY <1>1, <1>3 DEF Paired
<1>5. \A j \in Initiator : j # i => (j \in Logins' <=> j \in Logins)
    BY <1>3 DEF Logins
<1>6. i \in Logins' <=> L.live /\ L.sess
    BY <1>3 DEF Logins
<1>7. Logins \subseteq Initiator /\ Logins' \subseteq Initiator
    BY DEF Logins
<1>8. ASSUME NEW j \in Logins', login'[j].excl PROVE Logins' = {j}
  <2>1. CASE j = i /\ i \in Logins /\ L.excl = login[i].excl
    <3>1. Logins = {i}
        BY <1>1, <1>3, <1>8, <2>1 DEF ExclusiveAlone
    <3>2. QED
        BY <1>5, <1>7, <1>8, <2>1, <3>1
  <2>2. CASE j = i /\ L.excl /\ Logins = {}
      BY <1>5, <1>7, <1>8, <2>2
  <2>3. CASE j # i
    <3>1. j \in Logins /\ login[j].excl /\ Logins = {j}
        BY <1>1, <1>3, <1>5, <1>7, <1>8, <2>3 DEF ExclusiveAlone
    <3>2. i \notin Logins'
        BY <1>6, <2>3, <3>1
    <3>3. QED
        BY <1>5, <1>7, <1>8, <3>1, <3>2
  <2>4. QED
      BY <1>3, <1>6, <1>8, <2>1, <2>2, <2>3
<1>9. QED
    BY <1>2, <1>4, <1>8 DEF TargetInv, ExclusiveAlone

\* Logins and sessions stay.
LEMMA LoginsStay ==
    ASSUME TargetInv, UNCHANGED <<sess, login>>, tgtGen' \in Nat, mgt' \in MgtType,
           tgtRace' \in {"none", "session", "login"}
    PROVE  TargetInv'
BY DEF TargetInv, TargetTypes, ExclusiveAlone, Logins, Paired

\* Changes of the configuration.
LEMMA ConfigurationKeeps ==
    ASSUME TargetInv, Configure \/ TgtBusReset \/ MgtRequest
    PROVE  TargetInv'
<1>1. /\ tgtGen \in Nat /\ mgt \in MgtType /\ tgtRace \in {"none", "session", "login"}
      /\ NoMgt \in MgtType
    BY MgtEnds DEF TargetInv, TargetTypes
<1>2. CASE Configure
  <2>1. mgt' \in MgtType
      BY <1>1, <1>2 DEF Configure, sbp_make_tpg, sbp_drop_tpg, sbp_post_link_lun, sbp_pre_unlink_lun,
         sbp_enable_tpg, sbp_tpg_attrib_max_logins_per_lun_store
  <2>2. UNCHANGED <<tgtGen, sess, login, tgtRace>>
      BY <1>2 DEF Configure
  <2>3. QED
      BY <1>1, <2>1, <2>2, LoginsStay
<1>3. CASE TgtBusReset
  <2>1. UNCHANGED <<mgt, sess, login, tgtRace>> /\ tgtGen' \in Nat
      BY <1>1, <1>3 DEF TgtBusReset
  <2>2. QED
      BY <1>1, <2>1, LoginsStay
<1>4. CASE MgtRequest
  <2>1. PICK i \in Initiator, op \in {"login", "reconnect", "logout", "other"}, excl \in BOOLEAN :
          sbp_mgt_agent_rw(i, op, excl)
      BY <1>4 DEF MgtRequest
  <2>2. Owned("queued", i, op, excl) \in MgtType
    <3>1. [NoMgt EXCEPT !.state = "busy", !.pc = "queued", !.from = i, !.gen = tgtGen] \in MgtType
        BY <1>1, ZenonT(60) DEF MgtType
    <3> DEFINE M == [NoMgt EXCEPT !.state = "busy", !.pc = "queued", !.from = i, !.gen = tgtGen]
    <3>2. M \in MgtType => [M EXCEPT !.op = op, !.excl = excl] \in MgtType
        BY ZenonT(60) DEF MgtType
    <3>3. Owned("queued", i, op, excl) = [M EXCEPT !.op = op, !.excl = excl]
        BY DEF Owned
    <3>4. QED
        BY <3>1, <3>2, <3>3
  <2>3. mgt' \in MgtType /\ UNCHANGED <<tgtGen, sess, login, tgtRace>>
      BY <1>1, <1>4, <2>1, <2>2, MgtEnds DEF MgtRequest, sbp_mgt_agent_rw
  <2>4. QED
      BY <1>1, <2>3, LoginsStay
<1>5. QED
    BY <1>2, <1>3, <1>4

\* The maintenance work and the command block agent.
LEMMA MaintenanceKeeps ==
    ASSUME TargetInv, NEW i \in Initiator, session_maintenance_work(i) \/ AgentStep(i)
    PROVE  TargetInv'
<1> DEFINE S == sess[i]
           L == login[i]
<1>1. /\ tgtGen \in Nat /\ mgt \in MgtType /\ tgtRace \in {"none", "session", "login"}
      /\ sess \in [Initiator -> SessionType] /\ login \in [Initiator -> LoginType]
      /\ S \in SessionType /\ L \in LoginType /\ sess = [sess EXCEPT ![i] = S]
      /\ login = [login EXCEPT ![i] = L]
      /\ (L.live <=> S.live) /\ (S.live => S.maint # "off")
      /\ (i \in Logins <=> L.live /\ L.sess)
    BY DEF TargetInv, TargetTypes, Paired, Logins
<1>2. NoSession \in SessionType /\ NoLogin \in LoginType
    BY TgtAssumption DEF NoSession, SessionType, NoLogin, LoginType
<1>3. tgtGen' \in Nat /\ mgt' \in MgtType /\ tgtRace' \in {"none", "session", "login"}
    BY <1>1 DEF session_maintenance_work, session_check_for_reset, ReconnectTimeout, Race,
       session_reconnect_expired, ReleaseExpired, AgentStep, FetchStarts, FetchEnds, AgentWriteOrphan
<1>4. CASE session_check_for_reset(i)
  <2> DEFINE S1 == [S EXCEPT !.node = -1]
  <2>1. S1 \in SessionType /\ S1.live = S.live /\ S1.maint = S.maint
      BY <1>1, TgtAssumption DEF SessionType
  <2>2. sess' = [sess EXCEPT ![i] = S1] /\ login' = [login EXCEPT ![i] = L]
      BY <1>1, <1>4 DEF session_check_for_reset
  <2> HIDE DEF S1, S, L
  <2>3. QED
      BY <1>1, <1>3, <2>1, <2>2, LoginChanges DEF S, L
<1>5. CASE ReconnectTimeout(i)
  <2> DEFINE S1 == [S EXCEPT !.maint = "expired"]
  <2>1. S1 \in SessionType /\ S1.live = S.live /\ S1.maint = "expired"
      BY <1>1 DEF SessionType
  <2>2. sess' = [sess EXCEPT ![i] = S1] /\ login' = [login EXCEPT ![i] = L]
      BY <1>1, <1>5 DEF ReconnectTimeout
  <2> HIDE DEF S1, S, L
  <2>3. QED
      BY <1>1, <1>3, <2>1, <2>2, LoginChanges DEF S, L
<1>6. ASSUME NEW L1 \in LoginType, L1.live = L.live, L1.excl = L.excl, L1.sess => L.sess,
             login' = [login EXCEPT ![i] = L1], sess' = sess
      PROVE  TargetInv'
  <2>1. sess' = [sess EXCEPT ![i] = S]
      BY <1>1, <1>6
  <2> HIDE DEF S, L
  <2>2. L1.live /\ L1.sess => i \in Logins /\ L1.excl = login[i].excl
      BY <1>1, <1>6 DEF L
  <2>3. QED
      BY <1>1, <1>3, <1>6, <2>1, <2>2, LoginChanges
<1>7. CASE session_reconnect_expired(i)
  <2> DEFINE L1 == [L EXCEPT !.sess = FALSE]
  <2>1. L1 \in LoginType /\ L1.live = L.live /\ L1.excl = L.excl /\ (L1.sess => L.sess)
      BY <1>1 DEF LoginType
  <2>2. login' = [login EXCEPT ![i] = L1] /\ sess' = sess
      BY <1>1, <1>7 DEF session_reconnect_expired
  <2> HIDE DEF L1, S, L
  <2>3. QED
      BY <1>6, <2>1, <2>2
<1>8. CASE ReleaseExpired(i)
  <2>1. CASE login' = [login EXCEPT ![i] = NoLogin] /\ sess' = [sess EXCEPT ![i] = NoSession]
    <3>1. ~NoLogin.live /\ ~NoSession.live
        BY DEF NoLogin, NoSession
    <3>2. QED
        BY <1>2, <1>3, <2>1, <3>1, LoginChanges
  <2>2. CASE login' = [login EXCEPT ![i].handler = FALSE] /\ sess' = sess
    <3> DEFINE L1 == [L EXCEPT !.handler = FALSE]
    <3>1. L1 \in LoginType /\ L1.live = L.live /\ L1.excl = L.excl /\ (L1.sess => L.sess)
        BY <1>1 DEF LoginType
    <3>2. login' = [login EXCEPT ![i] = L1]
        BY <1>1, <2>2
    <3> HIDE DEF L1, S, L
    <3>3. QED
        BY <1>6, <2>2, <3>1, <3>2
  <2>3. QED
      BY <1>8, <2>1, <2>2 DEF ReleaseExpired
<1>9. CASE FetchStarts(i) \/ FetchEnds(i)
  <2>1. PICK b \in BOOLEAN : login' = [login EXCEPT ![i].fetching = b] /\ sess' = sess
      BY <1>9 DEF FetchStarts, FetchEnds
  <2> DEFINE L1 == [L EXCEPT !.fetching = b]
  <2>2. L1 \in LoginType /\ L1.live = L.live /\ L1.excl = L.excl /\ (L1.sess => L.sess)
      BY <1>1 DEF LoginType
  <2>3. login' = [login EXCEPT ![i] = L1]
      BY <1>1, <2>1
  <2> HIDE DEF L1, S, L
  <2>4. QED
      BY <1>6, <2>1, <2>2, <2>3
<1>10. CASE AgentWriteOrphan(i)
    BY <1>3, <1>10, LoginsStay DEF AgentWriteOrphan
<1>11. QED
    BY <1>4, <1>5, <1>7, <1>8, <1>9, <1>10 DEF session_maintenance_work, AgentStep

\* The management agent.
LEMMA ManagementKeeps ==
    ASSUME TargetInv, sbp_mgt_agent_process
    PROVE  TargetInv'
<1> DEFINE i == mgt.from
           S == sess[i]
           L == login[i]
<1>1. /\ tgtGen' \in Nat /\ mgt \in MgtType /\ tgtRace \in {"none", "session", "login"}
      /\ i \in Initiator /\ mgt.gen \in Nat /\ mgt.excl \in BOOLEAN
    BY DEF TargetInv, TargetTypes, MgtType, sbp_mgt_agent_process
<1>2. /\ sess \in [Initiator -> SessionType] /\ login \in [Initiator -> LoginType]
      /\ S \in SessionType /\ L \in LoginType /\ sess = [sess EXCEPT ![i] = S]
      /\ login = [login EXCEPT ![i] = L]
      /\ (L.live <=> S.live) /\ (S.live => S.maint # "off")
      /\ (i \in Logins <=> L.live /\ L.sess)
    BY <1>1 DEF TargetInv, TargetTypes, Paired, Logins
<1>3. NoSession \in SessionType /\ NoLogin \in LoginType /\ ~NoSession.live /\ ~NoLogin.live
    BY TgtAssumption DEF NoSession, SessionType, NoLogin, LoginType
<1>4. /\ \A s \in {"same", "in", "out", "unsure"} : StatusNext(s) => mgt' \in MgtType
      /\ MgtDone => mgt' \in MgtType
      /\ mgt.status \in {"same", "in", "out", "unsure"}
  <2>1. mgt.status \in {"same", "in", "out", "unsure"}
      BY <1>1 DEF MgtType
  <2>2. QED
      BY <1>1, <2>1, MgtEnds DEF MgtDone
<1>5. ASSUME NEW s \in {"out", "unsure"}, sbp_target_agent_unregister(i, s), sess' = sess
      PROVE  TargetInv'
  <2> DEFINE L1 == [L EXCEPT !.handler = FALSE]
  <2>1. L1 \in LoginType /\ L1.live = L.live /\ L1.excl = L.excl /\ L1.sess = L.sess
      BY <1>2 DEF LoginType
  <2>2. /\ login' = [login EXCEPT ![i] = L1] /\ sess' = [sess EXCEPT ![i] = S]
        /\ mgt' \in MgtType /\ tgtRace' = tgtRace
      BY <1>1, <1>2, <1>5, MgtEnds DEF sbp_target_agent_unregister
  <2> HIDE DEF L1, S, L, i
  <2>3. L1.live /\ L1.sess => i \in Logins /\ L1.excl = login[i].excl
      BY <1>2, <2>1 DEF L
  <2>4. QED
      BY <1>1, <1>2, <2>1, <2>2, <2>3, LoginChanges
<1>6. CASE FetchMgtOrb \/ LookUp \/ MgtStatus
  <2>1. UNCHANGED <<sess, login, tgtRace>>
      BY <1>6 DEF FetchMgtOrb, LookUp, MgtStatus
  <2>2. CASE FetchMgtOrb \/ MgtStatus
    <3>1. mgt' \in MgtType
        BY <1>1, <1>4, <2>2, MgtEnds DEF FetchMgtOrb, MgtStatus
    <3>2. QED
        BY <1>1, <2>1, <3>1, LoginsStay
  <2>3. CASE LookUp
    <3> DEFINE h == mgt.from \in Logins
    <3>1. h \in BOOLEAN
        OBVIOUS
    <3>2. mgt' = [mgt EXCEPT !.pc = "found", !.held = h] \/ StatusNext("same") \/ StatusNext("unsure")
        BY <2>3 DEF LookUp
    <3> HIDE DEF h
    <3>3. mgt' \in MgtType
        BY <1>1, <1>4, <3>1, <3>2, MgtEnds
    <3>4. QED
        BY <1>1, <2>1, <3>3, LoginsStay
  <2>4. QED
      BY <1>6, <2>2, <2>3
<1>7. CASE sbp_management_request_login
  <2>1. CASE UNCHANGED <<sess, login>>
    <3>1. mgt' \in MgtType /\ tgtRace' \in {"none", "session", "login"}
        BY <1>1, <1>4, <1>7, MgtEnds DEF sbp_management_request_login, Race
    <3>2. QED
        BY <1>1, <2>1, <3>1, LoginsStay
  <2>2. CASE ~UNCHANGED <<sess, login>>
    <3> DEFINE S1 == [live |-> TRUE, gen |-> mgt.gen, maint |-> "armed", node |-> NodeId(i, mgt.gen)]
               L1 == [NoLogin EXCEPT !.live = TRUE, !.sess = TRUE, !.handler = TRUE,
                                     !.excl = mgt.excl]
    <3>1. /\ sess' = [sess EXCEPT ![i] = S1] /\ login' = [login EXCEPT ![i] = L1]
          /\ ~Refuses(mgt.excl) /\ mgt' = [mgt EXCEPT !.pc = "respond", !.held = TRUE]
          /\ tgtRace' = tgtRace
        BY <1>7, <2>2 DEF sbp_management_request_login
    <3>2. S1 \in SessionType /\ L1 \in LoginType /\ L1.live /\ S1.live /\ S1.maint = "armed"
          /\ L1.excl = mgt.excl
        BY <1>1, NodeIds DEF SessionType, LoginType, NoLogin
    <3>3. mgt' \in MgtType
        BY <1>1, <3>1, MgtEnds
    <3> HIDE DEF S1, L1, S, L, i
    <3>4. (\A j \in Logins : ~login[j].excl) /\ (L1.excl => Logins = {})
        BY <3>1, <3>2 DEF Refuses
    <3>5. QED
        BY <1>1, <3>1, <3>2, <3>3, <3>4, LoginChanges
  <2>3. QED
      BY <2>1, <2>2
<1>8. CASE LoginResponse
  <2>1. CASE \E s \in {"out", "unsure"} : sbp_target_agent_unregister(i, s)
      BY <1>5, <1>8, <2>1 DEF LoginResponse
  <2>2. CASE ~\E s \in {"out", "unsure"} : sbp_target_agent_unregister(i, s)
    <3>1. UNCHANGED <<sess, login>> /\ mgt' \in MgtType /\ tgtRace' \in {"none", "session", "login"}
        BY <1>1, <1>4, <1>8, <2>2 DEF LoginResponse, Race
    <3>2. QED
        BY <1>1, <3>1, LoginsStay
  <2>3. QED
      BY <2>1, <2>2
<1>9. CASE sbp_login_release
  <2>1. /\ login' = [login EXCEPT ![i] = NoLogin] /\ sess' = [sess EXCEPT ![i] = NoSession]
        /\ mgt' \in MgtType /\ tgtRace' \in {"none", "session", "login"}
      BY <1>1, <1>4, <1>9 DEF sbp_login_release, Race
  <2>2. QED
      BY <1>1, <1>3, <2>1, LoginChanges
<1>10. CASE sbp_management_request_reconnect
  <2>1. login' = login /\ mgt' \in MgtType /\ tgtRace' \in {"none", "session", "login"}
      BY <1>1, <1>4, <1>10 DEF sbp_management_request_reconnect, Race
  <2>2. CASE sess' = sess
      BY <1>1, <2>1, <2>2, LoginsStay
  <2>3. CASE sess' # sess
    <3> DEFINE S1 == [S EXCEPT !.gen = mgt.gen, !.node = NodeId(i, mgt.gen)]
    <3>1. sess' = [sess EXCEPT ![i] = S1] /\ login' = [login EXCEPT ![i] = L]
        BY <1>1, <1>2, <1>10, <2>3 DEF sbp_management_request_reconnect
    <3>2. S1 \in SessionType /\ S1.live = S.live /\ S1.maint = S.maint
        BY <1>1, <1>2, NodeIds DEF SessionType
    <3> HIDE DEF S1, S, L, i
    <3>3. L.live /\ L.sess => i \in Logins /\ L.excl = login[i].excl
        BY <1>2 DEF L
    <3>4. QED
        BY <1>1, <1>2, <2>1, <3>1, <3>2, <3>3, LoginChanges
  <2>4. QED
      BY <2>2, <2>3
<1>11. CASE sbp_management_request_logout
  <2>1. CASE sbp_target_agent_unregister(i, "out")
      BY <1>5, <1>11, <2>1 DEF sbp_management_request_logout
  <2>2. CASE ~sbp_target_agent_unregister(i, "out")
    <3>1. UNCHANGED <<sess, login>> /\ mgt' \in MgtType /\ tgtRace' \in {"none", "session", "login"}
        BY <1>1, <1>4, <1>11, <2>2 DEF sbp_management_request_logout, Race
    <3>2. QED
        BY <1>1, <3>1, LoginsStay
  <2>3. QED
      BY <2>1, <2>2
<1>12. QED
    BY <1>6, <1>7, <1>8, <1>9, <1>10, <1>11 DEF sbp_mgt_agent_process

\* Every step of the management agent and of the sessions.
LEMMA TargetStep == TargetInv /\ [SbpTargetNext]_tgtvars => TargetInv'
<1>1. CASE TargetInv /\ UNCHANGED tgtvars
  <2>1. UNCHANGED <<tgtGen, mgt, sess, login, tgtRace>>
      BY <1>1 DEF tgtvars
  <2>2. tgtGen \in Nat /\ mgt \in MgtType /\ tgtRace \in {"none", "session", "login"}
      BY <1>1 DEF TargetInv, TargetTypes
  <2>3. QED
      BY <1>1, <2>1, <2>2, LoginsStay
<1>2. CASE TargetInv /\ SbpTargetNext
    BY <1>2, ConfigurationKeeps, MaintenanceKeeps, ManagementKeeps DEF SbpTargetNext
<1>3. QED
    BY <1>1, <1>2

-----------------------------------------------------------------------------
(* The SBP-2 target: what initiators are told of their logins.              *)

\* In the beginning nobody is logged in, and knows that.
LEMMA TellInit == SbpTargetInit => TellInv
<1> SUFFICES ASSUME SbpTargetInit PROVE TellInv
    OBVIOUS
<1>1. TellTypes
    BY DEF SbpTargetInit, TellTypes, PortType
<1>2. MgtOk /\ ToldOk
    BY DEF SbpTargetInit, MgtOk, ToldOk, KnowsRightly, Logins, NoMgt, NoLogin
<1>3. QED
    BY <1>1, <1>2 DEF TellInv

\* A node ID that was assigned is valid.
LEMMA NodeValid == \A i \in Initiator, g \in Nat : NodeId(i, g) # -1
<1> SUFFICES ASSUME NEW i \in Initiator, NEW g \in Nat PROVE NodeId(i, g) # -1
    OBVIOUS
<1>1. i + g \in Nat /\ NInit \in Nat /\ NInit > 0
    BY TgtAssumption DEF Initiator
<1>2. (i + g) % NInit \in 0 .. NInit - 1
    BY <1>1
<1>3. QED
    BY <1>1, <1>2 DEF NodeId

\* The configuration keeps its type.
LEMMA PortKept ==
    ASSUME TellTypes, SbpTargetNext
    PROVE  tport' \in PortType
<1>1. tport \in PortType
    BY DEF TellTypes
<1>2. Changed \in PortType
    BY <1>1 DEF Changed, PortType
<1>3. ASSUME Configure PROVE tport' \in PortType
  <2> DEFINE Fields == {[Changed EXCEPT !.lun = TRUE], [Changed EXCEPT !.enable = TRUE],
                        [Changed EXCEPT !.enable = FALSE], Changed}
  <2>1. Fields \subseteq PortType
      BY <1>2 DEF PortType
  <2>2. ASSUME NEW p \in PortType, NEW q \in sbp_update_unit_directory(p)
        PROVE  q \in PortType
      BY <2>2 DEF sbp_update_unit_directory, PortType
  <2>3. CASE sbp_make_tpg
      BY <1>2, <2>3 DEF sbp_make_tpg, PortType
  <2>4. CASE sbp_drop_tpg
      BY <1>2, <2>4 DEF sbp_drop_tpg, PortType
  <2>5. CASE sbp_post_link_lun
      BY <2>1, <2>2, <2>5 DEF sbp_post_link_lun
  <2>6. CASE sbp_pre_unlink_lun
    <3>1. PICK p \in sbp_update_unit_directory(Changed) : tport' = [p EXCEPT !.lun = FALSE]
        BY <2>6 DEF sbp_pre_unlink_lun
    <3>2. p \in PortType
        BY <2>1, <2>2
    <3>3. QED
        BY <3>1, <3>2 DEF PortType
  <2>7. CASE \E enable \in BOOLEAN : sbp_enable_tpg(enable)
      BY <2>1, <2>2, <2>7 DEF sbp_enable_tpg
  <2>8. ASSUME NEW n \in 1 .. NInit, sbp_tpg_attrib_max_logins_per_lun_store(n)
        PROVE  tport' \in PortType
    <3>1. n \in Nat /\ tport' = [Changed EXCEPT !.max_logins = n]
        BY <2>8, TgtAssumption DEF sbp_tpg_attrib_max_logins_per_lun_store
    <3>2. QED
        BY <1>2, <3>1 DEF PortType
  <2>9. QED
      BY <1>3, <2>3, <2>4, <2>5, <2>6, <2>7, <2>8 DEF Configure
<1>4. ASSUME MgtRequest PROVE tport' \in PortType
  <2>1. tport' = [tport EXCEPT !.requests = @ + 1]
      BY <1>4 DEF MgtRequest, sbp_mgt_agent_rw
  <2>2. QED
      BY <1>1, <2>1 DEF PortType
<1>5. CASE ~Configure /\ ~MgtRequest
    BY <1>1, <1>5 DEF SbpTargetNext, TgtBusReset, sbp_mgt_agent_process, session_maintenance_work,
       AgentStep, FetchStarts, FetchEnds, AgentWriteOrphan
<1>6. QED
    BY <1>3, <1>4, <1>5

\* Logins end, but none that an initiator counts on.
LEMMA TellStays ==
    ASSUME MgtOk, ToldOk, UNCHANGED <<tgtGen, mgt, told>>, tport'.tpg = tport.tpg,
           Logins' \subseteq Logins, \A i \in Initiator : Current(i) => Current(i)',
           mgt.from \in Initiator
    PROVE  MgtOk' /\ ToldOk'
<1>1. MgtOk'
    BY DEF MgtOk
<1>2. ToldOk'
    BY DEF ToldOk, KnowsRightly, Answering
<1>3. QED
    BY <1>1, <1>2

\* Changes of the configuration.
LEMMA ConfigurationTells ==
    ASSUME TargetInv, TellInv, tgtRace = "none", Configure
    PROVE  MgtOk' /\ ToldOk'
<1>1. /\ MgtOk /\ ToldOk /\ tport \in PortType /\ tgtGen \in Nat /\ mgt.from \in Initiator
      /\ UNCHANGED <<tgtGen, sess, login, told>>
    BY DEF TellInv, TellTypes, TargetInv, TargetTypes, MgtType, Configure
<1>2. Logins' = Logins /\ \A i \in Initiator : Current(i)' <=> Current(i)
    BY <1>1 DEF Logins, Current
<1>3. CASE sbp_make_tpg \/ sbp_drop_tpg
  <2>1. mgt' = NoMgt /\ mgt.pc \in {"none", "lost", "queued"}
      BY <1>1, <1>3 DEF sbp_make_tpg, sbp_drop_tpg, MgtOk
  <2>2. \A i \in Initiator : KnowsRightly(i)
      BY <1>1, <2>1 DEF ToldOk, Answering
  <2>3. ToldOk'
      BY <1>1, <1>2, <2>2 DEF ToldOk, KnowsRightly
  <2>4. MgtOk'
      BY <1>1, <2>1 DEF MgtOk, NoMgt
  <2>5. QED
      BY <2>3, <2>4
<1>4. CASE ~(sbp_make_tpg \/ sbp_drop_tpg)
  <2>1. mgt' = mgt
      BY <1>4 DEF Configure, sbp_post_link_lun, sbp_pre_unlink_lun, sbp_enable_tpg,
         sbp_tpg_attrib_max_logins_per_lun_store
  <2>2. Changed \in PortType /\ Changed.tpg = tport.tpg
      BY <1>1 DEF Changed, PortType
  <2>3. tport'.tpg = tport.tpg
    <3>1. ASSUME NEW p \in PortType, NEW q \in sbp_update_unit_directory(p)
          PROVE  q \in PortType /\ q.tpg = p.tpg
        BY <3>1 DEF sbp_update_unit_directory, PortType
    <3>2. CASE sbp_post_link_lun
      <4> DEFINE p == [Changed EXCEPT !.lun = TRUE]
      <4>1. p \in PortType /\ p.tpg = tport.tpg
          BY <2>2 DEF PortType
      <4>2. tport' \in sbp_update_unit_directory(p)
          BY <3>2 DEF sbp_post_link_lun
      <4> HIDE DEF p
      <4>3. QED
          BY <3>1, <4>1, <4>2
    <3>3. CASE sbp_pre_unlink_lun
      <4>1. PICK p \in sbp_update_unit_directory(Changed) : tport' = [p EXCEPT !.lun = FALSE]
          BY <3>3 DEF sbp_pre_unlink_lun
      <4>2. p \in PortType /\ p.tpg = tport.tpg
          BY <2>2, <3>1
      <4>3. QED
          BY <4>1, <4>2 DEF PortType
    <3>4. ASSUME NEW enable \in BOOLEAN, sbp_enable_tpg(enable) PROVE tport'.tpg = tport.tpg
      <4> DEFINE p == [Changed EXCEPT !.enable = enable]
      <4>1. p \in PortType /\ p.tpg = tport.tpg
          BY <2>2 DEF PortType
      <4>2. tport' \in sbp_update_unit_directory(p)
          BY <3>4 DEF sbp_enable_tpg
      <4> HIDE DEF p
      <4>3. QED
          BY <3>1, <4>1, <4>2
    <3>5. ASSUME NEW n \in 1 .. NInit, sbp_tpg_attrib_max_logins_per_lun_store(n)
          PROVE  tport'.tpg = tport.tpg
        BY <2>2, <3>5 DEF sbp_tpg_attrib_max_logins_per_lun_store, PortType
    <3>6. QED
        BY <1>4, <3>2, <3>3, <3>4, <3>5 DEF Configure
  <2>4. QED
      BY <1>1, <1>2, <2>1, <2>3, TellStays
<1>5. QED
    BY <1>3, <1>4

\* A bus reset leaves those in doubt who were logged in; a request starts.
LEMMA ResetTells ==
    ASSUME TargetInv, TellInv, tgtRace = "none", TgtBusReset
    PROVE  MgtOk' /\ ToldOk'
<1>1. /\ MgtOk /\ ToldOk /\ tgtGen \in Nat /\ mgt.gen \in Nat
      /\ told \in [Initiator -> {"in", "out", "unsure"}]
      /\ tgtGen' = tgtGen + 1 /\ UNCHANGED <<tport, mgt, sess, login>>
      /\ told' = [i \in Initiator |-> IF told[i] = "in" THEN "unsure" ELSE told[i]]
    BY DEF TellInv, TellTypes, TargetInv, TargetTypes, MgtType, TgtBusReset
<1>2. Logins' = Logins
    BY <1>1 DEF Logins
<1>3. mgt.gen <= tgtGen' /\ mgt.gen # tgtGen'
    BY <1>1 DEF MgtOk
<1>4. MgtOk'
    BY <1>1, <1>2, <1>3 DEF MgtOk
<1>5. \A i \in Initiator : told'[i] # "in" /\ (told'[i] = "out" => told[i] = "out")
    BY <1>1
<1>6. ToldOk'
    BY <1>1, <1>2, <1>5 DEF ToldOk, KnowsRightly, Answering
<1>7. QED
    BY <1>4, <1>6

LEMMA RequestTells ==
    ASSUME TargetInv, TellInv, tgtRace = "none", MgtRequest
    PROVE  MgtOk' /\ ToldOk'
<1>1. /\ MgtOk /\ ToldOk /\ tport \in PortType /\ tgtGen \in Nat
      /\ UNCHANGED <<tgtGen, sess, login, told>>
    BY DEF TellInv, TellTypes, TargetInv, TargetTypes, MgtRequest, sbp_mgt_agent_rw
<1>2. PICK i \in Initiator, op \in {"login", "reconnect", "logout", "other"}, excl \in BOOLEAN :
          sbp_mgt_agent_rw(i, op, excl)
    BY DEF MgtRequest
<1>3. /\ mgt.pc = "none" /\ tport.tpg /\ tport' = [tport EXCEPT !.requests = @ + 1]
      /\ mgt'.state = "busy" /\ mgt'.pc \in {"queued", "lost"} /\ mgt'.gen \in {0, tgtGen}
    BY <1>1, <1>2 DEF sbp_mgt_agent_rw, MgtOk, Owned, NoMgt
<1>4. tport'.tpg
    BY <1>1, <1>3 DEF PortType
<1>5. Logins' = Logins /\ \A j \in Initiator : Current(j)' <=> Current(j)
    BY <1>1 DEF Logins, Current
<1>6. \A j \in Initiator : KnowsRightly(j)
    BY <1>1, <1>3 DEF ToldOk, Answering
<1>7. ToldOk'
    BY <1>1, <1>5, <1>6 DEF ToldOk, KnowsRightly
<1>8. MgtOk'
    BY <1>1, <1>3, <1>4 DEF MgtOk
<1>9. QED
    BY <1>7, <1>8

\* The maintenance work ends no session that knows its node.
LEMMA MaintenanceTells ==
    ASSUME TargetInv, TellInv, tgtRace = "none", tgtRace' = "none", NEW i \in Initiator,
           session_maintenance_work(i) \/ AgentStep(i)
    PROVE  MgtOk' /\ ToldOk'
<1>1. /\ MgtOk /\ ToldOk /\ UNCHANGED <<tgtGen, mgt, told, tport>> /\ mgt.from \in Initiator
      /\ sess \in [Initiator -> SessionType] /\ login \in [Initiator -> LoginType]
    BY DEF TellInv, TargetInv, TargetTypes, MgtType, session_maintenance_work, AgentStep, FetchStarts,
       FetchEnds, AgentWriteOrphan
<1>2. ASSUME \A j \in Initiator \ {i} : login'[j] = login[j] /\ sess'[j] = sess[j],
             (login'[i].live /\ login'[i].sess) => (login[i].live /\ login[i].sess),
             Current(i) => Current(i)'
      PROVE  MgtOk' /\ ToldOk'
  <2>1. Logins' \subseteq Logins
      BY <1>2 DEF Logins
  <2>2. \A j \in Initiator : Current(j) => Current(j)'
      BY <1>1, <1>2 DEF Current, Logins
  <2>3. QED
      BY <1>1, <2>1, <2>2, TellStays
<1>3. CASE session_check_for_reset(i)
  <2>1. sess[i].gen # tgtGen /\ sess' = [sess EXCEPT ![i].node = -1] /\ login' = login
      BY <1>3 DEF session_check_for_reset
  <2>2. ~Current(i) /\ \A j \in Initiator \ {i} : login'[j] = login[j] /\ sess'[j] = sess[j]
      BY <1>1, <2>1 DEF Current
  <2>3. QED
      BY <1>2, <2>1, <2>2
<1>4. CASE ReconnectTimeout(i)
  <2>1. sess[i].node = -1 /\ sess' = [sess EXCEPT ![i].maint = "expired"] /\ login' = login
      BY <1>4 DEF ReconnectTimeout
  <2>2. ~Current(i) /\ \A j \in Initiator \ {i} : login'[j] = login[j] /\ sess'[j] = sess[j]
      BY <1>1, <2>1 DEF Current
  <2>3. QED
      BY <1>2, <2>1, <2>2
<1>5. CASE session_reconnect_expired(i)
  <2>1. sess[i].node = -1 /\ login' = [login EXCEPT ![i].sess = FALSE] /\ sess' = sess
      BY <1>5 DEF session_reconnect_expired, Race
  <2>2. /\ ~Current(i) /\ \A j \in Initiator \ {i} : login'[j] = login[j] /\ sess'[j] = sess[j]
        /\ ~login'[i].sess
      BY <1>1, <2>1 DEF Current, LoginType
  <2>3. QED
      BY <1>2, <2>2
<1>6. CASE ReleaseExpired(i)
  <2>1. /\ ~login[i].sess
        /\ \/ login' = [login EXCEPT ![i].handler = FALSE] /\ sess' = sess
           \/ /\ login' = [login EXCEPT ![i] = NoLogin]
              /\ sess' = [sess EXCEPT ![i] = NoSession]
      BY <1>6 DEF ReleaseExpired
  <2>2. /\ ~Current(i) /\ \A j \in Initiator \ {i} : login'[j] = login[j] /\ sess'[j] = sess[j]
        /\ ~login'[i].sess
      BY <1>1, <2>1 DEF Current, Logins, LoginType, NoLogin
  <2>3. QED
      BY <1>2, <2>2
<1>7. CASE FetchStarts(i) \/ FetchEnds(i)
  <2>1. PICK b \in BOOLEAN : login' = [login EXCEPT ![i].fetching = b] /\ sess' = sess
      BY <1>7 DEF FetchStarts, FetchEnds
  <2>2. /\ \A j \in Initiator \ {i} : login'[j] = login[j] /\ sess'[j] = sess[j]
        /\ login'[i].live = login[i].live /\ login'[i].sess = login[i].sess
      BY <1>1, <2>1 DEF LoginType
  <2>3. Current(i) => Current(i)'
      BY <1>1, <2>1, <2>2 DEF Current, Logins
  <2>4. QED
      BY <1>2, <2>2, <2>3
<1>8. CASE AgentWriteOrphan(i)
    BY <1>8 DEF AgentWriteOrphan, Race
<1>9. QED
    BY <1>3, <1>4, <1>5, <1>6, <1>7, <1>8 DEF session_maintenance_work, AgentStep

\* The management agent touches nobody but the initiator that it serves.
LEMMA TellElsewhere ==
    ASSUME ToldOk, tgtGen' = tgtGen, NEW i \in Initiator, i = mgt.from,
           \A j \in Initiator \ {i} :
               login'[j] = login[j] /\ sess'[j] = sess[j] /\ told'[j] = told[j],
           \/ Answering(i)' /\ ~(mgt'.pc = "status" /\ mgt'.status = "same")
           \/ KnowsRightly(i)'
    PROVE  ToldOk'
<1> SUFFICES ASSUME NEW j \in Initiator,
                    ~Answering(j)' \/ (mgt'.pc = "status" /\ mgt'.status = "same")
             PROVE  KnowsRightly(j)'
    BY DEF ToldOk
<1>1. CASE j = i
    BY <1>1
<1>2. CASE j # i
  <2>1. KnowsRightly(j)
      BY <1>2 DEF ToldOk, Answering
  <2>2. (j \in Logins' <=> j \in Logins) /\ sess'[j] = sess[j] /\ told'[j] = told[j]
      BY <1>2 DEF Logins
  <2>3. QED
      BY <2>1, <2>2 DEF KnowsRightly, Current
<1>3. QED
    BY <1>1, <1>2

\* The management agent knows what it says.
LEMMA ManagementTells ==
    ASSUME TargetInv, TellInv, tgtRace = "none", tgtRace' = "none", sbp_mgt_agent_process
    PROVE  MgtOk' /\ ToldOk'
<1>0. mgt.from \in Initiator
    BY DEF TargetInv, TargetTypes, MgtType
<1> SUFFICES ASSUME NEW i \in Initiator, i = mgt.from
             PROVE  MgtOk' /\ ToldOk'
    BY <1>0
<1>1. /\ MgtOk /\ ToldOk /\ UNCHANGED <<tgtGen, tport>> /\ i = mgt.from /\ mgt \in MgtType
      /\ tgtGen \in Nat /\ mgt.gen \in Nat /\ told \in [Initiator -> {"in", "out", "unsure"}]
      /\ sess \in [Initiator -> SessionType] /\ login \in [Initiator -> LoginType]
    BY DEF TellInv, TellTypes, TargetInv, TargetTypes, MgtType, sbp_mgt_agent_process
<1>2. mgt.pc # "none" => tport.tpg /\ mgt.state # "idle"
    BY <1>1 DEF MgtOk
<1>3. ASSUME NEW s \in {"same", "in", "out", "unsure"}, StatusNext(s)
      PROVE  /\ mgt'.pc = "status" /\ mgt'.from = i /\ mgt'.gen = mgt.gen /\ mgt'.status = s
             /\ mgt'.state = "busy"
    BY <1>3 DEF StatusNext, NoMgt
<1>4. mgt' = NoMgt => MgtOk'
    BY <1>1 DEF MgtOk, NoMgt
<1>5. ASSUME NEW s \in {"same", "in", "out", "unsure"}, StatusNext(s), mgt.pc # "none",
             s = "in" /\ mgt.gen = tgtGen => Current(i)', s = "out" => i \notin Logins'
      PROVE  MgtOk'
    BY <1>1, <1>2, <1>3, <1>5 DEF MgtOk
\* No login changes, and the initiator knows what it knew.
<1>6. ASSUME UNCHANGED <<sess, login, told>>, mgt.pc \in {"queued", "fetched", "found"}
      PROVE  ToldOk'
  <2>1. KnowsRightly(i)
      BY <1>1, <1>6 DEF ToldOk, Answering
  <2>2. KnowsRightly(i)'
      BY <1>1, <1>6, <2>1 DEF KnowsRightly, Current, Logins
  <2>3. QED
      BY <1>1, <1>6, <2>2, TellElsewhere
\* The first step of a release.
<1>7. ASSUME NEW s \in {"out", "unsure"}, sbp_target_agent_unregister(i, s), mgt.pc # "none",
             UNCHANGED <<sess, told>>
      PROVE  MgtOk' /\ ToldOk'
  <2>1. /\ mgt'.pc = "release" /\ mgt'.from = i /\ mgt'.gen = mgt.gen /\ mgt'.status = s
        /\ mgt'.state = mgt.state /\ login' = [login EXCEPT ![i].handler = FALSE]
      BY <1>1, <1>7 DEF sbp_target_agent_unregister, MgtType
  <2>2. MgtOk'
      BY <1>1, <1>2, <1>7, <2>1 DEF MgtOk
  <2>3. Answering(i)' /\ \A j \in Initiator \ {i} : login'[j] = login[j]
      BY <1>1, <2>1 DEF Answering
  <2>4. ToldOk'
      BY <1>1, <1>7, <2>1, <2>3, TellElsewhere
  <2>5. QED
      BY <2>2, <2>4
<1>8. CASE FetchMgtOrb /\ told' = told
  <2>1. UNCHANGED <<sess, login>> /\ mgt.pc = "queued"
      BY <1>8 DEF FetchMgtOrb
  <2>2. CASE mgt' = [mgt EXCEPT !.pc = "fetched"]
    <3>1. mgt'.pc = "fetched" /\ mgt'.gen = mgt.gen /\ mgt'.state = mgt.state
        BY <1>1, <2>2 DEF MgtType
    <3>2. MgtOk'
        BY <1>1, <1>2, <2>1, <3>1 DEF MgtOk
    <3>3. QED
        BY <1>6, <1>8, <2>1, <3>2
  <2>3. CASE StatusNext("same") \/ mgt' = NoMgt
      BY <1>4, <1>5, <1>6, <1>8, <2>1, <2>3
  <2>4. QED
      BY <1>8, <2>2, <2>3 DEF FetchMgtOrb, MgtDone
<1>9. CASE LookUp /\ told' = told
  <2>1. UNCHANGED <<sess, login>> /\ mgt.pc = "fetched"
      BY <1>9 DEF LookUp
  <2>2. CASE mgt' = [mgt EXCEPT !.pc = "found", !.held = mgt.from \in Logins]
    <3> DEFINE h == mgt.from \in Logins
    <3>0. mgt' = [mgt EXCEPT !.pc = "found", !.held = h]
        BY <2>2
    <3>1. h \in BOOLEAN /\ (h => i \in Logins) /\ (~h => i \notin Logins)
        OBVIOUS
    <3> HIDE DEF h
    <3>2. /\ mgt'.pc = "found" /\ mgt'.gen = mgt.gen /\ mgt'.state = mgt.state
          /\ mgt'.held = h /\ mgt'.from = i
        BY <1>1, <3>0 DEF MgtType
    <3>3. Logins' = Logins
        BY <2>1 DEF Logins
    <3>4. MgtOk'
        BY <1>1, <1>2, <2>1, <3>1, <3>2, <3>3 DEF MgtOk
    <3>5. QED
        BY <1>6, <1>9, <2>1, <3>4
  <2>3. CASE StatusNext("same") \/ StatusNext("unsure")
      BY <1>5, <1>6, <1>9, <2>1, <2>3
  <2>4. QED
      BY <1>9, <2>2, <2>3 DEF LookUp
<1>10. CASE sbp_management_request_login /\ told' = told
  <2>1. mgt.pc = "found" /\ Logins \subseteq Initiator
      BY <1>10 DEF sbp_management_request_login, Logins
  <2>2. ASSUME StatusNext("out"), ~mgt.held, UNCHANGED <<sess, login>>
        PROVE  MgtOk' /\ ToldOk'
    <3>1. i \notin Logins'
        BY <1>1, <2>1, <2>2 DEF MgtOk, Logins
    <3>2. QED
        BY <1>5, <1>6, <1>10, <2>1, <2>2, <3>1
  <2>3. ASSUME mgt' = [mgt EXCEPT !.pc = "respond"], mgt.held, UNCHANGED <<sess, login>>
        PROVE  MgtOk' /\ ToldOk'
    <3>1. /\ mgt'.pc = "respond" /\ mgt'.gen = mgt.gen /\ mgt'.state = mgt.state
          /\ mgt'.held
        BY <1>1, <2>3 DEF MgtType
    <3>2. MgtOk'
        BY <1>1, <1>2, <2>1, <3>1 DEF MgtOk
    <3>3. QED
        BY <1>6, <1>10, <2>1, <2>3, <3>2
  <2>4. ASSUME mgt' = [mgt EXCEPT !.pc = "respond", !.held = TRUE],
               \A j \in Initiator \ {i} : login'[j] = login[j] /\ sess'[j] = sess[j]
        PROVE  MgtOk' /\ ToldOk'
    <3>1. /\ mgt'.pc = "respond" /\ mgt'.gen = mgt.gen /\ mgt'.state = mgt.state
          /\ mgt'.held = TRUE /\ mgt'.from = i
        BY <1>1, <2>4 DEF MgtType
    <3>2. MgtOk'
        BY <1>1, <1>2, <2>1, <3>1 DEF MgtOk
    <3>3. Answering(i)'
        BY <3>1 DEF Answering
    <3>4. QED
        BY <1>1, <1>10, <2>4, <3>1, <3>2, <3>3, TellElsewhere
  <2>5. QED
    <3>1. \/ mgt.held /\ mgt' = [mgt EXCEPT !.pc = "respond"] /\ UNCHANGED <<sess, login>>
          \/ ~mgt.held /\ StatusNext("out") /\ UNCHANGED <<sess, login>>
          \/ /\ mgt' = [mgt EXCEPT !.pc = "respond", !.held = TRUE]
             /\ \E S, L : sess' = [sess EXCEPT ![i] = S] /\ login' = [login EXCEPT ![i] = L]
        BY <1>10 DEF sbp_management_request_login, Race
    <3>2. (\E S, L : sess' = [sess EXCEPT ![i] = S] /\ login' = [login EXCEPT ![i] = L])
              => \A j \in Initiator \ {i} : login'[j] = login[j] /\ sess'[j] = sess[j]
        BY <1>1
    <3>3. QED
        BY <2>2, <2>3, <2>4, <3>1, <3>2
<1>11. CASE LoginResponse /\ told' = told
  <2>1. mgt.pc = "respond" /\ sess' = sess /\ mgt.held
      BY <1>1, <1>11 DEF LoginResponse, MgtOk
  <2>2. CASE ~Stale(i) /\ sess[i].gen = tgtGen /\ sess[i].node # -1 /\ StatusNext("in")
             /\ login' = login
    <3>1. i \in Logins
        BY <2>1, <2>2 DEF Stale
    <3>2. Current(i)'
        BY <1>1, <2>1, <2>2, <3>1 DEF Current, Logins
    <3>3. MgtOk'
        BY <1>5, <2>1, <2>2, <3>2
    <3>4. Answering(i)' /\ mgt'.status = "in"
        BY <1>3, <2>2 DEF Answering
    <3>5. QED
        BY <1>1, <1>11, <2>1, <2>2, <3>3, <3>4, TellElsewhere
  <2>3. CASE \E s \in {"out", "unsure"} : sbp_target_agent_unregister(i, s)
      BY <1>7, <1>11, <2>1, <2>3
  <2>4. QED
      BY <1>11, <2>2, <2>3 DEF LoginResponse, Race
<1>12. CASE sbp_login_release /\ told' = told
  <2>1. /\ mgt.pc = "release" /\ StatusNext(mgt.status) /\ mgt.status \in {"out", "unsure"}
        /\ login' = [login EXCEPT ![i] = NoLogin] /\ sess' = [sess EXCEPT ![i] = NoSession]
      BY <1>1, <1>12 DEF sbp_login_release, MgtOk
  <2>2. i \notin Logins'
      BY <1>1, <2>1 DEF Logins, NoLogin
  <2>3. MgtOk'
      BY <1>5, <2>1, <2>2
  <2>4. Answering(i)' /\ mgt'.status # "same"
      BY <1>3, <2>1 DEF Answering
  <2>5. QED
      BY <1>1, <1>12, <2>1, <2>3, <2>4, TellElsewhere
<1>13. CASE sbp_management_request_reconnect /\ told' = told
  <2>1. /\ mgt.pc = "found" /\ login' = login /\ ~Stale(i)
        /\ StatusNext(IF mgt.held THEN "in" ELSE "out")
      BY <1>13 DEF sbp_management_request_reconnect, Race
  <2>2. CASE ~mgt.held
    <3>1. sess' = sess
        BY <1>13, <2>2 DEF sbp_management_request_reconnect
    <3>2. i \notin Logins'
        BY <1>1, <2>1, <2>2 DEF MgtOk, Logins
    <3>3. QED
        BY <1>5, <1>6, <1>13, <2>1, <2>2, <3>1, <3>2
  <2>3. CASE mgt.held
    <3>1. sess' = [sess EXCEPT ![i].gen = mgt.gen, ![i].node = NodeId(i, mgt.gen)]
        BY <1>13, <2>1, <2>3 DEF sbp_management_request_reconnect
    <3>2. i \in Logins'
        BY <2>1, <2>3 DEF Stale, Logins
    <3>3. sess'[i].gen = mgt.gen /\ sess'[i].node # -1
        BY <1>1, <3>1, NodeValid DEF SessionType
    <3>4. mgt.gen = tgtGen => Current(i)'
        BY <1>1, <3>2, <3>3 DEF Current
    <3>5. MgtOk' /\ Answering(i)' /\ mgt'.status = "in"
        BY <1>3, <1>5, <2>1, <2>3, <3>4 DEF Answering
    <3>6. QED
        BY <1>1, <1>13, <2>1, <3>1, <3>5, TellElsewhere
  <2>4. QED
      BY <2>2, <2>3
<1>14. CASE sbp_management_request_logout /\ told' = told
  <2>1. mgt.pc = "found" /\ sess' = sess
      BY <1>14 DEF sbp_management_request_logout
  <2>2. CASE ~mgt.held /\ StatusNext("out") /\ login' = login
    <3>1. i \notin Logins'
        BY <1>1, <2>1, <2>2 DEF MgtOk, Logins
    <3>2. QED
        BY <1>5, <1>6, <1>14, <2>1, <2>2, <3>1
  <2>3. CASE StatusNext("same") /\ login' = login
      BY <1>5, <1>6, <1>14, <2>1, <2>3
  <2>4. CASE sbp_target_agent_unregister(i, "out")
      BY <1>7, <1>14, <2>1, <2>4
  <2>5. QED
      BY <1>14, <2>2, <2>3, <2>4 DEF sbp_management_request_logout, Race
<1>15. CASE MgtStatus
  <2>1. /\ mgt.pc = "status" /\ mgt' = NoMgt /\ UNCHANGED <<sess, login>>
        /\ \/ /\ mgt.gen = tgtGen
              /\ told' = IF mgt.status = "same" THEN told ELSE [told EXCEPT ![i] = mgt.status]
           \/ told' = [told EXCEPT ![i] = "unsure"]
      BY <1>15 DEF MgtStatus, MgtDone, MgtReaches
  <2>2. Logins' = Logins /\ (Current(i)' <=> Current(i))
      BY <1>1, <2>1 DEF Logins, Current
  <2>3. KnowsRightly(i)'
    <3>1. CASE told' = [told EXCEPT ![i] = "unsure"]
        BY <1>1, <3>1 DEF KnowsRightly
    <3>2. CASE mgt.status = "same" /\ told' = told
      <4>1. KnowsRightly(i)
          BY <1>1, <2>1, <3>2 DEF ToldOk
      <4>2. QED
          BY <2>2, <3>2, <4>1 DEF KnowsRightly
    <3>3. CASE mgt.gen = tgtGen /\ told' = [told EXCEPT ![i] = mgt.status]
        BY <1>1, <2>1, <2>2, <3>3 DEF MgtOk, KnowsRightly
    <3>4. QED
        BY <2>1, <3>1, <3>2, <3>3
  <2>4. \A j \in Initiator \ {i} :
            login'[j] = login[j] /\ sess'[j] = sess[j] /\ told'[j] = told[j]
      BY <1>1, <2>1
  <2>5. QED
      BY <1>1, <1>4, <2>1, <2>3, <2>4, TellElsewhere
<1>16. QED
    BY <1>8, <1>9, <1>10, <1>11, <1>12, <1>13, <1>14, <1>15 DEF sbp_mgt_agent_process

\* What initiators know keeps its type.
LEMMA ToldKept ==
    ASSUME TargetInv, TellTypes, SbpTargetNext
    PROVE  told' \in [Initiator -> {"in", "out", "unsure"}]
<1>1. told \in [Initiator -> {"in", "out", "unsure"}] /\ mgt.status \in {"same", "in", "out", "unsure"}
    BY DEF TargetInv, TargetTypes, TellTypes, MgtType
<1>2. CASE TgtBusReset
  <2>1. told' = [i \in Initiator |-> IF told[i] = "in" THEN "unsure" ELSE told[i]]
      BY <1>2 DEF TgtBusReset
  <2>2. QED
      BY <1>1, <2>1
<1>3. CASE sbp_mgt_agent_process /\ MgtStatus
    BY <1>1, <1>3 DEF MgtStatus
<1>4. CASE told' = told
    BY <1>1, <1>4
<1>5. QED
    BY <1>2, <1>3, <1>4 DEF SbpTargetNext, Configure, MgtRequest, sbp_mgt_agent_process,
       session_maintenance_work, AgentStep, FetchStarts, FetchEnds, AgentWriteOrphan

\* Every step tells initiators the truth, or nothing.
LEMMA TellStep == TargetInv /\ TellInv /\ [SbpTargetNext]_tgtvars => TellInv'
<1>1. CASE TargetInv /\ TellInv /\ UNCHANGED tgtvars
    BY <1>1 DEF tgtvars, TellInv, TellTypes, MgtOk, ToldOk, KnowsRightly, Current, Logins, Answering
<1>2. ASSUME TargetInv, TellInv, SbpTargetNext PROVE TellInv'
  <2>1. tgtRace = "none"
      BY <1>2 DEF SbpTargetNext
  <2>2. TellTypes'
      BY <1>2, PortKept, ToldKept DEF TellInv, TellTypes
  <2>3. tgtRace' = "none" => MgtOk' /\ ToldOk'
      BY <1>2, <2>1, ConfigurationTells, ResetTells, RequestTells, MaintenanceTells, ManagementTells
         DEF SbpTargetNext
  <2>4. QED
      BY <2>2, <2>3 DEF TellInv
<1>3. QED
    BY <1>1, <1>2

(* LoginsExact: an exclusive login is the only one of its LUN, a login has  *)
(* a session, a session has a login and a maintenance work that can end it, *)
(* and each initiator can rely on what it was told of its login since the   *)
(* last bus reset (sbp_management_request_login(), _reconnect(), _logout()  *)
(* and sbp_mgt_agent_process() against session_maintenance_work()), for any *)
(* number of initiators, requests, bus resets and changes of the            *)
(* configuration, up to the races in tgtRace.                               *)
THEOREM LoginsCorrect == SbpTargetSpec => []LoginsExact
<1>1. TargetInv /\ TellInv => LoginsExact
  <2> SUFFICES ASSUME TargetInv, TellInv PROVE LoginsExact
      OBVIOUS
  <2>1. SbpTargetTypeOK
      BY DEF TargetInv, TargetTypes, TellInv, TellTypes, SbpTargetTypeOK, MgtType, SessionType
  <2>2. tgtRace = "none" => LoginsAsTold
      BY DEF TellInv, ToldOk, KnowsRightly, Current, LoginsAsTold
  <2>3. QED
      BY <2>1, <2>2 DEF LoginsExact, TargetInv, ExclusiveAlone, Paired
<1>2. QED
    BY <1>1, TargetInit, TargetStep, TellInit, TellStep, PTL DEF SbpTargetSpec

-----------------------------------------------------------------------------
(* The command block agent: what each step keeps.                           *)

\* The owner is one of two nodes.
LEMMA Owners == \A g \in Nat : OwnerNode(g) \in 0 .. 1
BY DEF OwnerNode

\* A fresh agent and a free tag; that agent fits any list of ORBs.
LEMMA ResetAgent == NoAgent \in AgentType /\ NoReq \in ReqType /\ \A O : AgentOk(NoAgent, O) <=> 0 <= O.made
BY AgAssumption DEF NoAgent, AgentType, NoReq, ReqType, AgentOk

\* A login starts without ORBs and requests.
LEMMA AgentInit == SbpAgentInit => AgInv
<1> SUFFICES ASSUME SbpAgentInit PROVE AgInv
    OBVIOUS
<1>1. AgTypes
    BY AgAssumption, ResetAgent DEF SbpAgentInit, AgTypes
<1>2. SessionKnows /\ StatusGoesHome /\ FetchedOne
    BY DEF SbpAgentInit, SessionKnows, StatusGoesHome, FetchedOne, NoReq, NoAgent
<1>3. OrbsOk(agOrbs) /\ AgentOk(agent, agOrbs)
    BY ResetAgent DEF SbpAgentInit, OrbsOk
<1>4. QED
    BY <1>1, <1>2, <1>3 DEF AgInv, SbpAgentInit, NoAgent

\* Logins, bus resets, reconnects and releases.
LEMMA SessionKeeps ==
    ASSUME AgInv, agRace = "none", SessionStep
    PROVE  AgInv'
<1>1. /\ agGen \in Nat /\ agSess.gen \in Nat /\ agent \in AgentType /\ agReq \in [Tag -> ReqType]
      /\ agSess \in [live : BOOLEAN, gen : Nat, node : -1 .. 1, updating : BOOLEAN]
      /\ SessionKnows /\ StatusGoesHome /\ ~agOrbs.foreign /\ agOrbs' = agOrbs
      /\ (~agSess.live => agent.work = "idle")
      /\ OrbsOk(agOrbs) /\ AgentOk(agent, agOrbs) /\ FetchedOne /\ 0 <= agOrbs.made
    BY DEF AgInv, AgTypes, SessionStep
<1>2. /\ OwnerNode(agGen) \in 0 .. 1 /\ OwnerNode(agSess.gen) \in 0 .. 1
    BY <1>1, Owners
<1>3. OrbsOk(agOrbs)'
    BY <1>1
<1>4. ASSUME UNCHANGED <<agent, agReq, agRace>>, AgBusReset \/ AgNoticeReset \/ AgReconnect
      PROVE  AgInv'
  <2>1. StatusGoesHome' /\ FetchedOne' /\ AgentOk(agent, agOrbs)'
      BY <1>1, <1>4 DEF StatusGoesHome, FetchedOne
  <2>2. CASE AgBusReset \/ AgNoticeReset \/ AgReconnect
    <3>0. \/ agSess' = agSess
          \/ agSess' = [agSess EXCEPT !.node = -1]
          \/ agSess' = [agSess EXCEPT !.updating = FALSE, !.node = OwnerNode(agSess.gen)]
          \/ agSess' = [agSess EXCEPT !.updating = TRUE, !.gen = agGen]
        BY <2>2 DEF AgBusReset, AgNoticeReset, AgReconnect
    <3>1. /\ agGen' \in Nat
          /\ agSess' \in [live : BOOLEAN, gen : Nat, node : -1 .. 1, updating : BOOLEAN]
      <4>1. agGen' \in Nat
          BY <1>1, <2>2 DEF AgBusReset, AgNoticeReset, AgReconnect
      <4>2. -1 \in -1 .. 1 /\ OwnerNode(agSess.gen) \in -1 .. 1
          BY <1>2
      <4> DEFINE Node == -1 .. 1
                 minus == -1
      <4>3. agSess \in [live : BOOLEAN, gen : Nat, node : Node, updating : BOOLEAN] /\ minus \in Node
          BY <1>1
      <4> HIDE DEF Node
      <4>4. agSess' \in [live : BOOLEAN, gen : Nat, node : Node, updating : BOOLEAN]
        <5>1. CASE agSess' = agSess
            BY <4>3, <5>1
        <5>2. CASE agSess' = [agSess EXCEPT !.node = minus]
          <6> HIDE DEF minus
          <6>1. QED
              BY <4>3, <5>2
        <5>3. CASE agSess' = [agSess EXCEPT !.updating = FALSE, !.node = OwnerNode(agSess.gen)]
            BY <4>2, <4>3, <5>3 DEF Node
        <5>4. CASE agSess' = [agSess EXCEPT !.updating = TRUE, !.gen = agGen]
            BY <1>1, <4>3, <5>4
        <5>5. QED
            BY <3>0, <5>1, <5>2, <5>3, <5>4
      <4>5. QED
          BY <4>1, <4>4 DEF Node
    <3>2. SessionKnows' /\ (~agSess'.live => agent'.work = "idle")
        BY <1>1, <1>4, <2>2 DEF AgBusReset, AgNoticeReset, AgReconnect, SessionKnows
    <3>3. AgTypes'
        BY <1>1, <1>4, <3>1 DEF AgInv, AgTypes
    <3>4. QED
        BY <1>1, <1>3, <1>4, <2>1, <3>2, <3>3 DEF AgInv
  <2>3. QED
      BY <2>2, <1>4
<1>5. CASE AgLogin
  <2>1. /\ agent' = NoAgent /\ agReq' = agReq /\ agRace' = agRace /\ agGen' = agGen /\ ~agSess.live
        /\ agSess' = [live |-> TRUE, gen |-> agGen, node |-> OwnerNode(agGen), updating |-> FALSE]
      BY <1>5 DEF AgLogin
  <2>2. AgTypes'
      BY <1>1, <1>2, <2>1, ResetAgent DEF AgInv, AgTypes
  <2>3. SessionKnows' /\ StatusGoesHome' /\ agSess'.live
      BY <1>1, <2>1 DEF SessionKnows, StatusGoesHome
  <2>4. AgentOk(agent, agOrbs)'
      BY <1>1, <2>1, ResetAgent
  <2>5. FetchedOne'
      BY <1>1, <2>1 DEF FetchedOne, NoAgent
  <2>6. QED
      BY <1>1, <1>3, <2>2, <2>3, <2>4, <2>5 DEF AgInv
<1>6. CASE AgRelease
  <2>1. /\ agent' = NoAgent /\ agGen' = agGen
        /\ agSess' = [agSess EXCEPT !.live = FALSE, !.node = -1]
        /\ \/ agRace' = "login" /\ agReq' = agReq
           \/ agRace' = agRace /\ agReq' = [t \in Tag |-> NoReq]
      BY <1>6 DEF AgRelease, AgRace
  <2>2. agReq' \in [Tag -> ReqType] /\ StatusGoesHome'
      BY <1>1, <2>1, ResetAgent DEF StatusGoesHome, NoReq
  <2>3. AgTypes'
    <3>1. agSess' \in [live : BOOLEAN, gen : Nat, node : -1 .. 1, updating : BOOLEAN]
      <4> DEFINE Node == -1 .. 1
                 minus == -1
      <4>1. agSess \in [live : BOOLEAN, gen : Nat, node : Node, updating : BOOLEAN] /\ minus \in Node
          BY <1>1
      <4>2. agSess' = [agSess EXCEPT !.live = FALSE, !.node = minus]
          BY <2>1
      <4> HIDE DEF Node, minus
      <4>3. agSess' \in [live : BOOLEAN, gen : Nat, node : Node, updating : BOOLEAN]
          BY <4>1, <4>2
      <4>4. QED
          BY <4>3 DEF Node
    <3>2. agent' \in AgentType /\ agRace' \in {"none", "login", "torn", "reset"}
        BY <2>1, ResetAgent DEF AgInv, AgTypes
    <3>3. QED
        BY <1>1, <2>1, <2>2, <3>1, <3>2 DEF AgInv, AgTypes
  <2>4. SessionKnows' /\ agent'.work = "idle"
      BY <1>1, <2>1 DEF SessionKnows, NoAgent
  <2>5. AgentOk(agent, agOrbs)'
      BY <1>1, <2>1, ResetAgent
  <2>6. agRace' = "none" => FetchedOne'
      BY <1>1, <2>1 DEF FetchedOne, NoAgent, NoReq
  <2>7. QED
      BY <1>1, <1>3, <2>2, <2>3, <2>4, <2>5, <2>6 DEF AgInv
<1>7. CASE AgBusReset \/ AgNoticeReset \/ AgReconnect
  <2>1. UNCHANGED <<agent, agReq, agRace>>
      BY <1>7 DEF AgBusReset, AgNoticeReset, AgReconnect
  <2>2. QED
      BY <1>4, <1>7, <2>1
<1>8. QED
    BY <1>5, <1>6, <1>7 DEF SessionStep

\* Writes to the registers: nobody but the owner passes tgt_agent_rw().
LEMMA WritesKeep ==
    ASSUME AgInv, agRace = "none", NEW foreign \in BOOLEAN, AgentWrite(foreign)
    PROVE  AgInv'
<1> DEFINE O == agOrbs
           A == agent
<1>1. /\ AgTypes /\ SessionKnows /\ StatusGoesHome /\ ~O.foreign /\ agSess.live
      /\ OrbsOk(O) /\ AgentOk(A, O) /\ FetchedOne
      /\ UNCHANGED <<agGen, agSess, agReq>>
      /\ tgt_agent_rw(IF foreign THEN 1 - OwnerNode(agGen) ELSE OwnerNode(agGen))
    BY DEF AgInv, AgentWrite, tgt_agent_rw
<1>2. /\ A \in AgentType /\ O.made \in 0 .. MaxOrb /\ agGen \in Nat /\ agRace \in {"none", "login", "torn", "reset"}
      /\ O \in [made : 0 .. MaxOrb, linked : SUBSET Nat, served : SUBSET Nat,
                twice : BOOLEAN, foreign : BOOLEAN]
    BY <1>1 DEF AgTypes
<1>3. ~foreign
  <2>1. agSess.node = OwnerNode(agGen) \/ agSess.node = -1
      BY <1>1 DEF SessionKnows, tgt_agent_rw
  <2>2. OwnerNode(agGen) \in 0 .. 1
      BY <1>2, Owners
  <2>3. QED
      BY <1>1, <2>1, <2>2 DEF tgt_agent_rw, OwnerNode
<1>4. SessionKnows' /\ StatusGoesHome' /\ agSess'.live
    BY <1>1 DEF SessionKnows, StatusGoesHome
<1>5. ASSUME agent'.work = A.work, agent'.next = A.next
      PROVE  FetchedOne'
    BY <1>1, <1>5 DEF FetchedOne
<1>6. CASE tgt_agent_rw_agent_reset
  <2>1. agent' = [A EXCEPT !.state = "reset"] /\ UNCHANGED <<agOrbs, agRace>>
      BY <1>6 DEF tgt_agent_rw_agent_reset
  <2>2. agent' \in AgentType /\ AgentOk(agent, agOrbs)' /\ agent'.work = A.work /\ agent'.next = A.next
      BY <1>1, <1>2, <2>1 DEF AgentType, AgentOk
  <2>3. AgTypes' /\ OrbsOk(agOrbs)' /\ ~agOrbs'.foreign
      BY <1>1, <2>1, <2>2 DEF AgTypes
  <2>4. QED
      BY <1>4, <1>5, <2>2, <2>3 DEF AgInv
<1>7. CASE tgt_agent_rw_orb_pointer
  <2> DEFINE O1 == [O EXCEPT !.made = @ + 1]
             again == A.again \/ A.work \notin {"idle", "queued"}
             A1 == [A EXCEPT !.state = "active", !.work = IF @ = "idle" THEN "queued" ELSE @,
                             !.again = again, !.orb_pointer = O.made + 1, !.doorbell = FALSE]
  <2>1. /\ agOrbs' = O1 /\ agent' = A1 /\ A.state \in {"suspended", "reset"} /\ O.made < MaxOrb
        /\ IF A.work \in {"fetching", "fetched"} THEN agRace' = "reset" ELSE agRace' = agRace
      BY <1>7 DEF tgt_agent_rw_orb_pointer, AgRace, Woken
  <2>2. /\ O1.made = O.made + 1 /\ O1.made \in 0 .. MaxOrb /\ O1.linked = O.linked /\ O1.served = O.served
        /\ O1.twice = O.twice /\ O1.foreign = O.foreign
        /\ O1 \in [made : 0 .. MaxOrb, linked : SUBSET Nat, served : SUBSET Nat,
                   twice : BOOLEAN, foreign : BOOLEAN]
      BY <1>2, <2>1, AgAssumption
  <2>3. /\ A1 \in AgentType /\ A1.state = "active" /\ A1.orb_pointer = O.made + 1
        /\ A1.next = A.next
        /\ A1.work = (IF A.work = "idle" THEN "queued" ELSE A.work)
        /\ A.work \in {"idle", "queued"} => A1.again = A.again
    <3> DEFINE pointer == O.made + 1
    <3>1. again \in BOOLEAN /\ (A.work \in {"idle", "queued"} => again = A.again)
        BY <1>2 DEF AgentType
    <3>2. pointer \in 0 .. MaxOrb
        BY <1>2, <2>1, AgAssumption
    <3> HIDE DEF again, pointer
    <3>3. A1 = [A EXCEPT !.state = "active", !.work = IF @ = "idle" THEN "queued" ELSE @,
                         !.again = again, !.orb_pointer = pointer, !.doorbell = FALSE]
        BY DEF pointer
    <3> HIDE DEF A1
    <3>4. /\ A1 \in AgentType /\ A1.state = "active" /\ A1.orb_pointer = pointer
          /\ A1.next = A.next /\ A1.again = again
          /\ A1.work = (IF A.work = "idle" THEN "queued" ELSE A.work)
        BY <1>2, <3>1, <3>2, <3>3 DEF AgentType
    <3>5. QED
        BY <3>1, <3>4 DEF pointer
  <2>4. AgTypes'
      BY <1>1, <2>1, <2>2, <2>3 DEF AgTypes
  <2>5. CASE A.work \in {"fetching", "fetched"}
      BY <1>1, <1>4, <2>1, <2>2, <2>4, <2>5 DEF AgInv
  <2>6. CASE A.work \in {"idle", "queued", "oops"}
    <3>1. OrbsOk(O1)
        BY <1>1, <1>2, <2>2 DEF OrbsOk
    <3>2. \A k \in O1.served : k <= O.made
        BY <1>1, <2>2 DEF OrbsOk
    <3>3. AgentOk(A1, O1)
        BY <1>1, <1>2, <2>2, <2>3, <2>6, <3>2 DEF AgentOk, ActiveOk
    <3>4. FetchedOne'
        BY <1>1, <2>1, <2>3, <2>6 DEF FetchedOne
    <3>5. QED
        BY <1>1, <1>4, <2>1, <2>2, <2>3, <2>4, <3>1, <3>3, <3>4 DEF AgInv
  <2>7. QED
      BY <1>2, <2>5, <2>6 DEF AgentType
<1>8. CASE tgt_agent_rw_doorbell
  <2> DEFINE O1 == [O EXCEPT !.made = @ + 1, !.linked = @ \cup {O.made}]
             again == A.again \/ A.work \notin {"idle", "queued"}
             A1 == [A EXCEPT !.state = "active", !.work = IF @ = "idle" THEN "queued" ELSE @,
                             !.again = again, !.doorbell = TRUE]
  <2>1. /\ agOrbs' = O1 /\ O.made \in 1 .. MaxOrb - 1 /\ agRace' = agRace
        /\ agent' = IF A.state = "suspended" THEN A1 ELSE A
      BY <1>8 DEF tgt_agent_rw_doorbell, Woken
  <2>2. /\ O1.made = O.made + 1 /\ O1.made \in 0 .. MaxOrb /\ O1.linked = O.linked \cup {O.made}
        /\ O1.served = O.served /\ O1.twice = O.twice /\ O1.foreign = O.foreign
        /\ O1 \in [made : 0 .. MaxOrb, linked : SUBSET Nat, served : SUBSET Nat,
                   twice : BOOLEAN, foreign : BOOLEAN]
    <3> DEFINE made == O.made + 1
               linked == O.linked \cup {O.made}
    <3>1. made \in 0 .. MaxOrb /\ linked \in SUBSET Nat /\ O1 = [O EXCEPT !.made = made, !.linked = linked]
        BY <1>2, <2>1, AgAssumption
    <3> HIDE DEF made, linked
    <3>2. /\ O1.made = made /\ O1.linked = linked /\ O1.served = O.served
          /\ O1.twice = O.twice /\ O1.foreign = O.foreign
          /\ O1 \in [made : 0 .. MaxOrb, linked : SUBSET Nat, served : SUBSET Nat,
                     twice : BOOLEAN, foreign : BOOLEAN]
        BY <1>2, <3>1
    <3> HIDE DEF O1
    <3>3. QED
        BY <3>1, <3>2 DEF made, linked
  <2>3. OrbsOk(O1)
      BY <1>1, <1>2, <2>1, <2>2 DEF OrbsOk
  <2>4. CASE A.state # "suspended"
    <3>1. agent' = A
        BY <2>1, <2>4
    <3>2. AgentOk(A, O1)
        BY <1>1, <1>2, <2>2 DEF AgentOk, ActiveOk, AgentType
    <3>3. AgTypes'
        BY <1>1, <1>2, <2>1, <2>2, <3>1 DEF AgTypes
    <3>4. FetchedOne'
        BY <1>5, <3>1
    <3>5. QED
        BY <1>1, <1>4, <2>1, <2>2, <2>3, <3>1, <3>2, <3>3, <3>4 DEF AgInv
  <2>5. CASE A.state = "suspended"
    <3>1. /\ A1 \in AgentType /\ A1.state = "active" /\ A1.orb_pointer = A.orb_pointer
          /\ A1.next = A.next /\ A1.doorbell /\ A1.skip = A.skip
          /\ A1.work = (IF A.work = "idle" THEN "queued" ELSE A.work)
          /\ A1.again = again
      <4>1. again \in BOOLEAN
          BY <1>2 DEF AgentType
      <4> HIDE DEF again
      <4>2. QED
          BY <1>2, <4>1 DEF AgentType
    <3>2. A.work = "idle" \/ (A.work = "fetching" /\ A.next = 0)
        BY <1>1, <2>5 DEF AgentOk
    <3>3. AgentOk(A1, O1)
      <4>1. /\ again => A.work # "idle"
            /\ A.work # "idle" => again
          BY <1>1, <3>2 DEF AgentOk
      <4> HIDE DEF again, A1, O1
      <4>2. A.orb_pointer # 0 /\ A.orb_pointer <= O.made
          BY <1>1, <2>5 DEF AgentOk
      <4>3. A1.orb_pointer <= O1.made
          BY <1>2, <2>2, <3>1, <4>2 DEF AgentType
      <4>4. \A k \in O1.served : k <= A1.orb_pointer
          BY <1>1, <2>2, <3>1, <4>2 DEF AgentOk
      <4>5. ActiveOk(A1, O1)
          BY <2>2, <3>1, <3>2, <4>1, <4>2 DEF ActiveOk
      <4>6. QED
          BY <3>1, <3>2, <4>1, <4>3, <4>4, <4>5 DEF AgentOk
    <3>4. AgTypes'
        BY <1>1, <1>2, <2>1, <2>2, <2>5, <3>1 DEF AgTypes
    <3>5. FetchedOne'
        BY <1>1, <2>1, <2>5, <3>1, <3>2 DEF FetchedOne
    <3>6. QED
        BY <1>1, <1>4, <2>1, <2>2, <2>3, <2>5, <3>3, <3>4, <3>5 DEF AgInv
  <2>6. QED
      BY <2>4, <2>5
<1>9. QED
    BY <1>3, <1>6, <1>7, <1>8 DEF AgentWrite

\* The request of a tag changes; it is not the one that the fetch work has in hand.
LEMMA RequestsKeep ==
    ASSUME AgInv, agRace = "none", NEW t \in Tag, RequestStep(t)
    PROVE  AgInv'
<1>1. /\ AgTypes /\ SessionKnows /\ StatusGoesHome /\ ~agOrbs.foreign
      /\ (~agSess.live => agent.work = "idle")
      /\ OrbsOk(agOrbs) /\ AgentOk(agent, agOrbs) /\ FetchedOne
      /\ UNCHANGED <<agGen, agSess, agent, agRace>>
    BY DEF AgInv, RequestStep
<1>2. /\ agReq \in [Tag -> ReqType] /\ agReq[t] \in ReqType /\ NoReq \in ReqType
      /\ agSess.gen \in Nat /\ agSess.node \in -1 .. 1
    BY <1>1, ResetAgent DEF AgTypes
<1>3. PICK R \in ReqType :
          /\ agReq' = [agReq EXCEPT ![t] = R]
          /\ R.st # "fetched" /\ agReq[t].st # "fetched"
          /\ R.st = "sending" => R.node \in {-1, OwnerNode(R.gen)}
  <2>1. CASE \E s \in {"core", "status"} : agReq' = [agReq EXCEPT ![t].st = s] /\ agReq[t].st # "fetched"
    <3>1. PICK s \in {"core", "status"} : agReq' = [agReq EXCEPT ![t].st = s] /\ agReq[t].st # "fetched"
        BY <2>1
    <3> DEFINE R == [agReq[t] EXCEPT !.st = s]
    <3>2. R \in ReqType /\ R.st = s /\ agReq' = [agReq EXCEPT ![t] = R]
        BY <1>2, <3>1 DEF ReqType
    <3>3. QED
        BY <3>1, <3>2
  <2>2. CASE agReq' = [agReq EXCEPT ![t] = [NoReq EXCEPT !.st = "leaked"]] /\ agReq[t].st # "fetched"
    <3> DEFINE R == [NoReq EXCEPT !.st = "leaked"]
    <3>1. R \in ReqType /\ R.st = "leaked"
        BY <1>2 DEF ReqType
    <3>2. QED
        BY <2>2, <3>1
  <2>3. CASE agReq' = [agReq EXCEPT ![t] = NoReq] /\ agReq[t].st # "fetched"
      BY <1>2, <2>3 DEF NoReq
  <2>4. CASE sbp_run_request_transaction(t)
    <3> DEFINE R == [agReq[t] EXCEPT !.st = "sending", !.gen = agSess.gen, !.node = agSess.node]
    <3>1. /\ R \in ReqType /\ R.st = "sending" /\ R.gen = agSess.gen /\ R.node = agSess.node
        BY <1>2 DEF ReqType
    <3>2. agReq' = [agReq EXCEPT ![t] = R] /\ agReq[t].st # "fetched" /\ ~agSess.updating
        BY <1>2, <2>4 DEF sbp_run_request_transaction
    <3>3. QED
        BY <1>1, <3>1, <3>2 DEF SessionKnows
  <2>5. QED
      BY <2>1, <2>2, <2>3, <2>4 DEF RequestStep, sbp_handle_command, tgt_agent_process_work,
         sbp_queue_status, sbp_send_status
<1>4. agOrbs' = agOrbs
  <2>1. CASE sbp_send_status(t)
    <3>1. agReq[t].node \in {-1, OwnerNode(agReq[t].gen)}
        BY <1>1, <2>1 DEF StatusGoesHome, sbp_send_status
    <3>2. \/ agOrbs' = agOrbs
          \/ /\ agReq[t].gen = agGen /\ agReq[t].node # -1
             /\ agOrbs' = [agOrbs EXCEPT !.foreign = @ \/ agReq[t].node # OwnerNode(agGen)]
        BY <2>1 DEF sbp_send_status
    <3> DEFINE foreign == agOrbs.foreign \/ agReq[t].node # OwnerNode(agGen)
    <3>3. CASE agReq[t].gen = agGen /\ agReq[t].node # -1 /\ agOrbs' = [agOrbs EXCEPT !.foreign = foreign]
      <4>1. foreign = FALSE /\ agOrbs.foreign = FALSE
          BY <1>1, <3>1, <3>3 DEF AgTypes
      <4> HIDE DEF foreign
      <4>2. QED
          BY <1>1, <3>3, <4>1 DEF AgTypes
    <3>4. QED
        BY <3>2, <3>3
  <2>2. QED
      BY <2>1 DEF RequestStep, sbp_handle_command, tgt_agent_process_work, sbp_queue_status,
         sbp_run_request_transaction
<1>5. /\ agReq' \in [Tag -> ReqType] /\ agReq'[t] = R
      /\ \A u \in Tag : u # t => agReq'[u] = agReq[u]
    BY <1>2, <1>3
<1>6. AgTypes' /\ SessionKnows'
    BY <1>1, <1>4, <1>5 DEF AgTypes, SessionKnows
<1>7. StatusGoesHome'
    BY <1>1, <1>3, <1>5 DEF StatusGoesHome
<1>8. FetchedOne'
    BY <1>1, <1>3, <1>5 DEF FetchedOne
<1>9. QED
    BY <1>1, <1>4, <1>6, <1>7, <1>8 DEF AgInv

\* A stop of the fetch work.
LEMMA Stops ==
    ASSUME NEW A \in AgentType, NEW state \in {A.state, "dead"}
    PROVE  LET B == Stopped([A EXCEPT !.state = state])
           IN  /\ B \in AgentType /\ B.state = state /\ B.orb_pointer = A.orb_pointer
               /\ B.work = (IF A.again THEN "queued" ELSE "idle") /\ B.doorbell = A.doorbell
               /\ B.next = 0 /\ ~B.again /\ ~B.skip
<1> DEFINE A1 == [A EXCEPT !.state = state]
           work == IF A1.again THEN "queued" ELSE "idle"
           B == [A1 EXCEPT !.work = work, !.again = FALSE, !.next = 0, !.skip = FALSE]
<1>1. /\ A1 \in AgentType /\ A1.state = state /\ A1.orb_pointer = A.orb_pointer
      /\ A1.again = A.again /\ A1.doorbell = A.doorbell
    BY DEF AgentType
<1>2. B = Stopped([A EXCEPT !.state = state])
    BY DEF Stopped
<1>3. work \in {"idle", "queued"} /\ work = (IF A.again THEN "queued" ELSE "idle") /\ 0 \in 0 .. MaxOrb
    BY <1>1, AgAssumption
<1> HIDE DEF A1, work
<1>4. /\ B \in AgentType /\ B.state = A1.state /\ B.orb_pointer = A1.orb_pointer
      /\ B.work = work /\ B.doorbell = A1.doorbell
      /\ B.next = 0 /\ B.again = FALSE /\ B.skip = FALSE
    BY <1>1, <1>3 DEF AgentType
<1> HIDE DEF B
<1>5. QED
    BY <1>1, <1>2, <1>3, <1>4

\* The fetch work starts at the pointer.
LEMMA FetchStartKeeps ==
    ASSUME AgInv, agRace = "none", tgt_agent_fetch_work, FetchStart
    PROVE  AgInv'
<1> DEFINE A == agent
           A1 == [A EXCEPT !.work = "fetching", !.next = A.orb_pointer, !.skip = A.doorbell]
<1>1. /\ AgTypes /\ SessionKnows /\ StatusGoesHome /\ ~agOrbs.foreign
      /\ (~agSess.live => agent.work = "idle") /\ A.work = "queued"
      /\ OrbsOk(agOrbs) /\ AgentOk(agent, agOrbs) /\ FetchedOne
      /\ UNCHANGED <<agGen, agSess, agOrbs, agReq, agRace>> /\ agent' = A1
    BY DEF AgInv, FetchStart, tgt_agent_fetch_work
<1>2. A \in AgentType
    BY <1>1 DEF AgTypes
<1>3. /\ A1 \in AgentType /\ A1.work = "fetching" /\ A1.next = A.orb_pointer /\ A1.skip = A.doorbell
      /\ A1.state = A.state /\ A1.again = A.again /\ A1.orb_pointer = A.orb_pointer
    BY <1>2 DEF AgentType
<1> HIDE DEF A1
<1>4. AgTypes' /\ SessionKnows' /\ StatusGoesHome'
    BY <1>1, <1>3 DEF AgTypes, SessionKnows, StatusGoesHome
<1>5. AgentOk(A1, agOrbs)
    BY <1>1, <1>3 DEF AgentOk, ActiveOk
<1>6. FetchedOne'
    BY <1>1, <1>3 DEF FetchedOne
<1>7. QED
    BY <1>1, <1>4, <1>5, <1>6 DEF AgInv

\* A round of the fetch work: it stops, fails, or has an ORB in hand.
LEMMA FetchOrbKeeps ==
    ASSUME AgInv, agRace = "none", tgt_agent_fetch_work, FetchOrb
    PROVE  AgInv'
<1> DEFINE A == agent
<1>1. /\ AgTypes /\ SessionKnows /\ StatusGoesHome /\ ~agOrbs.foreign
      /\ (~agSess.live => agent.work = "idle") /\ A.work = "fetching"
      /\ OrbsOk(agOrbs) /\ AgentOk(agent, agOrbs) /\ FetchedOne
      /\ UNCHANGED <<agGen, agSess, agOrbs>>
    BY DEF AgInv, FetchOrb, tgt_agent_fetch_work
<1>2. /\ A \in AgentType /\ agReq \in [Tag -> ReqType] /\ NoReq \in ReqType
      /\ agRace \in {"none", "login", "torn", "reset"} /\ SessionKnows'
      /\ \A t \in Tag : agReq[t].st # "fetched"
    BY <1>1, ResetAgent DEF AgTypes, FetchedOne, SessionKnows
\* The work stops, and may have lost a request.
<1>3. ASSUME NEW state \in {A.state, "dead"}, agent' = Stopped([A EXCEPT !.state = state]),
             state = A.state => A.next = 0 \/ A.state # "active",
             agReq' \in [Tag -> ReqType], agRace' = agRace,
             \A t \in Tag : agReq'[t] = agReq[t] \/ agReq'[t].st = "leaked"
      PROVE  AgInv'
  <2> DEFINE A1 == Stopped([A EXCEPT !.state = state])
  <2>1. /\ A1 \in AgentType /\ A1.state = state /\ A1.orb_pointer = A.orb_pointer
        /\ A1.work = (IF A.again THEN "queued" ELSE "idle") /\ A1.doorbell = A.doorbell
        /\ A1.next = 0 /\ ~A1.again /\ ~A1.skip
      BY <1>2, Stops
  <2> HIDE DEF A1
  <2>2. agent' = A1
      BY <1>3 DEF A1
  <2>3. AgTypes'
      BY <1>1, <1>2, <1>3, <2>1, <2>2 DEF AgTypes
  <2>4. StatusGoesHome'
      BY <1>1, <1>3 DEF StatusGoesHome
  <2>5. FetchedOne'
      BY <1>2, <1>3, <2>1, <2>2 DEF FetchedOne
  <2>6. AgentOk(A1, agOrbs)
    <3>1. CASE state = A.state
      <4>1. state = "active" => A.again /\ A.doorbell /\ A.orb_pointer # 0
          BY <1>1, <1>3, <3>1 DEF AgentOk, ActiveOk
      <4>2. state = "suspended" => A.orb_pointer # 0 /\ ~A.again
          BY <1>1, <3>1 DEF AgentOk
      <4>3. /\ A.orb_pointer <= agOrbs.made
            /\ A.orb_pointer # 0 => \A k \in agOrbs.served : k <= A.orb_pointer
          BY <1>1 DEF AgentOk
      <4>4. state = "active" => ActiveOk(A1, agOrbs)
          BY <2>1, <4>1 DEF ActiveOk
      <4> HIDE DEF A
      <4>5. QED
          BY <2>1, <4>2, <4>3, <4>4 DEF AgentOk
    <3>2. CASE state = "dead"
        BY <1>1, <2>1, <3>2 DEF AgentOk
    <3>3. QED
        BY <3>1, <3>2
  <2>7. agSess'.live \/ agent'.work = "idle"
      BY <1>1
  <2>8. QED
      BY <1>1, <1>2, <1>3, <2>2, <2>3, <2>4, <2>5, <2>6, <2>7 DEF AgInv
<1>4. CASE (A.next = 0 \/ ~tgt_agent_check_active) /\ agent' = Stopped(agent)
           /\ UNCHANGED <<agReq, agRace>>
  <2>1. agent = [A EXCEPT !.state = A.state]
      BY <1>2 DEF AgentType
  <2>2. agent' = Stopped([A EXCEPT !.state = A.state])
      BY <1>4, <2>1
  <2>3. A.next = 0 \/ A.state # "active"
      BY <1>4 DEF tgt_agent_check_active
  <2>4. QED
      BY <1>2, <1>3, <1>4, <2>2, <2>3
<1>5. CASE A.next # 0 /\ tgt_agent_check_active /\ FreeTags = {}
           /\ agent' = Stopped([agent EXCEPT !.state = "dead"]) /\ UNCHANGED <<agReq, agRace>>
  <2>1. A.state # "dead"
      BY <1>5 DEF tgt_agent_check_active
  <2>2. QED
      BY <1>2, <1>3, <1>5, <2>1
<1>6. ASSUME NEW t \in Tag, A.next # 0, tgt_agent_check_active,
             agReq' = [agReq EXCEPT ![t] = [NoReq EXCEPT !.st = "leaked"]],
             agent' = Stopped([agent EXCEPT !.state = "dead"]), UNCHANGED agRace
      PROVE  AgInv'
  <2> DEFINE R == [NoReq EXCEPT !.st = "leaked"]
  <2>1. R \in ReqType /\ R.st = "leaked"
      BY <1>2 DEF ReqType
  <2> HIDE DEF R
  <2>2. agReq' = [agReq EXCEPT ![t] = R]
      BY <1>6 DEF R
  <2>3. /\ agReq' \in [Tag -> ReqType]
        /\ \A u \in Tag : agReq'[u] = agReq[u] \/ agReq'[u].st = "leaked"
      BY <1>2, <2>1, <2>2
  <2>4. A.state # "dead"
      BY <1>6 DEF tgt_agent_check_active
  <2>5. QED
      BY <1>3, <1>6, <2>3, <2>4
<1>7. ASSUME NEW t \in Tag, A.next # 0, tgt_agent_check_active,
             agReq' = [agReq EXCEPT ![t] = [NoReq EXCEPT !.st = "fetched", !.orb = A.next]],
             agent' = [A EXCEPT !.work = "fetched"],
             IF agSess.node # OwnerNode(agGen) THEN AgRace("torn") ELSE UNCHANGED agRace
      PROVE  AgInv'
  <2> DEFINE R == [NoReq EXCEPT !.st = "fetched", !.orb = A.next]
             A1 == [A EXCEPT !.work = "fetched"]
  <2>1. R \in ReqType /\ R.st = "fetched" /\ R.orb = A.next
    <3> DEFINE orb == A.next
    <3>1. orb \in Nat
        BY <1>2, AgAssumption DEF AgentType
    <3>2. R = [NoReq EXCEPT !.st = "fetched", !.orb = orb]
        OBVIOUS
    <3> HIDE DEF orb, R
    <3>3. R \in ReqType /\ R.st = "fetched" /\ R.orb = orb
        BY <1>2, <3>1, <3>2 DEF ReqType
    <3>4. QED
        BY <3>3 DEF orb
  <2>2. /\ A1 \in AgentType /\ A1.work = "fetched" /\ A1.next = A.next /\ A1.state = A.state
        /\ A1.orb_pointer = A.orb_pointer /\ A1.again = A.again /\ A1.skip = A.skip
        /\ A1.doorbell = A.doorbell
      BY <1>2 DEF AgentType
  <2>3. agReq' = [agReq EXCEPT ![t] = R] /\ agent' = A1
      BY <1>7
  <2> HIDE DEF R, A1
  <2>4. /\ agReq' \in [Tag -> ReqType] /\ agReq'[t] = R
        /\ \A u \in Tag : u # t => agReq'[u] = agReq[u]
      BY <1>2, <2>1, <2>3
  <2>5. AgTypes'
      BY <1>1, <1>2, <1>7, <2>2, <2>3, <2>4 DEF AgTypes, AgRace
  <2>6. StatusGoesHome'
      BY <1>1, <2>1, <2>4 DEF StatusGoesHome
  <2>7. FetchedOne'
      BY <1>2, <2>1, <2>2, <2>3, <2>4 DEF FetchedOne
  <2>8. AgentOk(A1, agOrbs)
    <3>1. A.state = "active"
        BY <1>7 DEF tgt_agent_check_active
    <3>2. QED
        BY <1>1, <1>7, <2>2, <3>1 DEF AgentOk, ActiveOk
  <2>9. QED
      BY <1>1, <1>2, <2>3, <2>5, <2>6, <2>7, <2>8 DEF AgInv
<1>8. QED
    BY <1>4, <1>5, <1>6, <1>7 DEF FetchOrb

\* The ORB in hand is handed on, and the work goes to its next one.
LEMMA OrbFetchedKeeps ==
    ASSUME AgInv, agRace = "none", tgt_agent_fetch_work, OrbFetched
    PROVE  AgInv'
<1> DEFINE A == agent
           O == agOrbs
<1>1. /\ AgTypes /\ SessionKnows /\ StatusGoesHome /\ ~O.foreign
      /\ (~agSess.live => agent.work = "idle") /\ A.work = "fetched" /\ Processed
      /\ OrbsOk(O) /\ AgentOk(A, O) /\ FetchedOne
      /\ UNCHANGED <<agGen, agSess, agRace>>
    BY DEF AgInv, OrbFetched, tgt_agent_fetch_work
<1>2. /\ A \in AgentType /\ agReq \in [Tag -> ReqType] /\ NoReq \in ReqType
      /\ O \in [made : 0 .. MaxOrb, linked : SUBSET Nat, served : SUBSET Nat,
                twice : BOOLEAN, foreign : BOOLEAN]
      /\ A.next \in 0 .. MaxOrb /\ O.made \in 0 .. MaxOrb
    BY <1>1, ResetAgent DEF AgTypes, AgentType
<1>3. PICK t \in Tag :
          /\ agReq[t].st = "fetched"
          /\ LET orb == agReq[t].orb
                 more == orb \in agOrbs.linked
             IN /\ agReq' = [agReq EXCEPT ![t].st = "work"]
                /\ agOrbs' = [agOrbs EXCEPT !.served = @ \cup {orb},
                                            !.twice = @ \/ orb \in agOrbs.served]
                /\ agent' = [agent EXCEPT
                                !.work = "fetching", !.next = IF more THEN orb + 1 ELSE 0,
                                !.skip = FALSE, !.doorbell = FALSE,
                                !.orb_pointer = IF more THEN orb + 1 ELSE @,
                                !.state = IF more THEN @ ELSE "suspended"]
    BY DEF OrbFetched
<1> DEFINE orb == A.next
           more == orb \in O.linked
           next == IF more THEN orb + 1 ELSE 0
           pointer == IF more THEN orb + 1 ELSE A.orb_pointer
           state == IF more THEN A.state ELSE "suspended"
           A1 == [A EXCEPT !.work = "fetching", !.next = next, !.skip = FALSE, !.doorbell = FALSE,
                           !.orb_pointer = pointer, !.state = state]
           R == [agReq[t] EXCEPT !.st = "work"]
\* The ORB is the one that the pointer names, and is served for the first time.
<1>4. /\ agReq[t].orb = orb /\ orb # 0 /\ A.orb_pointer = orb /\ orb <= O.made
      /\ \A k \in O.served : k <= orb
      /\ ~A.again /\ A.state # "suspended"
      /\ orb \notin O.served
    BY <1>1, <1>3 DEF FetchedOne, AgentOk, ActiveOk, Processed, tgt_agent_check_active
<1>5. more => orb + 1 <= O.made
    BY <1>1, <1>2 DEF OrbsOk
<1>6. next \in 0 .. MaxOrb /\ pointer \in 0 .. MaxOrb /\ state \in {"reset", "active", "suspended", "dead"}
    BY <1>2, <1>4, <1>5, AgAssumption DEF AgentType
<1>7. agent' = A1 /\ agReq' = [agReq EXCEPT ![t] = R]
    BY <1>2, <1>3, <1>4
<1>8. /\ R \in ReqType /\ R.st = "work"
    BY <1>2 DEF ReqType
<1>9. /\ agReq' \in [Tag -> ReqType] /\ agReq'[t] = R
      /\ \A u \in Tag : u # t => agReq'[u] = agReq[u]
  <2> HIDE DEF R
  <2>1. QED
      BY <1>2, <1>7, <1>8
<1>10. /\ A1 \in AgentType /\ A1.work = "fetching" /\ A1.next = next /\ ~A1.skip /\ ~A1.doorbell
       /\ A1.orb_pointer = pointer /\ A1.state = state /\ A1.again = A.again
  <2> HIDE DEF next, pointer, state
  <2>1. QED
      BY <1>2, <1>6 DEF AgentType
<1>11. /\ agOrbs' \in [made : 0 .. MaxOrb, linked : SUBSET Nat, served : SUBSET Nat,
                       twice : BOOLEAN, foreign : BOOLEAN]
       /\ agOrbs'.made = O.made /\ agOrbs'.linked = O.linked /\ agOrbs'.foreign = O.foreign
       /\ ~agOrbs'.twice
       /\ agOrbs'.served = O.served \cup {orb}
  <2> DEFINE served == O.served \cup {orb}
             twice == O.twice \/ orb \in O.served
  <2>1. served \in SUBSET Nat /\ twice = FALSE
      BY <1>1, <1>2, <1>4 DEF OrbsOk
  <2>2. agOrbs' = [O EXCEPT !.served = served, !.twice = twice]
      BY <1>3, <1>4
  <2> HIDE DEF served, twice
  <2>3. /\ agOrbs' \in [made : 0 .. MaxOrb, linked : SUBSET Nat, served : SUBSET Nat,
                        twice : BOOLEAN, foreign : BOOLEAN]
        /\ agOrbs'.made = O.made /\ agOrbs'.linked = O.linked /\ agOrbs'.foreign = O.foreign
        /\ agOrbs'.twice = FALSE /\ agOrbs'.served = served
      BY <1>2, <2>1, <2>2
  <2>4. QED
      BY <2>3 DEF served
<1> HIDE DEF A1, R
<1>12. AgTypes' /\ SessionKnows'
    BY <1>1, <1>7, <1>9, <1>10, <1>11 DEF AgTypes, SessionKnows
<1>13. StatusGoesHome'
    BY <1>1, <1>8, <1>9 DEF StatusGoesHome
<1>14. FetchedOne'
  <2>1. \A u \in Tag : agReq'[u].st # "fetched"
      BY <1>1, <1>3, <1>8, <1>9 DEF FetchedOne
  <2>2. agent'.work = "fetching"
      BY <1>7, <1>10
  <2>3. QED
      BY <2>1, <2>2 DEF FetchedOne
<1>15. OrbsOk(agOrbs)'
    BY <1>1, <1>2, <1>4, <1>11 DEF OrbsOk
<1>16. AgentOk(A1, agOrbs')
  <2>1. \A k \in agOrbs'.served : k <= orb
      BY <1>2, <1>4, <1>11
  <2>2. pointer <= O.made /\ \A k \in agOrbs'.served : k <= pointer
    <3>1. \A k \in agOrbs'.served : k \in Nat
        BY <1>11
    <3>2. QED
        BY <1>2, <1>4, <1>5, <2>1, <3>1
  <2>3. CASE more
    <3>1. pointer = orb + 1 /\ next = orb + 1 /\ pointer \notin agOrbs'.served /\ pointer # 0
          /\ state = A.state
        BY <1>2, <2>1, <2>3
    <3>2. QED
        BY <1>4, <1>10, <1>11, <2>2, <3>1 DEF AgentOk, ActiveOk
  <2>4. CASE ~more
    <3>1. next = 0 /\ state = "suspended" /\ pointer = orb
        BY <1>4, <2>4
    <3>2. QED
        BY <1>4, <1>10, <1>11, <2>2, <3>1 DEF AgentOk
  <2>5. QED
      BY <2>3, <2>4
<1>17. QED
    BY <1>1, <1>7, <1>11, <1>12, <1>13, <1>14, <1>15, <1>16 DEF AgInv

\* An ORB that is not processed ends the fetch work for good.
LEMMA OrbDroppedKeeps ==
    ASSUME AgInv, agRace = "none", tgt_agent_fetch_work, OrbDropped
    PROVE  AgInv'
<1> DEFINE A == agent
           A1 == [A EXCEPT !.work = "oops"]
           R == [NoReq EXCEPT !.st = "leaked"]
<1>1. /\ AgTypes /\ SessionKnows /\ StatusGoesHome /\ ~agOrbs.foreign
      /\ (~agSess.live => agent.work = "idle") /\ A.work = "fetched"
      /\ OrbsOk(agOrbs) /\ AgentOk(A, agOrbs) /\ FetchedOne
      /\ UNCHANGED <<agGen, agSess, agOrbs, agRace>> /\ agent' = A1
    BY DEF AgInv, OrbDropped, tgt_agent_fetch_work
<1>2. PICK t \in Tag : agReq[t].st = "fetched" /\ agReq' = [agReq EXCEPT ![t] = R]
    BY DEF OrbDropped
<1>3. A \in AgentType /\ agReq \in [Tag -> ReqType] /\ NoReq \in ReqType
    BY <1>1, ResetAgent DEF AgTypes
<1>4. R \in ReqType /\ R.st = "leaked"
    BY <1>3 DEF ReqType
<1> HIDE DEF R
<1>5. /\ agReq' \in [Tag -> ReqType] /\ agReq'[t] = R
      /\ \A u \in Tag : u # t => agReq'[u] = agReq[u]
    BY <1>2, <1>3, <1>4
<1>6. /\ A1 \in AgentType /\ A1.work = "oops" /\ A1.state = A.state
      /\ A1.again = A.again /\ A1.orb_pointer = A.orb_pointer
    BY <1>3 DEF AgentType
<1> HIDE DEF A1
<1>7. AgTypes' /\ SessionKnows'
    BY <1>1, <1>5, <1>6 DEF AgTypes, SessionKnows
<1>8. StatusGoesHome'
    BY <1>1, <1>4, <1>5 DEF StatusGoesHome
<1>9. AgentOk(A1, agOrbs)
    BY <1>1, <1>6 DEF AgentOk, ActiveOk
<1>10. FetchedOne'
  <2>1. \A u \in Tag : agReq'[u].st # "fetched"
      BY <1>1, <1>2, <1>4, <1>5 DEF FetchedOne
  <2>2. QED
      BY <1>1, <1>6, <2>1 DEF FetchedOne
<1>11. agSess'.live
    BY <1>1
<1>12. QED
    BY <1>1, <1>7, <1>8, <1>9, <1>10, <1>11 DEF AgInv

\* Every step of the agent.
LEMMA AgentNext == AgInv /\ [SbpAgentNext]_agvars => AgInv'
<1>1. CASE AgInv /\ UNCHANGED agvars
    BY <1>1 DEF agvars, AgInv, AgTypes, SessionKnows, StatusGoesHome, FetchedOne
<1>2. CASE AgInv /\ SbpAgentNext
    BY <1>2, SessionKeeps, WritesKeep, RequestsKeep, FetchStartKeeps, FetchOrbKeeps,
       OrbFetchedKeeps, OrbDroppedKeeps DEF SbpAgentNext, tgt_agent_fetch_work
<1>3. QED
    BY <1>1, <1>2

(* OrbsServedOnce: a command block agent obeys its owner only, sends its    *)
(* status blocks to it only and serves no ORB twice (tgt_agent_rw(),        *)
(* tgt_agent_fetch_work(), sbp_send_status() against reconnects), for any   *)
(* number of ORBs, tags and bus resets, up to the races in agRace.          *)
THEOREM OrbsServedCorrect == SbpAgentSpec => []OrbsServedOnce
<1>1. AgInv => OrbsServedOnce
  <2> SUFFICES ASSUME AgInv PROVE OrbsServedOnce
      OBVIOUS
  <2>1. SbpAgentTypeOK
      BY DEF AgInv, AgTypes, SbpAgentTypeOK, AgentType, ReqType
  <2>2. QED
      BY <2>1 DEF OrbsServedOnce, AgInv, OrbsOk, AgentOk, FetchedOne
<1>2. QED
    BY <1>1, AgentInit, AgentNext, PTL DEF SbpAgentSpec

(* TargetExact: both parts of the target keep what they promise.            *)
THEOREM TargetCorrect == SbpTargetSpec /\ SbpAgentSpec => []TargetExact
BY LoginsCorrect, OrbsServedCorrect, PTL DEF TargetExact
=============================================================================
