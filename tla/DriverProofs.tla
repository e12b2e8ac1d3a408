---------------------------- MODULE DriverProofs ----------------------------
(* Proofs about drivers of units: the transactions of SndFcp, the          *)
(* connections of SndCmp, the packet tasks of FwNetTx and the hwdep device *)
(* of SndHwdep.                                                            *)
EXTENDS SndFcp, SndCmp, FwNetTx, SndHwdep, FiniteSetTheorems, TLAPS

-----------------------------------------------------------------------------
(* SndFcp                                                                  *)

\* The types of struct fcp_transaction, of the frames and of what fcp_response() holds.
CallType ==
    [pc : {"idle", "write", "wait", "done"},
     state : {"pending", "bus reset", "complete", "deferred"},
     command : Command, tries : 0 .. FcpTries, by : {"none", "own", "alien", "race"}]
RxType == [frame : Frame, todo : SUBSET Call, eq : SUBSET Call, torn : BOOLEAN]
DevTyped ==
    /\ fcpGen \in 0 .. FcpMaxGen
    /\ fcpDev \in [gen : 0 .. FcpMaxGen, node : {0, 1}, next : 0 .. FcpMaxGen, update : BOOLEAN]
CallsTyped == fcp \in [Call -> CallType]
FramesTyped == \A f \in frames : f \in Frame
RxTyped == rx \in RxType /\ rx.eq \subseteq rx.todo
FcpTyped == DevTyped /\ CallsTyped /\ FramesTyped /\ RxTyped

\* struct fw_device may be behind the bus, but its node ID is that of the generation which
\* fw_node_event() has written or is about to write.
DeviceKnown == fcpDev.node = FcpNode("own", fcpDev.next)

\* If a generation was found equal and fw_node_event() did not interfere, the node ID to
\* be read next is the one of that generation.
NodeOfGeneration == rx.eq # {} => rx.torn = TRUE \/ fcpDev.next = rx.frame.gen

AnswersOwn == \A c \in Call : fcp[c].state = "complete" => fcp[c].by \in {"own", "race"}

\* The inductive invariant of ResponseFromUnit.
FcpInv == FcpTyped /\ DeviceKnown /\ NodeOfGeneration /\ AnswersOwn

LEMMA FcpNodeDiffers ==
    \A g \in Nat : /\ FcpNode("own", g) \in {0, 1}
                   /\ FcpNode("own", g) # FcpNode("alien", g)
BY DEF FcpNode

LEMMA NoCallTyped ==
    /\ NoCall.pc = "idle" /\ NoCall.state = "pending"
    /\ NoCall \in CallType
BY FcpAssumption DEF NoCall, CallType

LEMMA NoFrameTyped == NoFrame \in RxType /\ NoFrame.eq = {} /\ NoFrame.todo = {}
<1>1. [command |-> NoCall.command, interim |-> FALSE, from |-> "own", gen |-> 0] \in Frame
  <2>1. NoCall.command \in Command
      BY NoCallTyped DEF CallType
  <2>2. 0 \in 0 .. FcpMaxGen
      BY FcpAssumption
  <2>3. QED
      BY <2>1, <2>2 DEF Frame
<1>2. QED
    BY <1>1 DEF NoFrame, RxType

LEMMA SendsTyped == ASSUME NEW f \in Frame, Sends(f), FramesTyped PROVE FramesTyped'
BY DEF Sends, FramesTyped

\* What is left of fcp_response() after it has looked at a transaction.
LEMMA LookedTyped ==
    ASSUME NEW r \in RxType, r.eq = {} PROVE Looked(r) \in RxType /\ Looked(r).eq = {}
BY NoFrameTyped DEF Looked

\* A step of a caller that leaves the transactions typed and completes none.
LEMMA CallerStep ==
    ASSUME FcpInv, NEW c \in Call, NEW u \in CallType, fcp' = [fcp EXCEPT ![c] = u],
           u.state = "complete" => fcp[c].state = "complete" /\ u.by = fcp[c].by,
           UNCHANGED <<fcpGen, fcpDev, rx>>, FramesTyped'
    PROVE  FcpInv'
<1>1. CallsTyped'
    BY DEF FcpInv, FcpTyped, CallsTyped
<1>2. AnswersOwn'
  <2>1. \A d \in Call : fcp'[d] = IF d = c THEN u ELSE fcp[d]
      BY DEF FcpInv, FcpTyped, CallsTyped
  <2>2. QED
      BY <2>1 DEF FcpInv, AnswersOwn
<1>3. DevTyped' /\ RxTyped' /\ DeviceKnown' /\ NodeOfGeneration'
    BY DEF FcpInv, FcpTyped, DevTyped, RxTyped, DeviceKnown, NodeOfGeneration
<1>4. QED
    BY <1>1, <1>2, <1>3 DEF FcpInv, FcpTyped

LEMMA FcpStart == SndFcpInit => FcpInv
<1> SUFFICES ASSUME SndFcpInit PROVE FcpInv
    OBVIOUS
<1>1. DevTyped
    BY FcpNodeDiffers, FcpAssumption DEF SndFcpInit, DevTyped
<1>2. CallsTyped /\ FramesTyped
    BY NoCallTyped DEF SndFcpInit, CallsTyped, FramesTyped
<1>3. RxTyped /\ NodeOfGeneration
    BY NoFrameTyped DEF SndFcpInit, RxTyped, NodeOfGeneration
<1>4. DeviceKnown
    BY DEF SndFcpInit, DeviceKnown
<1>5. AnswersOwn
    BY NoCallTyped DEF SndFcpInit, AnswersOwn
<1>6. QED
    BY <1>1, <1>2, <1>3, <1>4, <1>5 DEF FcpInv, FcpTyped

LEMMA FcpStep == FcpInv /\ [SndFcpNext]_fcpvars => FcpInv'
<1> SUFFICES ASSUME FcpInv, [SndFcpNext]_fcpvars PROVE FcpInv'
    OBVIOUS
<1> USE FcpAssumption
<1>0. /\ DevTyped /\ CallsTyped /\ FramesTyped /\ RxTyped
      /\ DeviceKnown /\ NodeOfGeneration /\ AnswersOwn
    BY DEF FcpInv, FcpTyped
<1>a. \A c \in Call : fcp[c] \in CallType
    BY <1>0 DEF CallsTyped
<1>b. UNCHANGED frames => FramesTyped'
    BY <1>0 DEF FramesTyped
<1>c. UNCHANGED <<fcp, frames>> => CallsTyped' /\ FramesTyped' /\ AnswersOwn'
    BY <1>0 DEF CallsTyped, FramesTyped, AnswersOwn
<1>d. UNCHANGED <<fcpGen, fcpDev>> => DevTyped' /\ DeviceKnown'
    BY <1>0 DEF DevTyped, DeviceKnown
<1>1. ASSUME NEW c \in Call, NEW k \in Command, fcp_avc_transaction(c, k) PROVE FcpInv'
  <2>1. [NoCall EXCEPT !.pc = "write", !.command = k] \in CallType
      BY NoCallTyped DEF CallType
  <2>2. [NoCall EXCEPT !.pc = "write", !.command = k].state = "pending"
      BY NoCallTyped DEF CallType
  <2>3. QED
      BY <1>1, <1>b, <2>1, <2>2, CallerStep DEF fcp_avc_transaction
<1>2. ASSUME NEW c \in Call, WriteCommand(c) PROVE FcpInv'
  <2>1. PICK p \in {"wait", "done"}, n \in {0, fcp[c].tries} :
           fcp' = [fcp EXCEPT ![c] = [fcp[c] EXCEPT !.pc = p, !.tries = n]]
    <3>1. fcp[c] \in CallType /\ fcp \in [Call -> CallType]
        BY <1>0, <1>a DEF CallsTyped
    <3>2. CASE fcp' = [fcp EXCEPT ![c].pc = "wait"]
      <4>1. [fcp[c] EXCEPT !.pc = "wait"] = [fcp[c] EXCEPT !.pc = "wait", !.tries = fcp[c].tries]
          BY <3>1 DEF CallType
      <4>2. QED
          BY <3>1, <3>2, <4>1
    <3>3. CASE fcp' = [fcp EXCEPT ![c].pc = "done", ![c].tries = 0]
      <4>1. fcp' = [fcp EXCEPT ![c] = [fcp[c] EXCEPT !.pc = "done", !.tries = 0]]
          BY <3>1, <3>3
      <4>2. QED
          BY <4>1
    <3>4. QED
        BY <1>2, <3>2, <3>3 DEF WriteCommand
  <2>2. [fcp[c] EXCEPT !.pc = p, !.tries = n] \in CallType
    <3>1. 0 \in 0 .. FcpTries
        BY FcpAssumption
    <3>2. QED
        BY <1>a, <3>1 DEF CallType
  <2>3. /\ [fcp[c] EXCEPT !.pc = p, !.tries = n].state = fcp[c].state
        /\ [fcp[c] EXCEPT !.pc = p, !.tries = n].by = fcp[c].by
      BY <1>a DEF CallType
  <2>4. FramesTyped'
    <3>1. \A b \in BOOLEAN :
            [command |-> fcp[c].command, interim |-> b, from |-> "own", gen |-> fcpGen] \in Frame
        BY <1>0, <1>a DEF Frame, DevTyped, CallType
    <3>2. QED
        BY <1>2, <1>0, <3>1, SendsTyped DEF WriteCommand, FramesTyped
  <2>5. QED
      BY <1>2, <2>1, <2>2, <2>3, <2>4, CallerStep DEF WriteCommand
<1>3. ASSUME NEW c \in Call, FcpWoken(c) PROVE FcpInv'
  <2>1. PICK p \in {"wait", "done", "write"}, n \in 0 .. FcpTries,
             s \in {"pending", fcp[c].state} :
           fcp' = [fcp EXCEPT ![c] = [fcp[c] EXCEPT !.pc = p, !.tries = n, !.state = s]]
    <3>1. fcp[c] \in CallType /\ fcp \in [Call -> CallType] /\ fcp[c].tries \in 0 .. FcpTries
        BY <1>0, <1>a DEF CallsTyped, CallType
    <3>2. CASE fcp[c].pc = "wait" /\ fcp' = [fcp EXCEPT ![c].state = "pending"]
      <4>1. [fcp[c] EXCEPT !.state = "pending"] =
              [fcp[c] EXCEPT !.pc = "wait", !.tries = fcp[c].tries, !.state = "pending"]
          BY <3>1, <3>2 DEF CallType
      <4>2. QED
          BY <3>1, <3>2, <4>1
    <3>3. CASE fcp' = [fcp EXCEPT ![c].pc = "done", ![c].tries = 0]
      <4>1. [fcp[c] EXCEPT !.pc = "done", !.tries = 0] =
              [fcp[c] EXCEPT !.pc = "done", !.tries = 0, !.state = fcp[c].state]
          BY <3>1 DEF CallType
      <4>2. 0 \in 0 .. FcpTries
          OBVIOUS
      <4>3. fcp' = [fcp EXCEPT ![c] = [fcp[c] EXCEPT !.pc = "done", !.tries = 0]]
          BY <3>1, <3>3
      <4>4. QED
          BY <4>1, <4>2, <4>3
    <3>4. CASE fcp' = [fcp EXCEPT ![c].pc = "write"]
      <4>1. [fcp[c] EXCEPT !.pc = "write"] =
              [fcp[c] EXCEPT !.pc = "write", !.tries = fcp[c].tries, !.state = fcp[c].state]
          BY <3>1 DEF CallType
      <4>2. QED
          BY <3>1, <3>4, <4>1
    <3>5. CASE /\ fcp[c].tries + 1 < FcpTries
               /\ fcp' = [fcp EXCEPT ![c].pc = "write", ![c].tries = @ + 1]
      <4>1. [fcp[c] EXCEPT !.pc = "write", !.tries = fcp[c].tries + 1] =
              [fcp[c] EXCEPT !.pc = "write", !.tries = fcp[c].tries + 1, !.state = fcp[c].state]
          BY <3>1 DEF CallType
      <4>2. fcp[c].tries + 1 \in 0 .. FcpTries
          BY <3>1, <3>5
      <4>3. fcp' = [fcp EXCEPT ![c] = [fcp[c] EXCEPT !.pc = "write",
                                                     !.tries = fcp[c].tries + 1]]
          BY <3>1, <3>5
      <4>4. QED
          BY <4>1, <4>2, <4>3
    <3>6. QED
        BY <1>3, <3>2, <3>3, <3>4, <3>5 DEF FcpWoken
  <2>2. [fcp[c] EXCEPT !.pc = p, !.tries = n, !.state = s] \in CallType
      BY <1>a DEF CallType
  <2>3. /\ [fcp[c] EXCEPT !.pc = p, !.tries = n, !.state = s].state = s
        /\ [fcp[c] EXCEPT !.pc = p, !.tries = n, !.state = s].by = fcp[c].by
      BY <1>a DEF CallType
  <2>4. QED
      BY <1>3, <1>b, <2>1, <2>2, <2>3, CallerStep DEF FcpWoken
<1>4. ASSUME NEW c \in Call, CallReturns(c) PROVE FcpInv'
    BY <1>4, <1>b, NoCallTyped, CallerStep DEF CallReturns
<1>5. ASSUME NEW f \in frames, fcp_response(f) PROVE FcpInv'
  <2> DEFINE r == [NoFrame EXCEPT !.frame = f,
                     !.todo = {c \in Call : Listed(c) /\ is_matching_response(c, f)}]
  <2>1. r \in RxType /\ r.eq = {}
      BY <1>0, NoFrameTyped DEF RxType, FramesTyped
  <2>2. rx' = Looked(r)
      BY <1>5 DEF fcp_response
  <2> HIDE DEF r
  <2>3. RxTyped' /\ NodeOfGeneration'
      BY <2>1, <2>2, LookedTyped DEF RxTyped, NodeOfGeneration
  <2>4. FramesTyped' /\ CallsTyped' /\ AnswersOwn'
      BY <1>5, <1>0 DEF fcp_response, FramesTyped, CallsTyped, AnswersOwn
  <2>5. QED
      BY <1>5, <1>d, <2>3, <2>4 DEF fcp_response, FcpInv, FcpTyped
<1>6. ASSUME NEW c \in Call, GenerationRead(c) PROVE FcpInv'
  <2>1. RxTyped' /\ NodeOfGeneration'
    <3>1. CASE SameGeneration(rx.frame)
      <4>1. rx' = [rx EXCEPT !.eq = {c}, !.torn = (fcpDev.next # fcpDev.gen)]
          BY <1>6, <3>1 DEF GenerationRead
      <4>2. /\ rx' \in RxType /\ rx'.eq = {c} /\ rx'.todo = rx.todo /\ rx'.frame = rx.frame
            /\ rx'.torn = (fcpDev.next # fcpDev.gen)
          BY <1>0, <4>1 DEF RxTyped, RxType
      <4>3. UNCHANGED fcpDev /\ c \in rx.todo /\ fcpDev.gen = rx.frame.gen
          BY <1>6, <3>1 DEF GenerationRead, SameGeneration
      <4>4. RxTyped'
          BY <4>2, <4>3 DEF RxTyped
      <4>5. NodeOfGeneration'
          BY <4>2, <4>3 DEF NodeOfGeneration
      <4>6. QED
          BY <4>4, <4>5
    <3>2. CASE ~SameGeneration(rx.frame)
      <4>1. rx' = Looked([rx EXCEPT !.todo = @ \ {c}])
          BY <1>6, <3>2 DEF GenerationRead
      <4>2. [rx EXCEPT !.todo = @ \ {c}] \in RxType /\ [rx EXCEPT !.todo = @ \ {c}].eq = {}
          BY <1>6, <1>0 DEF GenerationRead, RxTyped, RxType
      <4>3. QED
          BY <4>1, <4>2, LookedTyped DEF RxTyped, NodeOfGeneration
    <3>3. QED
        BY <3>1, <3>2
  <2>2. QED
      BY <1>6, <1>c, <1>d, <2>1 DEF GenerationRead, FcpInv, FcpTyped
<1>7. ASSUME NEW c \in Call, NodeIdRead(c) PROVE FcpInv'
  <2>1. RxTyped' /\ NodeOfGeneration'
    <3>1. rx' = Looked([rx EXCEPT !.todo = @ \ {c}, !.eq = {}, !.torn = FALSE])
        BY <1>7 DEF NodeIdRead
    <3>2. /\ [rx EXCEPT !.todo = @ \ {c}, !.eq = {}, !.torn = FALSE] \in RxType
          /\ [rx EXCEPT !.todo = @ \ {c}, !.eq = {}, !.torn = FALSE].eq = {}
        BY <1>0 DEF RxTyped, RxType
    <3>3. QED
        BY <3>1, <3>2, LookedTyped DEF RxTyped, NodeOfGeneration
  <2>2. SameNode(rx.frame) => rx.torn = TRUE \/ rx.frame.from = "own"
    <3>1. rx.frame.from \in {"own", "alien"} /\ rx.frame.gen \in Nat
        BY <1>0 DEF RxTyped, RxType, Frame
    <3>2. rx.torn = TRUE \/ fcpDev.node = FcpNode("own", rx.frame.gen)
        BY <1>7, <1>0 DEF NodeIdRead, NodeOfGeneration, DeviceKnown
    <3>3. QED
        BY <3>1, <3>2, FcpNodeDiffers DEF SameNode
  <2>3. CallsTyped' /\ AnswersOwn'
    <3>1. CASE fcp' = fcp
        BY <1>0, <3>1 DEF CallsTyped, AnswersOwn
    <3>2. CASE fcp' = [fcp EXCEPT ![c].state = "deferred"]
      <4>1. [fcp[c] EXCEPT !.state = "deferred"] \in CallType
          BY <1>a DEF CallType
      <4>2. [fcp[c] EXCEPT !.state = "deferred"].state = "deferred"
          BY <1>a DEF CallType
      <4>3. \A d \in Call : fcp'[d] = IF d = c THEN [fcp[c] EXCEPT !.state = "deferred"]
                                      ELSE fcp[d]
          BY <1>0, <3>2 DEF CallsTyped
      <4>4. CallsTyped'
          BY <1>0, <3>2, <4>1 DEF CallsTyped
      <4>5. QED
          BY <1>0, <4>2, <4>3, <4>4 DEF AnswersOwn
    <3>3. ASSUME NEW b, b = IF rx.torn THEN "race" ELSE rx.frame.from, SameNode(rx.frame),
                 fcp' = [fcp EXCEPT ![c].state = "complete", ![c].by = b]
          PROVE  CallsTyped' /\ AnswersOwn'
      <4>1. b \in {"own", "race"}
          BY <2>2, <3>3
      <4>2. DEFINE u == [fcp[c] EXCEPT !.state = "complete", !.by = b]
      <4>3. u \in CallType /\ u.by = b
          BY <1>a, <4>1 DEF CallType
      <4>4. fcp' = [fcp EXCEPT ![c] = u]
          BY <1>0, <3>3 DEF CallsTyped
      <4> HIDE DEF u
      <4>5. \A d \in Call : fcp'[d] = IF d = c THEN u ELSE fcp[d]
          BY <1>0, <4>4 DEF CallsTyped
      <4>6. CallsTyped'
          BY <1>0, <4>3, <4>4 DEF CallsTyped
      <4>7. QED
          BY <1>0, <4>1, <4>3, <4>5, <4>6 DEF AnswersOwn
    <3>4. QED
        BY <1>7, <3>1, <3>2, <3>3 DEF NodeIdRead
  <2>4. QED
      BY <1>7, <1>b, <1>d, <2>1, <2>3 DEF NodeIdRead, FcpInv, FcpTyped
<1>8. CASE DeviceSends
  <2>1. FramesTyped'
    <3>1. PICK c \in Call, d \in {"own", "alien"} :
            Sends([command |-> fcp[c].command, interim |-> FALSE, from |-> d, gen |-> fcpGen])
        BY <1>8 DEF DeviceSends
    <3>2. [command |-> fcp[c].command, interim |-> FALSE, from |-> d, gen |-> fcpGen] \in Frame
        BY <1>0, <1>a DEF Frame, DevTyped, CallType
    <3>3. QED
        BY <1>0, <3>1, <3>2, SendsTyped
  <2>2. CallsTyped' /\ AnswersOwn' /\ RxTyped' /\ NodeOfGeneration'
      BY <1>8, <1>0 DEF DeviceSends, CallsTyped, AnswersOwn, RxTyped, NodeOfGeneration
  <2>3. QED
      BY <1>8, <1>d, <2>1, <2>2 DEF DeviceSends, FcpInv, FcpTyped
<1>9. CASE FcpBusReset
  <2>1. DevTyped' /\ DeviceKnown'
      BY <1>9, <1>0 DEF FcpBusReset, DevTyped, DeviceKnown
  <2>2. RxTyped' /\ NodeOfGeneration'
      BY <1>9, <1>0 DEF FcpBusReset, RxTyped, NodeOfGeneration
  <2>3. QED
      BY <1>9, <1>c, <2>1, <2>2 DEF FcpBusReset, FcpInv, FcpTyped
<1>10. CASE NodeIdWritten
  <2>1. fcpGen \in Nat /\ FcpNode("own", fcpGen) \in {0, 1}
      BY <1>0, FcpNodeDiffers DEF DevTyped
  <2>2. DevTyped' /\ DeviceKnown'
      BY <1>10, <1>0, <2>1 DEF NodeIdWritten, DevTyped, DeviceKnown
  <2>3. /\ rx' \in RxType /\ rx'.eq = rx.eq /\ rx'.todo = rx.todo
        /\ rx.eq # {} => rx'.torn = TRUE
      BY <1>10, <1>0 DEF NodeIdWritten, RxTyped, RxType
  <2>4. RxTyped' /\ NodeOfGeneration'
      BY <2>3, <1>0 DEF RxTyped, NodeOfGeneration
  <2>5. QED
      BY <1>10, <1>c, <2>2, <2>4 DEF NodeIdWritten, FcpInv, FcpTyped
<1>11. CASE GenerationWritten
  <2>1. DevTyped' /\ DeviceKnown' /\ fcpDev'.next = fcpDev.next
      BY <1>11, <1>0 DEF GenerationWritten, DevTyped, DeviceKnown
  <2>2. RxTyped' /\ NodeOfGeneration'
      BY <1>11, <1>0, <2>1 DEF GenerationWritten, RxTyped, NodeOfGeneration
  <2>3. QED
      BY <1>11, <1>c, <2>1, <2>2 DEF GenerationWritten, FcpInv, FcpTyped
<1>12. CASE fcp_bus_reset
  <2>1. DevTyped' /\ DeviceKnown' /\ fcpDev'.next = fcpDev.next
      BY <1>12, <1>0 DEF fcp_bus_reset, DevTyped, DeviceKnown
  <2>2. RxTyped' /\ NodeOfGeneration' /\ FramesTyped'
      BY <1>12, <1>0, <2>1 DEF fcp_bus_reset, RxTyped, NodeOfGeneration, FramesTyped
  <2>3. \A c \in Call : /\ [fcp[c] EXCEPT !.state = "bus reset"] \in CallType
                        /\ [fcp[c] EXCEPT !.state = "bus reset"].state = "bus reset"
      BY <1>a DEF CallType
  <2>4. /\ fcp' \in [Call -> CallType]
        /\ \A c \in Call : fcp'[c].state = "bus reset" \/ fcp'[c] = fcp[c]
      BY <1>12, <1>a, <2>3 DEF fcp_bus_reset
  <2>5. CallsTyped' /\ AnswersOwn'
      BY <1>0, <2>4 DEF CallsTyped, AnswersOwn
  <2>6. QED
      BY <2>1, <2>2, <2>5 DEF FcpInv, FcpTyped
<1>13. CASE UNCHANGED fcpvars
    BY <1>0, <1>c, <1>d, <1>13 DEF fcpvars, FcpInv, FcpTyped, RxTyped, NodeOfGeneration
<1>14. QED
    BY <1>1, <1>2, <1>3, <1>4, <1>5, <1>6, <1>7, <1>8, <1>9, <1>10, <1>11, <1>12, <1>13
    DEF SndFcpNext, CallStep, ResponseStep

\* A frame that completes a transaction was sent by the device of the unit, whenever bus
\* resets exchange node IDs and whenever the device structure learns of them, unless
\* fw_node_event() wrote the node ID between the reads of fcp_response(), or had written
\* it and not yet the generation; about fcp_response() and fcp_bus_reset().
THEOREM ResponsesFromUnit == SndFcpSpec => []ResponseFromUnit
<1>1. FcpInv => ResponseFromUnit
    BY DEF FcpInv, FcpTyped, CallsTyped, CallType, FramesTyped, AnswersOwn,
       RxTyped, RxType, ResponseFromUnit, SndFcpTypeOK
<1>2. QED
    BY <1>1, FcpStart, FcpStep, PTL DEF SndFcpSpec

-----------------------------------------------------------------------------
(* SndCmp                                                                  *)

PcrType == [online : BOOLEAN, used : BOOLEAN, ch : Chan \cup {0}]
PlugTyped == plug \in [pcr : PcrType, owner : {"nobody", "us", "other"}]
ResTyped ==
    /\ irmTaken \subseteq Chan
    /\ res \in [allocated : BOOLEAN, generation : 0 .. CmpMaxGen, channel : Chan \cup {0}]
ConnTyped ==
    conn \in [pc : {"idle", "allocate", "establish", "again", "break"}, connected : BOOLEAN,
              last : PcrType, arg : PcrType, cut : BOOLEAN, stolen : BOOLEAN]
CountTyped == cmpGen \in 0 .. CmpMaxGen /\ cmpLost \in Nat

\* A connection of the other controller shows in the register.
OtherShows == plug.owner = "other" => plug.pcr.used

\* What the operation that runs knows of the connection and of its resources.
ConnShape ==
    /\ res.generation <= cmpGen
    /\ conn.connected => res.allocated
    /\ conn.pc \in {"establish", "again"} => res.allocated /\ ~conn.connected
    /\ conn.pc = "allocate" => ~res.allocated
    /\ conn.pc = "break" => conn.connected
    /\ conn.pc = "again" => res.generation # cmpGen

\* pcr_modify() expects a plug in use only after its connection was cut off.
ValueShape ==
    /\ conn.last.used => conn.connected \/ conn.cut
    /\ conn.pc = "establish" /\ conn.arg.used => conn.cut
    /\ ~conn.stolen

\* Plug and IRM hold nothing of an earlier generation.
Follows ==
    cmpLost = 0 =>
        /\ conn.connected /\ res.generation = cmpGen => plug.owner = "us"
        /\ plug.owner = "us" => conn.connected /\ res.generation = cmpGen
        /\ irmTaken # {} =>
              res.allocated /\ irmTaken = {res.channel} /\ res.generation = cmpGen

CmpTyped == PlugTyped /\ ResTyped /\ ConnTyped /\ CountTyped

\* The inductive invariant of PlugFollowsConnection.
CmpInv == CmpTyped /\ OtherShows /\ ConnShape /\ ValueShape /\ Follows

LEMMA CmpStart == SndCmpInit => CmpInv
<1> SUFFICES ASSUME SndCmpInit PROVE CmpInv
    OBVIOUS
<1>1. CmpTyped
    BY CmpAssumption DEF SndCmpInit, CmpTyped, PlugTyped, ResTyped, ConnTyped, CountTyped,
       Unused, Pcr, PcrType
<1>2. OtherShows /\ ConnShape /\ ValueShape /\ Follows
    BY CmpAssumption DEF SndCmpInit, OtherShows, ConnShape, ValueShape, Follows, Unused, Pcr
<1>3. QED
    BY <1>1, <1>2 DEF CmpInv

LEMMA CmpStep == CmpInv /\ [SndCmpNext]_cmpvars => CmpInv'
<1> SUFFICES ASSUME CmpInv, [SndCmpNext]_cmpvars PROVE CmpInv'
    OBVIOUS
<1> USE CmpAssumption DEF CmpInv, CmpTyped
<1>1. ASSUME fw_iso_resources_allocate, UNCHANGED <<cmpGen, cmpOther>> PROVE CmpInv'
  <2>1. PlugTyped'
      BY <1>1 DEF fw_iso_resources_allocate, Managed, Available, Returns, PlugTyped,
         ConnTyped, ResTyped
  <2>2. ResTyped'
      BY ZenonT(30), <1>1 DEF fw_iso_resources_allocate, Managed, Available, Returns, ResTyped,
         CountTyped
  <2>3. ConnTyped'
      BY <1>1 DEF fw_iso_resources_allocate, Managed, Available, Returns, ConnTyped,
         PlugTyped, ResTyped
  <2>4. CountTyped'
      BY <1>1 DEF fw_iso_resources_allocate, Managed, Available, Returns, CountTyped
  <2>5. OtherShows'
      BY <1>1 DEF fw_iso_resources_allocate, Managed, Available, Returns, OtherShows,
         PlugTyped, ConnTyped
  <2>6. ConnShape'
    <3>1. CASE res' = [res EXCEPT !.generation = cmpGen] /\ UNCHANGED conn
      <4>1. conn.pc = "allocate" /\ cmpGen' = cmpGen /\ conn' = conn
          BY <1>1, <3>1 DEF fw_iso_resources_allocate
      <4>2. res'.allocated = res.allocated /\ res'.generation = cmpGen
          BY <3>1 DEF ResTyped
      <4>3. QED
          BY <4>1, <4>2 DEF ConnShape, CountTyped
    <3>2. CASE \E ch \in Managed : res' = [res EXCEPT !.allocated = TRUE, !.channel = ch]
                                   /\ conn' = [conn EXCEPT !.pc = "idle"]
        BY <1>1, <3>2 DEF ConnShape, ConnTyped, ResTyped, CountTyped
    <3>3. CASE conn' = [conn EXCEPT !.pc = "idle"] /\ UNCHANGED res
        BY <1>1, <3>3 DEF ConnShape, ConnTyped, ResTyped, CountTyped
    <3>4. QED
        BY <1>1, <3>1, <3>2, <3>3 DEF fw_iso_resources_allocate, Returns
  <2>7. ValueShape'
      BY <1>1 DEF fw_iso_resources_allocate, Managed, Available, Returns, ValueShape,
         ConnTyped, PlugTyped, ConnShape, OtherShows
  <2>8. Follows'
      BY ZenonT(30), <1>1 DEF fw_iso_resources_allocate, Managed, Available, Returns, Follows,
         ConnTyped, ResTyped, PlugTyped, CountTyped, ConnShape
  <2>9. QED
      BY <2>1, <2>2, <2>3, <2>4, <2>5, <2>6, <2>7, <2>8
<1>2. ASSUME pcr_modify, UNCHANGED <<cmpGen, cmpOther>> PROVE CmpInv'
  <2> DEFINE set == conn.pc = "establish"
             new == IF set THEN pcr_set_modify(conn.arg) ELSE pcr_break_modify(conn.arg)
             by == IF set THEN "us" ELSE "nobody"
             wins == set /\ plug.owner = "other" /\ ~conn.cut
  <2>1. /\ new \in PcrType /\ new.used = set
        /\ conn.pc \in {"establish", "break"} /\ UNCHANGED <<irmTaken, res>>
    BY <1>2 DEF pcr_modify, pcr_set_modify, pcr_break_modify, Pcr, PcrType, ConnTyped,
       ResTyped
  <2>2. plug.owner = "other" /\ plug.pcr = conn.arg /\ set => conn.cut
      BY DEF OtherShows, ValueShape
  <2> HIDE DEF new, set, by, wins
  <2>3. CASE /\ res.generation = cmpGen /\ plug.pcr = conn.arg
             /\ plug' = [pcr |-> new, owner |-> by]
             /\ conn' = [conn EXCEPT !.pc = "idle", !.connected = set, !.last = new,
                                     !.stolen = wins, !.cut = FALSE]
             /\ UNCHANGED cmpLost
    <3>1. wins = FALSE
        BY <2>2, <2>3 DEF wins
    <3>2. set \in BOOLEAN
        BY DEF set
    <3>3. conn' = [conn EXCEPT !.pc = "idle", !.connected = set, !.last = new,
                               !.stolen = FALSE, !.cut = FALSE]
        BY <2>3, <3>1
    <3>4. PlugTyped' /\ ResTyped' /\ CountTyped'
        BY <1>2, <2>1, <2>3 DEF PlugTyped, ResTyped, CountTyped, by
    <3>5. ConnTyped'
        BY <2>1, <3>2, <3>3 DEF ConnTyped
    <3>6. /\ conn'.pc = "idle" /\ (conn'.connected <=> set) /\ ~conn'.stolen
          /\ conn'.last.used <=> set
        BY <2>1, <3>2, <3>3 DEF ConnTyped
    <3>7. OtherShows' /\ ValueShape'
        BY <2>3, <3>6 DEF OtherShows, ValueShape, by
    <3>8. ConnShape'
        BY <1>2, <2>1, <3>6 DEF ConnShape, set
    <3>9. Follows'
        BY <1>2, <2>1, <2>3, <3>6 DEF Follows, by
    <3>10. QED
        BY <3>4, <3>5, <3>7, <3>8, <3>9
  <2>4. CASE /\ plug' = [pcr |-> new, owner |-> by]
             /\ cmpLost' = cmpLost + 1 /\ UNCHANGED conn
    <3>1. CmpTyped'
        BY <1>2, <2>1, <2>4 DEF PlugTyped, ResTyped, ConnTyped, CountTyped, by
    <3>2. OtherShows' /\ ConnShape' /\ ValueShape' /\ Follows'
        BY <1>2, <2>1, <2>4 DEF OtherShows, ConnShape, ValueShape, Follows, CountTyped, by
    <3>3. QED
        BY <3>1, <3>2
  <2>5. CASE /\ conn' = IF GoesOn(plug.pcr) THEN [conn EXCEPT !.arg = plug.pcr]
                        ELSE [conn EXCEPT !.pc = "idle"]
             /\ UNCHANGED <<plug, cmpLost>>
    <3>1. CmpTyped'
        BY <1>2, <2>1, <2>5 DEF PlugTyped, ResTyped, ConnTyped, CountTyped
    <3>2. set /\ GoesOn(plug.pcr) => ~plug.pcr.used
        BY DEF GoesOn, pcr_set_check, set
    <3>3. OtherShows' /\ ConnShape' /\ Follows'
        BY <1>2, <2>1, <2>5 DEF OtherShows, ConnShape, Follows, ConnTyped
    <3>4. ValueShape'
        BY <2>5, <3>2 DEF ValueShape, ConnTyped, set
    <3>5. QED
        BY <3>1, <3>3, <3>4
  <2>6. CASE /\ res.generation # cmpGen
             /\ conn' = IF set THEN [conn EXCEPT !.pc = "again"]
                        ELSE [conn EXCEPT !.pc = "idle", !.connected = FALSE, !.cut = TRUE]
             /\ UNCHANGED <<plug, cmpLost>>
    <3>1. CmpTyped'
        BY <1>2, <2>1, <2>6 DEF PlugTyped, ResTyped, ConnTyped, CountTyped
    <3>2. OtherShows' /\ ConnShape' /\ ValueShape'
        BY <1>2, <2>1, <2>6 DEF OtherShows, ConnShape, ValueShape, ConnTyped, set
    <3>3. Follows'
        BY <1>2, <2>1, <2>6 DEF Follows, ConnTyped, ConnShape, set
    <3>4. QED
        BY <3>1, <3>2, <3>3
  <2>7. QED
      BY <1>2, <2>3, <2>4, <2>5, <2>6 DEF pcr_modify, NextTry, new, set, by, wins
<1>3. ASSUME PcrModifyFails, UNCHANGED <<cmpGen, cmpOther>> PROVE CmpInv'
  <2>1. PlugTyped'
      BY <1>3 DEF PcrModifyFails, PlugTyped, ConnTyped, ResTyped
  <2>2. ResTyped'
      BY <1>3 DEF PcrModifyFails, ResTyped, CountTyped
  <2>3. ConnTyped'
      BY <1>3 DEF PcrModifyFails, ConnTyped, PlugTyped, ResTyped
  <2>4. CountTyped'
      BY <1>3 DEF PcrModifyFails, CountTyped
  <2>5. OtherShows'
      BY <1>3 DEF PcrModifyFails, OtherShows, PlugTyped, ConnTyped
  <2>6. ConnShape'
      BY <1>3 DEF PcrModifyFails, ConnShape, ConnTyped, ResTyped, CountTyped
  <2>7. ValueShape'
      BY <1>3 DEF PcrModifyFails, ValueShape, ConnTyped, PlugTyped, ConnShape, OtherShows
  <2>8. Follows'
      BY <1>3 DEF PcrModifyFails, Follows, ConnTyped, ResTyped, PlugTyped, CountTyped,
         ConnShape
  <2>9. QED
      BY <2>1, <2>2, <2>3, <2>4, <2>5, <2>6, <2>7, <2>8
<1>4. ASSUME RetryAfterBusReset, UNCHANGED <<cmpGen, cmpOther>> PROVE CmpInv'
  <2>1. PlugTyped'
      BY <1>4 DEF RetryAfterBusReset, ResourcesUpdated, Available, Returns, PlugTyped,
         ConnTyped, ResTyped
  <2>2. ResTyped'
      BY <1>4 DEF RetryAfterBusReset, ResourcesUpdated, Available, Returns, ResTyped,
         CountTyped
  <2>3. ConnTyped'
      BY <1>4 DEF RetryAfterBusReset, ResourcesUpdated, Available, Returns, ConnTyped,
         PlugTyped, ResTyped
  <2>4. CountTyped'
      BY <1>4 DEF RetryAfterBusReset, ResourcesUpdated, Available, Returns, CountTyped
  <2>5. OtherShows'
      BY <1>4 DEF RetryAfterBusReset, ResourcesUpdated, Available, Returns, OtherShows,
         PlugTyped, ConnTyped
  <2>6. ConnShape'
    <3>1. CASE /\ res.allocated /\ res' = [res EXCEPT !.generation = cmpGen]
               /\ conn' = [conn EXCEPT !.pc = "establish", !.arg = conn.last]
        BY <1>4, <3>1 DEF RetryAfterBusReset, ConnShape, ConnTyped, ResTyped, CountTyped
    <3>2. CASE /\ res' = [res EXCEPT !.generation = IF res.allocated THEN cmpGen ELSE @,
                                     !.allocated = FALSE]
               /\ conn' = [conn EXCEPT !.pc = "idle"]
        BY <1>4, <3>2 DEF RetryAfterBusReset, ConnShape, ConnTyped, ResTyped, CountTyped
    <3>3. CASE conn' = [conn EXCEPT !.pc = "idle"] /\ UNCHANGED res
        BY <1>4, <3>3 DEF ConnShape, ConnTyped, ResTyped, CountTyped
    <3>4. QED
        BY <1>4, <3>1, <3>2, <3>3 DEF RetryAfterBusReset, ResourcesUpdated, Returns
  <2>7. ValueShape'
      BY <1>4 DEF RetryAfterBusReset, ResourcesUpdated, Available, Returns, ValueShape,
         ConnTyped, PlugTyped, ConnShape, OtherShows
  <2>8. Follows'
      BY <1>4 DEF RetryAfterBusReset, ResourcesUpdated, Available, Returns, Follows,
         ConnTyped, ResTyped, PlugTyped, CountTyped, ConnShape
  <2>9. QED
      BY <2>1, <2>2, <2>3, <2>4, <2>5, <2>6, <2>7, <2>8
<1>5. ASSUME CmpBusReset PROVE CmpInv'
  <2>1. PlugTyped'
      BY <1>5 DEF CmpBusReset, PcrType, PlugTyped, ConnTyped, ResTyped
  <2>2. ResTyped'
      BY <1>5 DEF CmpBusReset, PcrType, ResTyped, CountTyped
  <2>3. ConnTyped'
      BY <1>5 DEF CmpBusReset, PcrType, ConnTyped, PlugTyped, ResTyped
  <2>4. CountTyped'
      BY <1>5 DEF CmpBusReset, PcrType, CountTyped
  <2>5. OtherShows'
      BY <1>5 DEF CmpBusReset, PcrType, OtherShows, PlugTyped, ConnTyped
  <2>6. ConnShape'
      BY <1>5 DEF CmpBusReset, PcrType, ConnShape, ConnTyped, ResTyped, CountTyped
  <2>7. ValueShape'
      BY <1>5 DEF CmpBusReset, PcrType, ValueShape, ConnTyped, PlugTyped, ConnShape,
         OtherShows
  <2>8. Follows'
      BY <1>5 DEF CmpBusReset, PcrType, Follows, ConnTyped, ResTyped, PlugTyped, CountTyped,
         ConnShape
  <2>9. QED
      BY <2>1, <2>2, <2>3, <2>4, <2>5, <2>6, <2>7, <2>8
<1>6. ASSUME OtherController PROVE CmpInv'
  <2>1. PlugTyped'
    <3>1. \A ch \in Available : Pcr(TRUE, TRUE, ch) \in PcrType
        BY DEF Available, Pcr, PcrType
    <3>2. [plug.pcr EXCEPT !.used = FALSE] \in PcrType
        BY DEF PlugTyped, PcrType
    <3>3. PICK x \in PcrType : \/ plug' = [pcr |-> x, owner |-> "other"]
                               \/ plug' = [pcr |-> x, owner |-> "nobody"]
        BY <1>6, <3>1, <3>2, Zenon DEF OtherController
    <3>4. QED
        BY <3>3 DEF PlugTyped
  <2>2. ResTyped'
      BY <1>6 DEF OtherController, Available, Pcr, PcrType, ResTyped, CountTyped
  <2>3. ConnTyped'
      BY <1>6 DEF OtherController, Available, Pcr, PcrType, ConnTyped, PlugTyped, ResTyped
  <2>4. CountTyped'
      BY <1>6 DEF OtherController, Available, Pcr, PcrType, CountTyped
  <2>5. OtherShows'
      BY <1>6 DEF OtherController, Available, Pcr, PcrType, OtherShows, PlugTyped, ConnTyped
  <2>6. ConnShape'
      BY <1>6 DEF OtherController, Available, Pcr, PcrType, ConnShape, ConnTyped, ResTyped,
         CountTyped
  <2>7. ValueShape'
      BY <1>6 DEF OtherController, Available, Pcr, PcrType, ValueShape, ConnTyped,
         PlugTyped, ConnShape, OtherShows
  <2>8. Follows'
      BY <1>6 DEF OtherController, Available, Pcr, PcrType, Follows, ConnTyped, ResTyped,
         PlugTyped, CountTyped, ConnShape
  <2>9. QED
      BY <2>1, <2>2, <2>3, <2>4, <2>5, <2>6, <2>7, <2>8
<1>7. ASSUME cmp_connection_reserve, UNCHANGED <<cmpGen, cmpOther>> PROVE CmpInv'
  <2>1. PlugTyped'
      BY <1>7 DEF cmp_connection_reserve, PlugTyped, ConnTyped, ResTyped
  <2>2. ResTyped'
      BY <1>7 DEF cmp_connection_reserve, ResTyped, CountTyped
  <2>3. ConnTyped'
      BY <1>7 DEF cmp_connection_reserve, ConnTyped, PlugTyped, ResTyped
  <2>4. CountTyped'
      BY <1>7 DEF cmp_connection_reserve, CountTyped
  <2>5. OtherShows'
      BY <1>7 DEF cmp_connection_reserve, OtherShows, PlugTyped, ConnTyped
  <2>6. ConnShape'
      BY <1>7 DEF cmp_connection_reserve, ConnShape, ConnTyped, ResTyped, CountTyped
  <2>7. ValueShape'
      BY <1>7 DEF cmp_connection_reserve, ValueShape, ConnTyped, PlugTyped, ConnShape,
         OtherShows
  <2>8. Follows'
      BY <1>7 DEF cmp_connection_reserve, Follows, ConnTyped, ResTyped, PlugTyped,
         CountTyped, ConnShape
  <2>9. QED
      BY <2>1, <2>2, <2>3, <2>4, <2>5, <2>6, <2>7, <2>8
<1>8. ASSUME cmp_connection_release, UNCHANGED <<cmpGen, cmpOther>> PROVE CmpInv'
  <2>1. PlugTyped'
      BY <1>8 DEF cmp_connection_release, PlugTyped, ConnTyped, ResTyped
  <2>2. ResTyped'
      BY <1>8 DEF cmp_connection_release, ResTyped, CountTyped
  <2>3. ConnTyped'
      BY <1>8 DEF cmp_connection_release, ConnTyped, PlugTyped, ResTyped
  <2>4. CountTyped'
      BY <1>8 DEF cmp_connection_release, CountTyped
  <2>5. OtherShows'
      BY <1>8 DEF cmp_connection_release, OtherShows, PlugTyped, ConnTyped
  <2>6. ConnShape'
      BY <1>8 DEF cmp_connection_release, ConnShape, ConnTyped, ResTyped, CountTyped
  <2>7. ValueShape'
      BY <1>8 DEF cmp_connection_release, ValueShape, ConnTyped, PlugTyped, ConnShape,
         OtherShows
  <2>8. Follows'
      BY <1>8 DEF cmp_connection_release, Follows, ConnTyped, ResTyped, PlugTyped,
         CountTyped, ConnShape
  <2>9. QED
      BY <2>1, <2>2, <2>3, <2>4, <2>5, <2>6, <2>7, <2>8
<1>9. ASSUME fw_iso_resources_update, UNCHANGED <<cmpGen, cmpOther>> PROVE CmpInv'
  <2>1. PlugTyped'
      BY <1>9 DEF fw_iso_resources_update, ResourcesUpdated, Available, Returns, PlugTyped,
         ConnTyped, ResTyped
  <2>2. ResTyped'
      BY <1>9 DEF fw_iso_resources_update, ResourcesUpdated, Available, Returns, ResTyped,
         CountTyped
  <2>3. ConnTyped'
      BY <1>9 DEF fw_iso_resources_update, ResourcesUpdated, Available, Returns, ConnTyped,
         PlugTyped, ResTyped
  <2>4. CountTyped'
      BY <1>9 DEF fw_iso_resources_update, ResourcesUpdated, Available, Returns, CountTyped
  <2>5. OtherShows'
      BY <1>9 DEF fw_iso_resources_update, ResourcesUpdated, Available, Returns, OtherShows,
         PlugTyped, ConnTyped
  <2>6. ConnShape'
    <3>1. CASE /\ res.allocated /\ res' = [res EXCEPT !.generation = cmpGen]
               /\ conn' = [conn EXCEPT !.pc = "idle", !.arg = conn.last]
        BY <1>9, <3>1 DEF fw_iso_resources_update, ConnShape, ConnTyped, ResTyped,
           CountTyped
    <3>2. CASE /\ res' = [res EXCEPT !.generation = IF res.allocated THEN cmpGen ELSE @,
                                     !.allocated = FALSE]
               /\ conn' = [conn EXCEPT !.pc = "idle"]
        BY <1>9, <3>2 DEF fw_iso_resources_update, ConnShape, ConnTyped, ResTyped,
           CountTyped
    <3>4. QED
        BY <1>9, <3>1, <3>2 DEF fw_iso_resources_update, ResourcesUpdated, Returns
  <2>7. ValueShape'
      BY <1>9 DEF fw_iso_resources_update, ResourcesUpdated, Available, Returns, ValueShape,
         ConnTyped, PlugTyped, ConnShape, OtherShows
  <2>8. Follows'
      BY <1>9 DEF fw_iso_resources_update, ResourcesUpdated, Available, Returns, Follows,
         ConnTyped, ResTyped, PlugTyped, CountTyped, ConnShape
  <2>9. QED
      BY <2>1, <2>2, <2>3, <2>4, <2>5, <2>6, <2>7, <2>8
<1>10. ASSUME cmp_connection_establish, UNCHANGED <<cmpGen, cmpOther>> PROVE CmpInv'
  <2>1. PlugTyped'
      BY <1>10 DEF cmp_connection_establish, PcrModify, PlugTyped, ConnTyped, ResTyped
  <2>2. ResTyped'
      BY <1>10 DEF cmp_connection_establish, PcrModify, ResTyped, CountTyped
  <2>3. ConnTyped'
      BY <1>10 DEF cmp_connection_establish, PcrModify, ConnTyped, PlugTyped, ResTyped
  <2>4. CountTyped'
      BY <1>10 DEF cmp_connection_establish, PcrModify, CountTyped
  <2>5. OtherShows'
      BY <1>10 DEF cmp_connection_establish, PcrModify, OtherShows, PlugTyped, ConnTyped
  <2>6. ConnShape'
      BY <1>10 DEF cmp_connection_establish, PcrModify, ConnShape, ConnTyped, ResTyped,
         CountTyped
  <2>7. ValueShape'
      BY <1>10 DEF cmp_connection_establish, PcrModify, ValueShape, ConnTyped, PlugTyped,
         ConnShape, OtherShows
  <2>8. Follows'
      BY <1>10 DEF cmp_connection_establish, PcrModify, Follows, ConnTyped, ResTyped,
         PlugTyped, CountTyped, ConnShape
  <2>9. QED
      BY <2>1, <2>2, <2>3, <2>4, <2>5, <2>6, <2>7, <2>8
<1>11. ASSUME cmp_connection_break, UNCHANGED <<cmpGen, cmpOther>> PROVE CmpInv'
  <2>1. PlugTyped'
      BY <1>11 DEF cmp_connection_break, PcrModify, PlugTyped, ConnTyped, ResTyped
  <2>2. ResTyped'
      BY <1>11 DEF cmp_connection_break, PcrModify, ResTyped, CountTyped
  <2>3. ConnTyped'
      BY <1>11 DEF cmp_connection_break, PcrModify, ConnTyped, PlugTyped, ResTyped
  <2>4. CountTyped'
      BY <1>11 DEF cmp_connection_break, PcrModify, CountTyped
  <2>5. OtherShows'
      BY <1>11 DEF cmp_connection_break, PcrModify, OtherShows, PlugTyped, ConnTyped
  <2>6. ConnShape'
      BY <1>11 DEF cmp_connection_break, PcrModify, ConnShape, ConnTyped, ResTyped,
         CountTyped
  <2>7. ValueShape'
      BY <1>11 DEF cmp_connection_break, PcrModify, ValueShape, ConnTyped, PlugTyped,
         ConnShape, OtherShows
  <2>8. Follows'
      BY <1>11 DEF cmp_connection_break, PcrModify, Follows, ConnTyped, ResTyped, PlugTyped,
         CountTyped, ConnShape
  <2>9. QED
      BY <2>1, <2>2, <2>3, <2>4, <2>5, <2>6, <2>7, <2>8
<1>12. CASE UNCHANGED cmpvars
    BY <1>12 DEF cmpvars, PlugTyped, ResTyped, ConnTyped, CountTyped, OtherShows, ConnShape,
       ValueShape, Follows
<1>13. QED
    BY <1>1, <1>2, <1>3, <1>4, <1>5, <1>6, <1>7, <1>8, <1>9, <1>10, <1>11, <1>12
       DEF SndCmpNext, ConnStep

\* The plug and the channel at the IRM follow the driver's idea of the connection as long
\* as no response of the device gets lost, in every interleaving with bus resets and with
\* the other controller; about pcr_modify(), cmp_connection_establish(),
\* cmp_connection_break() and fw_iso_resources_update().
THEOREM ConnectionsFollowed == SndCmpSpec => []PlugFollowsConnection
<1>1. CmpInv => PlugFollowsConnection
    BY DEF CmpInv, CmpTyped, PlugTyped, ResTyped, ConnTyped, ValueShape, Follows,
       PlugFollowsConnection, SndCmpTypeOK
<1>2. QED
    BY <1>1, CmpStart, CmpStep, PTL DEF SndCmpSpec

-----------------------------------------------------------------------------
(* FwNetTx                                                                 *)

NetdevType ==
    [state : {"none", "registered", "unregistering", "draining"}, up : BOOLEAN,
     queue : {"running", "stopped", "full"}, queued : Int, carrier : BOOLEAN, fifo : BOOLEAN,
     broadcast : {"error", "running"}, contexts : Int, leaked : Int, opened : Nat]
TaskType ==
    [live : BOOLEAN, outstanding_pkts : 0 .. MaxFragments, enqueued : BOOLEAN, senders : Nat,
     flight : BOOLEAN, looks : BOOLEAN]
TasksTyped == ptask \in [Task -> TaskType]

\* The tasks that live.
LiveTasks == {t \in Task : ptask[t].live}

\* The interface has a context while it receives broadcasts, and only while it is up.
NetdevOk(n) ==
    /\ n \in NetdevType
    /\ n.contexts = n.leaked + (IF n.broadcast = "running" THEN 1 ELSE 0)
    /\ n.broadcast = "running" => n.up
    /\ n.up => n.state \in {"registered", "unregistering"}

\* While fragments are outstanding, one is in flight or about to be sent by a completion.
Outstanding(k) ==
    /\ k.flight => k.outstanding_pkts > 0
    /\ k.flight => ~k.looks
    /\ k.outstanding_pkts > 0 => k.flight \/ k.looks

\* The completion frees the task if the sender has enqueued it, and leaves it to the sender
\* otherwise.
TaskShape ==
    \A t \in Task :
        /\ ~ptask[t].live => ptask[t].senders = 0 /\ ~ptask[t].flight /\ ~ptask[t].looks
        /\ Outstanding(ptask[t])
        /\ ~txRaced /\ ptask[t].live =>
              /\ ptask[t].enqueued => ptask[t].outstanding_pkts > 0
              /\ ~ptask[t].enqueued => ptask[t].senders > 0

\* queued_datagrams counts tasks.
CountShape ==
    ~txRaced =>
        /\ IsFiniteSet(LiveTasks) /\ netdev.queued = Cardinality(LiveTasks)
        /\ netdev.state = "none" => LiveTasks = {}

TxTyped == NetdevOk(netdev) /\ TasksTyped /\ peers \subseteq Peer /\ txRaced \in BOOLEAN

\* The inductive invariant of TasksCounted.
TxInv == TxTyped /\ TaskShape /\ CountShape

LEMMA NoTaskTyped ==
    /\ NoTask \in TaskType /\ ~NoTask.live /\ NoTask.senders = 0 /\ ~NoTask.flight
    /\ NoTask.outstanding_pkts = 0 /\ ~NoTask.enqueued /\ ~NoTask.looks
    /\ Outstanding(NoTask)
BY TxAssumption DEF NoTask, TaskType, Outstanding

LEMMA NoNetdevTyped ==
    /\ NoNetdev \in NetdevType /\ NoNetdev.broadcast = "error" /\ NoNetdev.queued = 0
    /\ ~NoNetdev.up
BY DEF NoNetdev, NetdevType

\* What the broadcast functions change of a well-typed interface.
LEMMA BroadcastTyped ==
    ASSUME NEW n \in NetdevType, NEW b \in {"error", "running"}, NEW c \in Int, NEW l \in Int
    PROVE  /\ [n EXCEPT !.broadcast = b, !.contexts = c] \in NetdevType
           /\ [n EXCEPT !.contexts = c, !.leaked = l] \in NetdevType
           /\ [n EXCEPT !.contexts = c] \in NetdevType
BY DEF NetdevType

LEMMA OpenTyped ==
    ASSUME NEW n \in NetdevType, NEW b \in BOOLEAN, NEW q \in {"running", "stopped"}
    PROVE  [n EXCEPT !.up = b, !.queue = q] \in NetdevType
BY DEF NetdevType

LEMMA TxStart == FwNetTxInit => TxInv
<1> SUFFICES ASSUME FwNetTxInit PROVE TxInv
    OBVIOUS
<1>1. NetdevOk(netdev)
    BY DEF FwNetTxInit, NetdevOk, NetdevType, NoNetdev
<1>2. TxTyped
    BY <1>1, NoTaskTyped DEF FwNetTxInit, TxTyped, TasksTyped
<1>3. TaskShape
    BY NoTaskTyped DEF FwNetTxInit, TaskShape
<1>4. CountShape
  <2>1. LiveTasks = {}
      BY NoTaskTyped DEF FwNetTxInit, LiveTasks
  <2>2. netdev.queued = 0
      BY DEF FwNetTxInit, NoNetdev
  <2>3. QED
      BY <2>1, <2>2, FS_EmptySet DEF CountShape
<1>5. QED
    BY <1>1, <1>2, <1>3, <1>4 DEF TxInv

\* One use of a task ends.
LEMMA TaskFreed ==
    ASSUME TxInv, NEW t \in Task, NEW task \in TaskType, NEW free \in BOOLEAN, ptask[t].live,
           FreeTask(t, task, free), UNCHANGED peers,
           task.live, ~free => Outstanding(task),
           ~txRaced /\ ~free => /\ task.enqueued => task.outstanding_pkts > 0
                                /\ ~task.enqueued => task.senders > 0
    PROVE  TxInv'
<1> USE TxAssumption DEF TxInv, TxTyped
<1>1. ptask' = [ptask EXCEPT ![t] = IF free THEN NoTask ELSE task] /\ ptask' \in [Task -> TaskType]
    BY NoTaskTyped DEF FreeTask, TasksTyped
<1>2. /\ ~free => netdev' = netdev
      /\ free => netdev' = [netdev EXCEPT !.queued = netdev.queued - 1,
                               !.queue = IF netdev.queued - 1 = MinQueued THEN "running" ELSE netdev.queue]
    BY DEF FreeTask, dec_queued_datagrams
<1>3. txRaced' \in BOOLEAN /\ (txRaced => txRaced')
    BY DEF FreeTask
<1>4. NetdevOk(netdev')
  <2>1. netdev.queued - 1 \in Int /\ netdev.queue \in {"running", "stopped", "full"}
      BY DEF NetdevOk, NetdevType
  <2>2. \A k \in Int, q \in {"running", "stopped", "full"} :
            NetdevOk([netdev EXCEPT !.queued = k, !.queue = q])
      BY DEF NetdevOk, NetdevType
  <2>3. QED
      BY ZenonT(30), <1>2, <2>1, <2>2
<1>5. TaskShape'
  <2>1. \A u \in Task : u # t => ptask'[u] = ptask[u]
      BY <1>1 DEF TasksTyped
  <2>2. ptask'[t] = IF free THEN NoTask ELSE task
      BY <1>1 DEF TasksTyped
  <2>3. QED
      BY <1>3, <2>1, <2>2, NoTaskTyped DEF TaskShape, TaskType
<1>6. CountShape'
  <2>1. LiveTasks' = IF free THEN LiveTasks \ {t} ELSE LiveTasks
      BY <1>1, NoTaskTyped DEF LiveTasks, TasksTyped
  <2>2. t \in LiveTasks
      BY DEF LiveTasks
  <2>3. /\ netdev'.state = netdev.state
        /\ netdev'.queued = IF free THEN netdev.queued - 1 ELSE netdev.queued
      BY <1>2 DEF NetdevOk, NetdevType
  <2>4. QED
      BY <1>3, <2>1, <2>2, <2>3, FS_RemoveElement DEF CountShape
<1>7. QED
    BY <1>1, <1>3, <1>4, <1>5, <1>6 DEF TasksTyped, FreeTask

\* Steps that leave the tasks alone.
LEMMA InterfaceStep ==
    ASSUME TxInv, UNCHANGED <<ptask, txRaced>>, peers' \subseteq Peer, NetdevOk(netdev'),
           \/ netdev'.queued = netdev.queued
           \/ (LiveTasks = {} \/ txRaced) /\ netdev'.queued = 0,
           netdev'.state = "none" => netdev.state = "none" \/ netdev.queued = 0
    PROVE  TxInv'
<1> USE DEF TxInv, TxTyped
<1>1. LiveTasks' = LiveTasks /\ TaskShape' /\ TasksTyped'
    BY DEF LiveTasks, TaskShape, TasksTyped
<1>2. CountShape'
    BY <1>1, FS_EmptySet DEF CountShape
<1>3. QED
    BY <1>1, <1>2 DEF NetdevOk, NetdevType

LEMMA CarrierSet ==
    ASSUME NEW n, NetdevOk(n), NEW ps
    PROVE  /\ NetdevOk(set_carrier_state(n, ps))
           /\ set_carrier_state(n, ps).queued = n.queued
           /\ set_carrier_state(n, ps).state = n.state
<1> DEFINE b == Cardinality(ps) > 1
<1>1. b \in BOOLEAN /\ set_carrier_state(n, ps) = [n EXCEPT !.carrier = b]
    BY DEF set_carrier_state
<1> HIDE DEF b
<1>2. [n EXCEPT !.carrier = b] \in NetdevType
    BY <1>1 DEF NetdevOk, NetdevType
<1>3. QED
    BY <1>1, <1>2 DEF NetdevOk, NetdevType

LEMMA StopClosed ==
    ASSUME NEW n, NetdevOk(n)
    PROVE  /\ NetdevOk(fwnet_stop(n)) /\ ~fwnet_stop(n).up
           /\ fwnet_stop(n).queued = n.queued /\ fwnet_stop(n).state = n.state
<1> DEFINE m == IF n.broadcast = "error" THEN n
                ELSE [n EXCEPT !.broadcast = "error", !.contexts = n.contexts - 1]
<1>1. m \in NetdevType
  <2>1. n \in NetdevType /\ n.contexts - 1 \in Int
      BY DEF NetdevOk, NetdevType
  <2>2. QED
      BY <2>1, BroadcastTyped
<1>2. /\ m.broadcast = "error" /\ m.contexts = m.leaked
      /\ m.queued = n.queued /\ m.state = n.state
    BY DEF NetdevOk, NetdevType
<1>3. fwnet_stop(n) = [m EXCEPT !.up = FALSE, !.queue = "stopped"]
    BY DEF fwnet_stop, __fwnet_broadcast_stop
<1> HIDE DEF m
<1>4. fwnet_stop(n) \in NetdevType
    BY <1>1, <1>3, OpenTyped
<1>5. /\ fwnet_stop(n).broadcast = "error" /\ fwnet_stop(n).contexts = m.contexts
      /\ fwnet_stop(n).leaked = m.leaked /\ fwnet_stop(n).queued = m.queued
      /\ fwnet_stop(n).state = m.state /\ ~fwnet_stop(n).up
    BY <1>1, <1>2, <1>3 DEF NetdevType
<1>6. m.leaked \in Int
    BY <1>1 DEF NetdevType
<1>7. QED
    BY <1>2, <1>4, <1>5, <1>6 DEF NetdevOk

LEMMA TxStep == TxInv /\ [FwNetTxNext]_txvars => TxInv'
<1> SUFFICES ASSUME TxInv, [FwNetTxNext]_txvars PROVE TxInv'
    OBVIOUS
<1> USE TxAssumption DEF TxInv, TxTyped
<1>1. ASSUME NEW t \in Task, NEW n \in 1 .. MaxFragments, fwnet_tx(t, n) PROVE TxInv'
  <2> DEFINE new == [NoTask EXCEPT !.live = TRUE, !.outstanding_pkts = n, !.senders = 1,
                                   !.flight = TRUE]
  <2> n \in 0 .. MaxFragments /\ n > 0
      OBVIOUS
  <2>0. new \in TaskType /\ new.outstanding_pkts = n /\ new.senders = 1
      BY NoTaskTyped DEF TaskType
  <2>1. new.live /\ new.flight /\ ~new.enqueued /\ ~new.looks
      BY NoTaskTyped DEF TaskType
  <2> HIDE DEF new
  <2>2. ptask' = [ptask EXCEPT ![t] = new]
      BY <1>1 DEF fwnet_tx, new
  <2>b. Outstanding(new)
      BY <2>0, <2>1 DEF Outstanding
  <2>3. TasksTyped' /\ TaskShape' /\ peers' \subseteq Peer /\ txRaced' \in BOOLEAN
      BY <1>1, <2>0, <2>1, <2>2, <2>b DEF TasksTyped, TaskShape, fwnet_tx
  <2>4. /\ netdev' = [netdev EXCEPT !.queued = netdev.queued + 1,
                         !.queue = IF netdev.queued + 1 = MaxQueued THEN "full" ELSE netdev.queue]
        /\ netdev.state = "registered" /\ ~ptask[t].live /\ txRaced' = txRaced
      BY <1>1 DEF fwnet_tx
  <2>5. NetdevOk(netdev') /\ netdev'.state = netdev.state /\ netdev'.queued = netdev.queued + 1
    <3>1. netdev.queued + 1 \in Int /\ netdev.queue \in {"running", "stopped", "full"}
        BY DEF NetdevOk, NetdevType
    <3>2. \A k \in Int, q \in {"running", "stopped", "full"} :
              LET m == [netdev EXCEPT !.queued = k, !.queue = q]
              IN NetdevOk(m) /\ m.state = netdev.state /\ m.queued = k
        BY ZenonT(30) DEF NetdevOk, NetdevType
    <3>3. PICK q \in {"running", "stopped", "full"} :
              netdev' = [netdev EXCEPT !.queued = netdev.queued + 1, !.queue = q]
        BY <2>4, <3>1
    <3>4. QED
        BY ZenonT(30), <3>1, <3>2, <3>3
  <2>6. LiveTasks' = LiveTasks \cup {t} /\ t \notin LiveTasks
      BY <2>1, <2>2, <2>4 DEF LiveTasks, TasksTyped
  <2>7. CountShape'
      BY <2>4, <2>5, <2>6, FS_AddElement DEF CountShape
  <2>8. QED
      BY <2>3, <2>5, <2>7
<1>2. ASSUME NEW t \in Task, fwnet_send_packet(t) PROVE TxInv'
  <2> DEFINE task == [ptask[t] EXCEPT !.senders = ptask[t].senders - 1, !.enqueued = TRUE]
             free == ptask[t].outstanding_pkts = 0 /\ ~ptask[t].enqueued
  <2>1. ptask[t].live /\ ptask[t] \in TaskType /\ ptask[t].senders > 0
      BY <1>2 DEF fwnet_send_packet, TaskShape, TasksTyped
  <2>0. ptask[t].senders - 1 \in Nat
      BY <2>1 DEF TaskType
  <2>2. /\ task \in TaskType /\ task.live /\ task.enqueued /\ task.flight = ptask[t].flight
        /\ task.outstanding_pkts = ptask[t].outstanding_pkts /\ task.looks = ptask[t].looks
      BY <2>0, <2>1 DEF TaskType
  <2>3. FreeTask(t, task, free) /\ UNCHANGED peers
      BY <1>2 DEF fwnet_send_packet
  <2>4. /\ Outstanding(task)
        /\ ~txRaced /\ ~free => task.outstanding_pkts > 0
      BY <2>1, <2>2 DEF TaskShape, TaskType, Outstanding
  <2>5. free \in BOOLEAN
      OBVIOUS
  <2> HIDE DEF task, free
  <2>6. QED
      BY <2>1, <2>2, <2>3, <2>4, <2>5, TaskFreed
<1>3. ASSUME NEW t \in Task, fwnet_transmit_packet_done(t) PROVE TxInv'
  <2> DEFINE left == ptask[t].outstanding_pkts - 1
             free == left = 0 /\ ptask[t].enqueued
             l == ~free
             task == [ptask[t] EXCEPT !.outstanding_pkts = left, !.flight = FALSE, !.looks = l]
  <2>1. ptask[t].live /\ ptask[t] \in TaskType /\ ptask[t].flight
      BY <1>3 DEF fwnet_transmit_packet_done, TaskShape, TasksTyped
  <2>2. left \in 0 .. MaxFragments /\ free \in BOOLEAN /\ l \in BOOLEAN
      BY <2>1 DEF TaskShape, TaskType, Outstanding
  <2>3. FreeTask(t, task, free) /\ UNCHANGED peers
      BY <1>3 DEF fwnet_transmit_packet_done
  <2>4. /\ ~free /\ ptask[t].enqueued => left > 0
        /\ ~txRaced /\ ~ptask[t].enqueued => ptask[t].senders > 0
      BY <2>1, <2>2 DEF TaskShape, TaskType
  <2>a. l = ~free
      OBVIOUS
  <2> HIDE DEF left, free, l
  <2>5. /\ task \in TaskType /\ task.live /\ task.enqueued = ptask[t].enqueued
        /\ task.senders = ptask[t].senders /\ task.outstanding_pkts = left
        /\ ~task.flight /\ task.looks = l
      BY <2>1, <2>2 DEF TaskType
  <2> HIDE DEF task
  <2>6. ~free => Outstanding(task)
      BY <2>a, <2>5 DEF Outstanding
  <2>7. QED
      BY <2>1, <2>2, <2>3, <2>4, <2>5, <2>6, TaskFreed
<1>l. ASSUME NEW t \in Task, NextFragment(t) PROVE TxInv'
  <2> DEFINE more == ptask[t].outstanding_pkts > 0
             s == ptask[t].senders + (IF more THEN 1 ELSE 0)
             task == [ptask[t] EXCEPT !.looks = FALSE, !.flight = more, !.senders = s]
  <2>1. ptask[t].live /\ ptask[t] \in TaskType /\ ptask[t].looks /\ ~ptask[t].flight
      BY <1>l DEF NextFragment, TaskShape, TasksTyped, Outstanding
  <2>2. more \in BOOLEAN /\ s \in Nat /\ s >= ptask[t].senders
    <3>1. ptask[t].senders \in Nat
        BY <2>1 DEF TaskType
    <3> HIDE DEF more
    <3>2. s \in Nat /\ s >= ptask[t].senders
        BY <3>1
    <3>3. QED
        BY <3>2 DEF more
  <2>3. ptask' = [ptask EXCEPT ![t] = task] /\ UNCHANGED <<netdev, peers, txRaced>>
      BY <1>l DEF NextFragment
  <2>4. more = (ptask[t].outstanding_pkts > 0)
      OBVIOUS
  <2> HIDE DEF s, more
  <2>5. /\ task \in TaskType /\ task.live /\ task.enqueued = ptask[t].enqueued
        /\ task.senders = s /\ task.outstanding_pkts = ptask[t].outstanding_pkts
        /\ task.flight = more /\ ~task.looks
      BY <2>1, <2>2 DEF TaskType
  <2>6. Outstanding(task)
      BY <2>4, <2>5 DEF Outstanding
  <2> HIDE DEF task
  <2>7. \A u \in Task : ptask'[u] = IF u = t THEN task ELSE ptask[u]
      BY <2>3 DEF TasksTyped
  <2>8. TasksTyped' /\ TaskShape'
    <3>1. TasksTyped'
        BY <2>3, <2>5 DEF TasksTyped
    <3>2. ~txRaced => (task.enqueued => task.outstanding_pkts > 0)
        BY <2>1, <2>5 DEF TaskShape
    <3>3. ~txRaced => (~task.enqueued => task.senders > 0)
      <4>1. ptask[t].senders \in Nat
          BY <2>1 DEF TaskType
      <4>2. QED
          BY <2>1, <2>2, <2>5, <4>1 DEF TaskShape
    <3>4. TaskShape'
        BY <2>3, <2>5, <2>6, <2>7, <3>2, <3>3 DEF TaskShape
    <3>5. QED
        BY <3>1, <3>4
  <2>9. LiveTasks' = LiveTasks
      BY <2>1, <2>5, <2>7 DEF LiveTasks
  <2>10. QED
      BY <2>3, <2>8, <2>9 DEF CountShape, NetdevOk
<1>4. ASSUME NEW t \in Task, fwnet_transmit_packet_failed(t) PROVE TxInv'
  <2> DEFINE task == [ptask[t] EXCEPT !.outstanding_pkts = 0, !.flight = FALSE]
             free == ptask[t].enqueued
  <2>1. ptask[t].live /\ ptask[t] \in TaskType
      BY <1>4 DEF fwnet_transmit_packet_failed, TaskShape, TasksTyped
  <2> 0 \in 0 .. MaxFragments
      OBVIOUS
  <2>0. task \in TaskType /\ free \in BOOLEAN
      BY <2>1 DEF TaskType
  <2>2. /\ task.live /\ task.enqueued = ptask[t].enqueued
        /\ task.senders = ptask[t].senders /\ ~task.flight /\ task.outstanding_pkts = 0
      BY <2>1 DEF TaskType
  <2>a. Outstanding(task)
      BY <2>2 DEF Outstanding
  <2>3. FreeTask(t, task, free) /\ UNCHANGED peers
      BY <1>4 DEF fwnet_transmit_packet_failed
  <2>4. ~txRaced /\ ~free => task.senders > 0 /\ ~task.enqueued
      BY <2>1, <2>2 DEF TaskShape
  <2> HIDE DEF task, free
  <2>5. QED
      BY <2>0, <2>1, <2>2, <2>a, <2>3, <2>4, TaskFreed
<1>5. ASSUME NEW p \in Peer, fwnet_probe(p) PROVE TxInv'
  <2>1. CASE netdev.state = "registered" /\ fwnet_add_peer(netdev, p)
      BY <1>5, <2>1, CarrierSet, InterfaceStep DEF fwnet_probe, fwnet_add_peer
  <2>2. CASE netdev.state = "none"
    <3> DEFINE n == [NoNetdev EXCEPT !.state = "registered", !.fifo = TRUE,
                                     !.opened = netdev.opened, !.leaked = netdev.leaked,
                                     !.contexts = netdev.contexts]
    <3>0. /\ netdev.opened \in Nat /\ netdev.leaked \in Int /\ netdev.contexts = netdev.leaked
        BY <2>2 DEF NetdevOk, NetdevType
    <3>1. NetdevOk(n) /\ n.queued = 0 /\ n.state = "registered"
      <4>1. n \in NetdevType
          BY <3>0, NoNetdevTyped DEF NetdevType
      <4>2. /\ n.contexts = n.leaked /\ n.broadcast = "error" /\ n.state = "registered"
            /\ n.queued = 0
          BY <3>0 DEF NoNetdev
      <4>3. QED
          BY <4>1, <4>2 DEF NetdevOk, NetdevType
    <3>2. fwnet_add_peer(n, p) /\ UNCHANGED <<ptask, txRaced>>
        BY <1>5, <2>2 DEF fwnet_probe
    <3>3. LiveTasks = {} \/ txRaced
        BY <2>2 DEF CountShape
    <3> HIDE DEF n
    <3>4. QED
        BY <3>1, <3>2, <3>3, CarrierSet, InterfaceStep DEF fwnet_add_peer
  <2>3. QED
      BY <1>5, <2>1, <2>2 DEF fwnet_probe
<1>6. ASSUME NEW p \in Peer, fwnet_remove(p) PROVE TxInv'
  <2>1. CASE netdev' = set_carrier_state(netdev, peers \ {p})
      BY <1>6, <2>1, CarrierSet, InterfaceStep DEF fwnet_remove, fwnet_remove_peer
  <2>2. CASE netdev' = [set_carrier_state(netdev, {}) EXCEPT !.state = "unregistering"]
    <3> DEFINE n == set_carrier_state(netdev, {})
    <3>1. NetdevOk(n) /\ n.queued = netdev.queued
        BY CarrierSet
    <3> HIDE DEF n
    <3>2. NetdevOk([n EXCEPT !.state = "unregistering"])
        BY <3>1 DEF NetdevOk, NetdevType
    <3>3. NetdevOk(netdev') /\ netdev'.queued = netdev.queued /\ netdev'.state = "unregistering"
        BY <2>2, <3>1, <3>2 DEF n, NetdevOk, NetdevType
    <3>4. QED
        BY <1>6, <3>3, InterfaceStep DEF fwnet_remove, fwnet_remove_peer
  <2>3. QED
      BY <1>6, <2>1, <2>2 DEF fwnet_remove, fwnet_remove_peer
<1>7. ASSUME fwnet_open PROVE TxInv'
  <2> DEFINE n == [netdev EXCEPT !.opened = netdev.opened + 1]
  <2>1. /\ NetdevOk(n) /\ n.queued = netdev.queued /\ n.state = "registered" /\ ~n.up
        /\ UNCHANGED <<peers, ptask, txRaced>>
        /\ \/ netdev' = set_carrier_state([fwnet_broadcast_start(n) EXCEPT
                                               !.up = TRUE, !.queue = "running"], peers)
           \/ netdev' \in BroadcastFailures(n)
      BY <1>7 DEF fwnet_open, NetdevOk, NetdevType
  <2> HIDE DEF n
  <2>2. CASE netdev' \in BroadcastFailures(n)
    <3> DEFINE l == [n EXCEPT !.contexts = n.contexts + 1, !.leaked = n.leaked + 1]
    <3>0. /\ n \in NetdevType /\ n.contexts + 1 \in Int /\ n.leaked + 1 \in Int
          /\ n.contexts + 1 = n.leaked + 1 /\ n.broadcast = "error"
        BY <2>1 DEF NetdevOk, NetdevType
    <3>1. NetdevOk(l) /\ l.queued = n.queued /\ l.state = n.state
      <4>1. l \in NetdevType
          BY <3>0, BroadcastTyped
      <4>2. /\ l.contexts = n.contexts + 1 /\ l.leaked = n.leaked + 1 /\ l.up = n.up
            /\ l.broadcast = n.broadcast /\ l.queued = n.queued /\ l.state = n.state
          BY <3>0 DEF NetdevType
      <4> HIDE DEF l
      <4>3. QED
          BY <2>1, <3>0, <4>1, <4>2 DEF NetdevOk
    <3> DEFINE a == [n EXCEPT !.contexts = n.contexts + 1]
               m == [a EXCEPT !.broadcast = "error", !.contexts = a.contexts - 1]
    <3>2. a \in NetdevType
        BY <3>0, BroadcastTyped
    <3>3. /\ a.contexts = n.contexts + 1 /\ a.leaked = n.leaked /\ a.up = n.up
          /\ a.queued = n.queued /\ a.state = n.state /\ n.contexts = n.leaked
        BY <2>1 DEF NetdevOk, NetdevType
    <3> HIDE DEF a
    <3>4. NetdevOk(m) /\ m.queued = n.queued /\ m.state = n.state
      <4>1. a.contexts - 1 = n.contexts /\ n.contexts \in Int
          BY <2>1, <3>3 DEF NetdevOk, NetdevType
      <4>2. m \in NetdevType
          BY <3>2, <4>1, BroadcastTyped
      <4>3. /\ m.contexts = n.contexts /\ m.leaked = n.leaked /\ m.up = n.up
            /\ m.broadcast = "error" /\ m.queued = n.queued /\ m.state = n.state
          BY <3>2, <3>3, <4>1 DEF NetdevType
      <4> HIDE DEF m
      <4>4. QED
          BY <2>1, <3>3, <4>1, <4>2, <4>3 DEF NetdevOk
    <3>5. netdev' \in {n, l, m}
        BY <2>2 DEF BroadcastFailures, __fwnet_broadcast_stop, a
    <3> HIDE DEF l, m
    <3>6. NetdevOk(netdev') /\ netdev'.queued = netdev.queued /\ netdev'.state = "registered"
        BY <2>1, <3>1, <3>4, <3>5
    <3>7. QED
        BY <2>1, <3>6, InterfaceStep
  <2>3. CASE netdev' = set_carrier_state([fwnet_broadcast_start(n) EXCEPT
                                               !.up = TRUE, !.queue = "running"], peers)
    <3> DEFINE m == [fwnet_broadcast_start(n) EXCEPT !.up = TRUE, !.queue = "running"]
    <3> DEFINE a == [n EXCEPT !.broadcast = "running", !.contexts = n.contexts + 1]
    <3>n. n \in NetdevType /\ n.contexts + 1 \in Int /\ n.contexts = n.leaked
        BY <2>1 DEF NetdevOk, NetdevType
    <3>0. /\ a \in NetdevType /\ a.contexts = a.leaked + 1 /\ a.broadcast = "running"
          /\ a.queued = n.queued /\ a.state = "registered"
      <4>1. a \in NetdevType
          BY <3>n, BroadcastTyped
      <4>2. /\ a.contexts = n.contexts + 1 /\ a.leaked = n.leaked /\ a.broadcast = "running"
            /\ a.queued = n.queued /\ a.state = n.state
          BY <3>n DEF NetdevType
      <4>3. QED
          BY <2>1, <3>n, <4>1, <4>2
    <3> HIDE DEF a
    <3>1. NetdevOk(m) /\ m.queued = netdev.queued /\ m.state = "registered"
        BY <2>1, <3>0 DEF fwnet_broadcast_start, NetdevOk, NetdevType, a
    <3> HIDE DEF m
    <3>2. netdev' = set_carrier_state(m, peers)
        BY <2>3 DEF m
    <3>3. QED
        BY <2>1, <3>1, <3>2, CarrierSet, InterfaceStep
  <2>4. QED
      BY <2>1, <2>2, <2>3
<1>8. ASSUME Ifdown PROVE TxInv'
    BY <1>8, StopClosed, InterfaceStep DEF Ifdown
<1>9. ASSUME Unregister PROVE TxInv'
  <2> DEFINE n == IF netdev.up THEN fwnet_stop(netdev) ELSE netdev
  <2>1. NetdevOk(n) /\ ~n.up /\ n.queued = netdev.queued
      BY StopClosed DEF NetdevOk, NetdevType
  <2>2. netdev' = [n EXCEPT !.state = "draining", !.fifo = FALSE]
      BY <1>9 DEF Unregister
  <2> HIDE DEF n
  <2>3. NetdevOk(netdev') /\ netdev'.queued = netdev.queued /\ netdev'.state = "draining"
      BY <2>1, <2>2 DEF NetdevOk, NetdevType
  <2>4. QED
      BY <1>9, <2>3, InterfaceStep DEF Unregister
<1>10. ASSUME FreeNetdev PROVE TxInv'
  <2>1. NetdevOk(netdev') /\ netdev'.queued = 0 /\ netdev.queued = 0
      BY ZenonT(30), <1>10 DEF FreeNetdev, NetdevOk, NetdevType, NoNetdev
  <2>2. QED
      BY <1>10, <2>1, InterfaceStep DEF FreeNetdev
<1>11. CASE UNCHANGED txvars
  <2>1. netdev' = netdev /\ UNCHANGED <<peers, ptask, txRaced>>
      BY <1>11 DEF txvars
  <2>2. QED
      BY <2>1, InterfaceStep
<1>12. QED
    BY <1>1, <1>2, <1>3, <1>l, <1>4, <1>5, <1>6, <1>7, <1>8, <1>9, <1>10, <1>11
       DEF FwNetTxNext, fwnet_write_complete

\* Every packet task is freed once, and queued_datagrams counts those that live, until a task
\* is freed in use: by its sender before the completion reads outstanding_pkts without the
\* lock (net.c:848), or while the sender of an earlier fragment still uses it; and no
\* broadcast context is lost but by a failed fw_iso_buffer_init().  For any number of
\* datagrams, fragments and peers; about fwnet_send_packet(), fwnet_transmit_packet_done(),
\* fwnet_transmit_packet_failed() and fwnet_remove().
THEOREM TasksAlwaysCounted == FwNetTxSpec => []TasksCounted
<1>1. TxInv => TasksCounted
  <2> SUFFICES ASSUME TxInv PROVE TasksCounted
      OBVIOUS
  <2> USE DEF TxInv, TxTyped
  <2>1. FwNetTxTypeOK
      BY DEF FwNetTxTypeOK, NetdevOk, NetdevType, TasksTyped, TaskType
  <2>2. ~txRaced => \A t \in Task : ptask[t].live =>
            ptask[t].senders > 0 \/ ptask[t].flight \/ ptask[t].looks
      BY DEF TaskShape, Outstanding
  <2>3. ~txRaced => /\ netdev.queued = Cardinality({t \in Task : ptask[t].live})
                    /\ netdev.state = "none" => \A t \in Task : ~ptask[t].live
      BY DEF CountShape, LiveTasks
  <2>4. QED
      BY <2>1, <2>2, <2>3 DEF TasksCounted, NetdevOk
<1>2. QED
    BY <1>1, TxStart, TxStep, PTL DEF FwNetTxSpec

-----------------------------------------------------------------------------
(* SndHwdep                                                                 *)

Place == 0 .. HwQueue - 1

HwType ==
    [kind : HwKinds \cup {"none"}, count : -1 .. HwMaxLock, changed : BOOLEAN,
     word : SUBSET (1 .. HwMaxEvents), wake : BOOLEAN, ring : [Place -> Nat],
     push : Place, pull : Place, opened : 0 .. HwMaxLock]
ReaderType ==
    [pc : {"away", "awake", "checked", "asleep", "telling", "copying", "copied", "advanced"},
     room : Nat, odd : BOOLEAN, from : Place, to : 0 .. HwQueue]
ToldType ==
    [sent : 0 .. HwMaxEvents, got : Nat, over : BOOLEAN, wrong : BOOLEAN,
     said : BOOLEAN, missed : BOOLEAN]

\* What was told about the lock is wrong only while dev_lock_changed is set.
LockTold(h, t) == h.count <= h.opened /\ (~h.changed => t.said = (h.count > 0))

\* Places in the ring: from p on, and how far it is from p to q.
Onward(p, j) == IF p + j < HwQueue THEN p + j ELSE p + j - HwQueue
Ahead(p, q) == IF p <= q THEN q - p ELSE q + HwQueue - p

\* The drivers without a ring hold messages that the application has not got.
WordOk(h, t) ==
    /\ h.push = h.pull
    /\ h.word = {} => t.got <= t.sent /\ (~t.over => t.got = t.sent)
    /\ h.word # {} => \E lo \in 1 .. t.sent : /\ h.word = lo .. t.sent /\ t.got < lo
                                              /\ ~t.over => lo = t.got + 1

\* The ring of ff400 and of motu's register DSP models holds the last n messages, also when
\* it was overrun; an entry in the reader's hands stays one of them until pull moves on.
Entries(h, r) ==
    IF h.push = h.pull /\ r.pc \in {"copying", "copied"} THEN HwQueue ELSE Ahead(h.pull, h.push)
LastOnes(h, t, n) == \A j \in 0 .. n - 1 : h.ring[Onward(h.pull, j)] = t.sent - n + 1 + j
MessageRing(h, r, t) ==
    LET n == Entries(h, r)
        taken == IF r.pc = "copied" THEN 1 ELSE 0
    IN  /\ LastOnes(h, t, n)
        /\ t.got + n <= t.sent + taken
        /\ ~t.over => t.got + n = t.sent + taken /\ n < HwQueue

\* tascam: what is copied is in the ring.
Copied(r) == IF r.room < r.to - r.from THEN r.room ELSE r.to - r.from
QueueRing(h, r, t) ==
    LET n == Ahead(h.pull, h.push)
    IN  /\ LastOnes(h, t, n)
        /\ t.got + n = t.sent + (IF r.pc = "copied" THEN Copied(r) ELSE 0)
        /\ r.pc \in {"copying", "copied"} =>
              r.from = h.pull /\ r.to - r.from <= n

\* efw: entries have one or two units, and pull follows when the reader ends.
UnitsUpTo(n) == n + ((n + 1) \div 2)
ReadAt(h, r) == IF r.pc = "copying" THEN r.from ELSE h.pull
ResponseRing(h, r, t) ==
    LET v == Ahead(ReadAt(h, r), h.push)
    IN  /\ v <= Ahead(h.pull, h.push) /\ t.got <= t.sent
        /\ v = UnitsUpTo(t.sent) - UnitsUpTo(t.got)
        /\ \A n \in t.got + 1 .. t.sent :
              h.ring[Onward(ReadAt(h, r), UnitsUpTo(n - 1) - UnitsUpTo(t.got))] = n

\* Before there is a driver, nothing happens.
NoDriver(h, r, t) ==
    h.push = h.pull /\ h.word = {} /\ t.sent = 0 /\ t.got = 0 /\ ~t.over /\ r.pc = "away"

WordKinds == {"dice", "dg00x", "motu"}
KindOk(h, r, t) ==
    /\ h.kind = "none" => NoDriver(h, r, t)
    /\ h.kind \in WordKinds => WordOk(h, t)
    /\ h.kind \notin WordKinds => h.word = {}
    /\ h.kind \in {"ff400", "motu dsp"} => MessageRing(h, r, t)
    /\ h.kind = "motu dsp" => r.pc \notin {"copying", "copied"}
    /\ h.kind \in {"ff400", "tascam"} /\ r.pc \in {"copying", "copied"} => r.room > 0
    /\ h.kind = "tascam" /\ r.pc \in {"copying", "copied"} => r.from < r.to
    /\ h.kind = "tascam" /\ ~t.over => QueueRing(h, r, t)
    /\ h.kind = "efw" /\ ~t.over => ResponseRing(h, r, t)

HwInv ==
    /\ hw \in HwType /\ rdr \in ReaderType /\ told \in ToldType
    /\ LockTold(hw, told) /\ KindOk(hw, rdr, told)
    /\ told.wrong => told.over /\ hw.kind \in {"tascam", "efw"}

LEMMA Wraps ==
    /\ \A x \in Nat : x % HwQueue \in Place
    /\ \A x \in 0 .. 2 * HwQueue - 1 : x % HwQueue = (IF x < HwQueue THEN x ELSE x - HwQueue)
BY HwAssumption DEF Place

\* Arithmetic of the ring.
LEMMA RingPlaces ==
    ASSUME NEW p \in Place, NEW q \in Place
    PROVE  /\ Ahead(p, q) \in 0 .. HwQueue - 1 /\ Onward(p, Ahead(p, q)) = q
           /\ Onward(p, 0) = p /\ Ahead(p, p) = 0 /\ (Ahead(p, q) = 0 <=> p = q)
BY HwAssumption DEF Place, Onward, Ahead

LEMMA PlacesOnward ==
    \A p \in Place, i \in 0 .. HwQueue : Onward(p, i) \in Place
BY HwAssumption DEF Place, Onward

LEMMA PlacesDiffer ==
    ASSUME NEW p \in Place, NEW i \in 0 .. HwQueue - 1, NEW j \in 0 .. HwQueue - 1, i # j
    PROVE  Onward(p, i) # Onward(p, j)
BY HwAssumption DEF Place, Onward

LEMMA OnwardTwice ==
    ASSUME NEW p \in Place, NEW i \in 0 .. HwQueue, NEW j \in 0 .. HwQueue, i + j <= HwQueue
    PROVE  Onward(Onward(p, i), j) = Onward(p, i + j)
BY HwAssumption DEF Place, Onward

\* q moves on.
LEMMA PushMoves ==
    ASSUME NEW p \in Place, NEW q \in Place, NEW i \in 0 .. HwQueue
    PROVE  /\ Ahead(p, q) + i < HwQueue => Ahead(p, Onward(q, i)) = Ahead(p, q) + i
           /\ Ahead(p, q) + i = HwQueue => Onward(q, i) = p
BY HwAssumption DEF Place, Onward, Ahead

\* p moves on.
LEMMA PullMoves ==
    ASSUME NEW p \in Place, NEW q \in Place
    PROVE  /\ \A i \in 0 .. Ahead(p, q) : Ahead(Onward(p, i), q) = Ahead(p, q) - i
           /\ Ahead(Onward(p, 1), p) = HwQueue - 1
BY HwAssumption DEF Place, Onward, Ahead

LEMMA IndexMoves ==
    ASSUME NEW p \in Place
    PROVE  Next1(p) = Onward(p, 1) /\ \A i \in 0 .. HwQueue : (p + i) % HwQueue = Onward(p, i)
<1>1. \A i \in 0 .. HwQueue : (p + i) % HwQueue = Onward(p, i)
  <2> SUFFICES ASSUME NEW i \in 0 .. HwQueue PROVE (p + i) % HwQueue = Onward(p, i)
      OBVIOUS
  <2>1. p + i \in 0 .. 2 * HwQueue - 1
      BY HwAssumption DEF Place
  <2> DEFINE x == p + i
  <2>2. x % HwQueue = (IF x < HwQueue THEN x ELSE x - HwQueue)
    <3> HIDE DEF x
    <3>1. x \in 0 .. 2 * HwQueue - 1
        BY <2>1 DEF x
    <3>2. QED
        BY <3>1, Wraps
  <2>3. QED
      BY <2>2, HwAssumption DEF Onward, Place
<1>2. QED
    BY <1>1, HwAssumption DEF Next1

LEMMA Pushes ==
    ASSUME NEW h \in HwType, NEW n \in Nat
    PROVE  LET g == Pushed(h, n)
           IN  /\ g \in HwType /\ g.ring = [h.ring EXCEPT ![h.push] = n]
               /\ g.push = Onward(h.push, 1)
               /\ g.kind = h.kind /\ g.count = h.count /\ g.changed = h.changed /\ g.word = h.word
               /\ g.wake = h.wake /\ g.pull = h.pull /\ g.opened = h.opened
<1> DEFINE ring == [h.ring EXCEPT ![h.push] = n]
           push == Next1(h.push)
           g == [h EXCEPT !.ring = ring, !.push = push]
<1>1. Pushed(h, n) = g
    BY DEF Pushed, HwType
<1>2. ring \in [Place -> Nat]
    BY DEF HwType
<1>3. push \in Place /\ push = Onward(h.push, 1)
    BY PlacesOnward, IndexMoves, HwAssumption DEF HwType
<1> HIDE DEF ring, push
<1>4. /\ g \in HwType /\ g.ring = ring /\ g.push = push
      /\ g.kind = h.kind /\ g.count = h.count /\ g.changed = h.changed /\ g.word = h.word
      /\ g.wake = h.wake /\ g.pull = h.pull /\ g.opened = h.opened
    BY <1>2, <1>3 DEF HwType
<1> HIDE DEF g
<1>5. QED
    BY <1>1, <1>3, <1>4 DEF ring

\* Messages given in order, and without gaps as long as none was lost.
LEMMA GivesInOrder ==
    ASSUME told \in ToldType, NEW n \in Nat \ {0}, NEW lo \in Nat, lo > told.got,
           ~told.over => lo = told.got + 1
    PROVE  LET t == Gives([i \in 1 .. n |-> lo + i - 1], FALSE)
           IN  /\ t \in ToldType /\ t.got = lo + n - 1
               /\ t.over = told.over /\ t.wrong = told.wrong
               /\ t.sent = told.sent /\ t.said = told.said
<1> DEFINE q == [i \in 1 .. n |-> lo + i - 1]
<1>1. Len(q) = n /\ q # <<>> /\ q[n] = lo + n - 1 /\ \A i \in 1 .. n : q[i] = lo + i - 1
    OBVIOUS
<1>2. ~told.over => q = [i \in 1 .. Len(q) |-> told.got + i]
    BY <1>1 DEF ToldType
<1> HIDE DEF q
<1>3. Ascends(q, told.got)
    BY <1>1 DEF Ascends, ToldType
<1> DEFINE got == q[Len(q)]
           over == told.over \/ FALSE
           wrong == told.wrong \/ ~Ascends(q, told.got)
                               \/ (~told.over /\ q # [i \in 1 .. Len(q) |-> told.got + i])
           t == [told EXCEPT !.got = got, !.over = over, !.wrong = wrong]
<1>4. got = lo + n - 1 /\ got \in Nat
    BY <1>1
<1>5. over = told.over /\ wrong = told.wrong /\ over \in BOOLEAN /\ wrong \in BOOLEAN
    BY <1>2, <1>3 DEF ToldType
<1>6. Gives(q, FALSE) = t
    BY <1>1 DEF Gives
<1> HIDE DEF got, over, wrong
<1>7. /\ t \in ToldType /\ t.got = got /\ t.over = over /\ t.wrong = wrong
      /\ t.sent = told.sent /\ t.said = told.said
    BY <1>4, <1>5 DEF ToldType
<1> HIDE DEF t
<1>8. QED
    BY <1>4, <1>5, <1>6, <1>7 DEF q

\* One message.
LEMMA GivesNext ==
    ASSUME told \in ToldType, NEW n \in Nat, n > told.got, ~told.over => n = told.got + 1
    PROVE  LET t == Gives(<<n>>, FALSE)
           IN  /\ t \in ToldType /\ t.got = n
               /\ t.over = told.over /\ t.wrong = told.wrong
               /\ t.sent = told.sent /\ t.said = told.said
<1>1. <<n>> = [i \in 1 .. 1 |-> n + i - 1]
    OBVIOUS
<1>2. 1 \in Nat \ {0} /\ n + 1 - 1 = n
    OBVIOUS
<1> DEFINE t == Gives([i \in 1 .. 1 |-> n + i - 1], FALSE)
<1>3. /\ t \in ToldType /\ t.got = n + 1 - 1
      /\ t.over = told.over /\ t.wrong = told.wrong
      /\ t.sent = told.sent /\ t.said = told.said
    BY <1>2, GivesInOrder
<1>4. t = Gives(<<n>>, FALSE)
    BY <1>1
<1> HIDE DEF t
<1>5. QED
    BY <1>2, <1>3, <1>4

\* Whatever was in a ring that was overrun.
LEMMA GivesWhatever ==
    ASSUME told \in ToldType, NEW n \in Nat \ {0}, NEW q \in [1 .. n -> Nat]
    PROVE  LET t == Gives(q, FALSE)
           IN  t \in ToldType /\ t.over = told.over /\ t.sent = told.sent /\ t.said = told.said
<1>1. Len(q) = n /\ q # <<>> /\ q[n] \in Nat
    OBVIOUS
<1> DEFINE got == q[Len(q)]
           over == told.over \/ FALSE
           wrong == told.wrong \/ ~Ascends(q, told.got)
                               \/ (~told.over /\ q # [i \in 1 .. Len(q) |-> told.got + i])
           t == [told EXCEPT !.got = got, !.over = over, !.wrong = wrong]
<1>2. got \in Nat
    BY <1>1
<1>3. over = told.over /\ over \in BOOLEAN /\ wrong \in BOOLEAN
    BY DEF ToldType
<1>4. Gives(q, FALSE) = t
    BY <1>1 DEF Gives
<1> HIDE DEF got, over, wrong
<1>5. t \in ToldType /\ t.over = over /\ t.sent = told.sent /\ t.said = told.said
    BY <1>2, <1>3 DEF ToldType
<1> HIDE DEF t
<1>6. QED
    BY <1>3, <1>4, <1>5

LEMMA OnesPushed ==
    ASSUME NEW h \in HwType, NEW g \in HwType, NEW t \in ToldType, NEW u \in ToldType, NEW a,
           g.pull = h.pull, g.ring = [h.ring EXCEPT ![h.push] = t.sent + 1], u.sent = t.sent + 1,
           a = Ahead(h.pull, h.push), LastOnes(h, t, a)
    PROVE  LastOnes(g, u, a + 1)
<1>1. /\ h.pull \in Place /\ h.push \in Place /\ h.ring \in [Place -> Nat] /\ t.sent \in Nat
    BY HwAssumption DEF HwType, ToldType
<1>2. a \in 0 .. HwQueue - 1 /\ Onward(h.pull, a) = h.push
    BY <1>1, RingPlaces
<1> SUFFICES ASSUME NEW j \in 0 .. a PROVE g.ring[Onward(g.pull, j)] = u.sent - (a + 1) + 1 + j
    BY <1>2 DEF LastOnes
<1>3. CASE j = a
    BY <1>1, <1>2, <1>3
<1>4. CASE j # a
  <2>1. /\ j \in 0 .. HwQueue - 1 /\ j \in 0 .. HwQueue /\ j \in 0 .. a - 1
      BY <1>2, <1>4, HwAssumption
  <2>2. Onward(h.pull, j) \in Place
      BY <1>1, <2>1, PlacesOnward
  <2>3. Onward(h.pull, j) # h.push
      BY <1>1, <1>2, <1>4, <2>1, PlacesDiffer
  <2>4. h.ring[Onward(h.pull, j)] = t.sent - a + 1 + j
      BY <2>1 DEF LastOnes
  <2>5. QED
      BY <1>1, <1>2, <2>2, <2>3, <2>4
<1>5. QED
    BY <1>3, <1>4

\* A message for the rings that may be overrun.
LEMMA MessagePushed ==
    ASSUME NEW h \in HwType, NEW g \in HwType, NEW t \in ToldType, NEW u \in ToldType,
           NEW r \in ReaderType, MessageRing(h, r, t),
           g.pull = h.pull, g.ring = [h.ring EXCEPT ![h.push] = t.sent + 1],
           g.push = Onward(h.push, 1), u.sent = t.sent + 1, u.got = t.got,
           u.over <=> (t.over \/ Onward(h.push, 1) = h.pull)
    PROVE  MessageRing(g, r, u)
<1> DEFINE a == Ahead(h.pull, h.push)
           n == Entries(h, r)
           m == Entries(g, r)
           taken == IF r.pc = "copied" THEN 1 ELSE 0
           held == r.pc \in {"copying", "copied"}
<1>1. /\ h.pull \in Place /\ h.push \in Place /\ h.ring \in [Place -> Nat] /\ t.sent \in Nat
      /\ t.got \in Nat /\ HwQueue \in Nat \ {0} /\ g.push \in Place
    BY HwAssumption DEF HwType, ToldType
<1>2. /\ LastOnes(h, t, n) /\ t.got + n <= t.sent + taken
      /\ ~t.over => t.got + n = t.sent + taken /\ n < HwQueue
    BY DEF MessageRing
<1>3. /\ a \in 0 .. HwQueue - 1 /\ (a = 0 <=> h.pull = h.push)
      /\ a + 1 < HwQueue => Ahead(g.pull, g.push) = a + 1 /\ g.push # g.pull
      /\ a + 1 = HwQueue => g.push = g.pull /\ Ahead(g.pull, g.push) = 0
      /\ Onward(h.pull, 0) = h.pull
  <2>1. 1 \in 0 .. HwQueue
      BY <1>1
  <2>2. /\ a \in 0 .. HwQueue - 1 /\ (a = 0 <=> h.pull = h.push) /\ Onward(h.pull, 0) = h.pull
        /\ Ahead(h.pull, h.pull) = 0
    <3>1. a \in 0 .. HwQueue - 1 /\ (a = 0 <=> h.pull = h.push)
        BY <1>1, RingPlaces
    <3>2. Onward(h.pull, 0) = h.pull /\ Ahead(h.pull, h.pull) = 0
        BY <1>1, RingPlaces
    <3>3. QED
        BY <3>1, <3>2
  <2>3. /\ a + 1 < HwQueue => Ahead(h.pull, g.push) = a + 1
        /\ a + 1 = HwQueue => g.push = h.pull
      BY <1>1, <2>1, PushMoves
  <2> HIDE DEF a
  <2>4. QED
      BY <2>2, <2>3
<1>4. /\ held /\ a = 0 => n = HwQueue
      /\ ~(held /\ a = 0) => n = a
      /\ a + 1 < HwQueue => m = a + 1
      /\ a + 1 = HwQueue => m = IF held THEN HwQueue ELSE 0
    BY <1>1, <1>3 DEF Entries
<1>5. taken \in {0, 1} /\ u.sent = t.sent + 1 /\ u.got = t.got
    OBVIOUS
<1> HIDE DEF a, n, m, taken
<1>6. /\ LastOnes(g, u, m) /\ u.got + m <= u.sent + taken
      /\ ~u.over => u.got + m = u.sent + taken /\ m < HwQueue
  <2>1. CASE n = a
    <3>1. LastOnes(g, u, a + 1)
        BY <1>2, <2>1, OnesPushed DEF a
    <3>2. CASE a + 1 < HwQueue
      <4>1. m = a + 1 /\ g.push # h.pull /\ (u.over <=> t.over)
          BY <1>3, <1>4, <3>2
      <4>2. QED
          BY <1>1, <1>2, <1>3, <1>5, <2>1, <3>1, <3>2, <4>1
    <3>3. CASE a + 1 = HwQueue /\ held
      <4>1. m = a + 1 /\ u.over
          BY <1>3, <1>4, <3>3
      <4>2. QED
          BY <1>1, <1>2, <1>3, <1>5, <2>1, <3>1, <4>1
    <3>4. CASE a + 1 = HwQueue /\ ~held
      <4>1. m = 0 /\ u.over
          BY <1>1, <1>3, <1>4, <3>4
      <4>2. LastOnes(g, u, m)
          BY <4>1 DEF LastOnes
      <4>3. QED
          BY <1>1, <1>2, <1>3, <1>5, <2>1, <4>1, <4>2
    <3>5. QED
        BY <1>1, <1>3, <3>2, <3>3, <3>4
  <2>2. CASE n # a
    <3>1. held /\ a = 0 /\ n = HwQueue /\ h.pull = h.push
        BY <1>3, <1>4, <2>2
    <3>2. t.over /\ u.over
        BY <1>1, <1>2, <3>1
    <3>3. m = 1
        BY <1>1, <1>3, <1>4, <3>1
    <3>4. g.ring[Onward(g.pull, 0)] = t.sent + 1
        BY <1>1, <1>3, <3>1
    <3>5. LastOnes(g, u, 1)
        BY <1>1, <3>4 DEF LastOnes
    <3>6. QED
        BY <1>1, <1>2, <1>5, <3>1, <3>3, <3>5, <3>2
  <2>3. QED
      BY <2>1, <2>2
<1>7. QED
    BY <1>6 DEF MessageRing, m, taken

\* A message for the ring of tascam, as long as it is not overrun.
LEMMA QueuePushed ==
    ASSUME NEW h \in HwType, NEW g \in HwType, NEW t \in ToldType, NEW u \in ToldType,
           NEW r \in ReaderType, QueueRing(h, r, t),
           g.pull = h.pull, g.ring = [h.ring EXCEPT ![h.push] = t.sent + 1],
           g.push = Onward(h.push, 1), u.sent = t.sent + 1, u.got = t.got,
           Onward(h.push, 1) # h.pull
    PROVE  QueueRing(g, r, u)
<1> DEFINE a == Ahead(h.pull, h.push)
           copied == IF r.pc = "copied" THEN Copied(r) ELSE 0
<1>1. /\ h.pull \in Place /\ h.push \in Place /\ t.sent \in Nat /\ t.got \in Nat
      /\ HwQueue \in Nat \ {0} /\ r.from \in Int /\ r.to \in Int /\ copied \in Int
    BY HwAssumption DEF HwType, ToldType, ReaderType, Place, Copied
<1>2. /\ LastOnes(h, t, a) /\ t.got + a = t.sent + copied
      /\ r.pc \in {"copying", "copied"} =>
            r.from = h.pull /\ r.to - r.from <= a
    BY DEF QueueRing
<1>3. a \in 0 .. HwQueue - 1 /\ Ahead(g.pull, g.push) = a + 1
  <2>1. 1 \in 0 .. HwQueue /\ a \in 0 .. HwQueue - 1
      BY <1>1, RingPlaces
  <2>2. QED
      BY <1>1, <2>1, PushMoves
<1>4. LastOnes(g, u, a + 1)
    BY <1>2, OnesPushed
<1> HIDE DEF a, copied
<1>5. /\ u.got + (a + 1) = u.sent + copied
      /\ r.pc \in {"copying", "copied"} => r.to - r.from <= a + 1
    BY <1>1, <1>2, <1>3
<1>6. QED
    BY <1>2, <1>3, <1>4, <1>5 DEF QueueRing, copied

\* The units of a response.
LEMMA Units ==
    \A n \in Nat : /\ UnitsUpTo(n) \in Nat /\ EventLength(n) \in {1, 2}
                   /\ UnitsUpTo(n + 1) = UnitsUpTo(n) + EventLength(n + 1)
BY DEF UnitsUpTo, EventLength

LEMMA UnitsAscend == \A m, n \in Nat : m <= n => UnitsUpTo(m) <= UnitsUpTo(n)
BY DEF UnitsUpTo

\* A response for the ring of efw.
LEMMA ResponsePushed ==
    ASSUME NEW h \in HwType, NEW g \in HwType, NEW t \in ToldType, NEW u \in ToldType,
           NEW r \in ReaderType, ResponseRing(h, r, t),
           u.sent = t.sent + 1, u.got = t.got, g.pull = h.pull,
           NEW len \in {1, 2}, len = EventLength(u.sent),
           Ahead(h.pull, h.push) + len < HwQueue, g.push = Onward(h.push, len),
           g.ring[h.push] = u.sent,
           \A x \in Place : \/ g.ring[x] = h.ring[x] \/ x = h.push
                            \/ len = 2 /\ x = Onward(h.push, 1)
    PROVE  ResponseRing(g, r, u)
<1> DEFINE at == ReadAt(h, r)
           v == Ahead(at, h.push)
           off(n) == UnitsUpTo(n - 1) - UnitsUpTo(t.got)
<1>1. /\ h.pull \in Place /\ h.push \in Place /\ at \in Place /\ t.sent \in Nat /\ t.got \in Nat
      /\ HwQueue \in Nat \ {0} /\ ReadAt(g, r) = at
    BY HwAssumption DEF HwType, ToldType, ReaderType, ReadAt
<1>2. /\ v <= Ahead(h.pull, h.push) /\ t.got <= t.sent
      /\ v = UnitsUpTo(t.sent) - UnitsUpTo(t.got)
      /\ \A n \in t.got + 1 .. t.sent : h.ring[Onward(at, off(n))] = n
    BY DEF ResponseRing
<1>3. /\ Ahead(h.pull, h.push) \in Nat /\ v \in 0 .. HwQueue - 1 /\ v + len < HwQueue
      /\ Onward(at, v) = h.push /\ (len = 2 => Onward(h.push, 1) = Onward(at, v + 1))
  <2> HIDE DEF at
  <2>1. Ahead(h.pull, h.push) \in Nat /\ v \in 0 .. HwQueue - 1 /\ Onward(at, v) = h.push
    <3>1. Ahead(h.pull, h.push) \in 0 .. HwQueue - 1
        BY <1>1, RingPlaces
    <3>2. Ahead(h.pull, h.push) \in Nat
        BY <1>1, <3>1
    <3>3. v \in 0 .. HwQueue - 1 /\ Onward(at, v) = h.push
        BY <1>1, RingPlaces
    <3>4. QED
        BY <3>2, <3>3
  <2> HIDE DEF v
  <2>2. v + len < HwQueue
      BY <1>1, <1>2, <2>1
  <2>3. 1 \in 0 .. HwQueue /\ v \in 0 .. HwQueue /\ v + 1 <= HwQueue
      BY <1>1, <2>1
  <2>4. Onward(Onward(at, v), 1) = Onward(at, v + 1)
      BY <1>1, <2>3, OnwardTwice
  <2>5. QED
      BY <2>1, <2>2, <2>4
<1>4. Ahead(at, g.push) = v + len /\ Ahead(g.pull, g.push) = Ahead(h.pull, h.push) + len
  <2> HIDE DEF at
  <2>1. len \in 0 .. HwQueue
      BY <1>1, <1>3
  <2>2. QED
      BY <1>1, <1>3, <2>1, PushMoves
<1>5. UnitsUpTo(u.sent) = UnitsUpTo(t.sent) + len /\ UnitsUpTo(t.sent) \in Nat /\ UnitsUpTo(t.got) \in Nat
    BY <1>1, Units
<1> HIDE DEF at, v
<1>6. ASSUME NEW n \in u.got + 1 .. u.sent PROVE g.ring[Onward(at, off(n))] = n
  <2>1. CASE n = u.sent
    <3>1. off(n) = v
        BY <1>1, <1>2, <2>1
    <3>2. QED
        BY <1>3, <2>1, <3>1
  <2>2. CASE n # u.sent
    <3>1. n \in t.got + 1 .. t.sent /\ n - 1 \in Nat /\ n \in Nat /\ t.got <= n - 1
        BY <1>1, <1>6, <2>2
    <3>2. UnitsUpTo(n) = UnitsUpTo(n - 1) + EventLength(n) /\ EventLength(n) \in {1, 2}
          /\ UnitsUpTo(n - 1) \in Nat
      <4>1. n = (n - 1) + 1
          BY <3>1
      <4> DEFINE k == n - 1
      <4>2. UnitsUpTo(k + 1) = UnitsUpTo(k) + EventLength(k + 1) /\ UnitsUpTo(k) \in Nat
            /\ EventLength(k + 1) \in {1, 2}
        <5> HIDE DEF k
        <5>1. k \in Nat /\ k + 1 \in Nat
            BY <3>1 DEF k
        <5>2. QED
            BY <5>1, Units
      <4>3. QED
          BY <4>1, <4>2
    <3>3. UnitsUpTo(t.got) <= UnitsUpTo(n - 1) /\ UnitsUpTo(n) <= UnitsUpTo(t.sent)
      <4> DEFINE k == n - 1
      <4>1. k \in Nat /\ n \in Nat /\ t.got <= k /\ n <= t.sent
          BY <1>1, <3>1
      <4> HIDE DEF k
      <4>2. UnitsUpTo(t.got) <= UnitsUpTo(k)
          BY <1>1, <4>1, UnitsAscend
      <4>3. UnitsUpTo(n) <= UnitsUpTo(t.sent)
          BY <1>1, <4>1, UnitsAscend
      <4>4. QED
          BY <4>2, <4>3 DEF k
    <3>4. off(n) \in 0 .. v - 1
        BY <1>2, <1>5, <3>2, <3>3
    <3>5. /\ Onward(at, off(n)) \in Place /\ Onward(at, off(n)) # h.push
          /\ len = 2 => Onward(at, off(n)) # Onward(h.push, 1)
      <4> HIDE DEF off
      <4>1. /\ off(n) \in 0 .. HwQueue - 1 /\ v \in 0 .. HwQueue - 1 /\ off(n) # v
            /\ len = 2 => v + 1 \in 0 .. HwQueue - 1 /\ off(n) # v + 1
          BY <1>1, <1>3, <3>4
      <4>2. Onward(at, off(n)) \in Place
        <5>1. off(n) \in 0 .. HwQueue
            BY <1>1, <4>1
        <5>2. QED
            BY <1>1, <5>1, PlacesOnward
      <4>3. QED
          BY <1>1, <1>3, <4>1, <4>2, PlacesDiffer
    <3>6. g.ring[Onward(at, off(n))] = h.ring[Onward(at, off(n))]
        BY <3>5
    <3>7. QED
        BY <1>2, <3>1, <3>6
  <2>3. QED
      BY <2>1, <2>2
<1>7. v + len = UnitsUpTo(u.sent) - UnitsUpTo(u.got) /\ u.got <= u.sent
      /\ v + len <= Ahead(g.pull, g.push)
    BY <1>1, <1>2, <1>3, <1>4, <1>5
<1>8. QED
    BY <1>1, <1>4, <1>6, <1>7 DEF ResponseRing

LEMMA HwStart == HwInit => HwInv
<1> SUFFICES ASSUME HwInit PROVE HwInv
    OBVIOUS
<1>1. 0 \in Place /\ 0 \in Nat /\ 0 \in 0 .. HwMaxLock /\ 0 \in 0 .. HwMaxEvents /\ 0 \in 0 .. HwQueue
      /\ 0 \in -1 .. HwMaxLock
    BY HwAssumption DEF Place
<1>2. hw \in HwType /\ rdr \in ReaderType /\ told \in ToldType
  <2> DEFINE ring == [i \in Place |-> 0]
  <2>1. ring \in [Place -> Nat]
      BY <1>1
  <2>2. hw = [kind |-> "none", count |-> 0, changed |-> FALSE, word |-> {}, wake |-> FALSE,
              ring |-> ring, push |-> 0, pull |-> 0, opened |-> 0]
      BY DEF HwInit, Place
  <2> HIDE DEF ring
  <2>3. hw \in HwType
      BY <1>1, <2>1, <2>2 DEF HwType
  <2>4. rdr \in ReaderType /\ told \in ToldType
      BY <1>1 DEF HwInit, ReaderType, ToldType, Away
  <2>5. QED
      BY <2>3, <2>4
<1>3. NoDriver(hw, rdr, told) /\ hw.kind = "none" /\ ~told.wrong
    BY DEF HwInit, NoDriver, Away
<1>4. KindOk(hw, rdr, told)
    BY <1>3 DEF KindOk, NoDriver, WordKinds
<1>5. hw.count = 0 /\ hw.opened = 0 /\ told.said = FALSE
    BY DEF HwInit
<1>6. LockTold(hw, told)
  <2> DEFINE locked == hw.count > 0
  <2>1. locked = FALSE /\ hw.count <= hw.opened
      BY <1>5
  <2> HIDE DEF locked
  <2>2. told.said = locked
      BY <1>5, <2>1
  <2>3. QED
      BY <2>1, <2>2 DEF LockTold, locked
<1>7. QED
    BY <1>2, <1>3, <1>4, <1>6 DEF HwInv

\* Who sleeps may be woken.
LEMMA Wakes ==
    ASSUME rdr \in ReaderType
    PROVE  /\ ReaderAwake \in ReaderType
           /\ ReaderAwake = rdr \/ (rdr.pc = "asleep" /\ ReaderAwake.pc = "awake")
BY DEF ReaderAwake, ReaderType

\* The ring and its reader are as before.
LEMMA RingStays ==
    ASSUME HwInv, hw' \in HwType, rdr' \in ReaderType, told' \in ToldType, LockTold(hw', told'),
           hw'.kind = hw.kind, hw'.word = hw.word, hw'.ring = hw.ring, hw'.push = hw.push,
           hw'.pull = hw.pull, told'.sent = told.sent, told'.got = told.got,
           told'.over = told.over, told'.wrong = told.wrong,
           \/ rdr' = rdr
           \/ hw.kind # "none" /\ rdr.pc \notin {"copying", "copied"} /\ rdr'.pc \notin {"copying", "copied"}
    PROVE  HwInv'
<1>1. KindOk(hw, rdr, told) /\ (told.wrong => told.over /\ hw.kind \in {"tascam", "efw"})
    BY DEF HwInv
<1>2. KindOk(hw', rdr', told')
  <2>1. hw.kind \in WordKinds => WordOk(hw', told')
      BY <1>1 DEF KindOk, WordOk
  <2>2. hw.kind \in {"ff400", "motu dsp"} => MessageRing(hw', rdr', told')
    <3>1. Entries(hw', rdr') = Entries(hw, rdr) /\ (rdr'.pc = "copied" <=> rdr.pc = "copied")
        BY DEF Entries
    <3>2. QED
        BY <1>1, <3>1 DEF KindOk, MessageRing, LastOnes
  <2>3. hw.kind = "tascam" /\ ~told.over => QueueRing(hw', rdr', told')
    <3>1. CASE rdr' = rdr
        BY <1>1, <3>1 DEF KindOk, QueueRing, LastOnes, Copied
    <3>2. CASE rdr.pc \notin {"copying", "copied"} /\ rdr'.pc \notin {"copying", "copied"}
        BY <1>1, <3>2 DEF KindOk, QueueRing, LastOnes
    <3>3. QED
        BY <3>1, <3>2
  <2>4. hw.kind = "efw" /\ ~told.over => ResponseRing(hw', rdr', told')
    <3>1. ReadAt(hw', rdr') = ReadAt(hw, rdr)
        BY DEF ReadAt
    <3>2. QED
        BY <1>1, <3>1 DEF KindOk, ResponseRing
  <2>5. QED
      BY <1>1, <2>1, <2>2, <2>3, <2>4 DEF KindOk, NoDriver
<1>3. QED
    BY <1>1, <1>2 DEF HwInv

\* A driver comes.
LEMMA CreateKeeps ==
    ASSUME HwInv, NEW kind \in HwKinds, HwdepCreate(kind)
    PROVE  HwInv'
<1>1. /\ hw \in HwType /\ told \in ToldType /\ LockTold(hw, told) /\ NoDriver(hw, rdr, told)
      /\ hw.kind = "none" /\ UNCHANGED <<rdr, told>> /\ ~told.wrong
    BY DEF HwInv, KindOk, HwdepCreate, NoDriver
<1>2. /\ hw' \in HwType /\ hw'.kind = kind /\ hw'.count = hw.count /\ hw'.changed = hw.changed
      /\ hw'.word = hw.word /\ hw'.ring = hw.ring /\ hw'.push = hw.push /\ hw'.pull = hw.pull
      /\ hw'.opened = hw.opened
    BY <1>1 DEF HwdepCreate, HwType
<1>3. hw'.push = hw'.pull /\ hw'.word = {} /\ told.sent = 0 /\ told.got = 0 /\ rdr.pc = "away"
      /\ Ahead(hw'.pull, hw'.push) = 0 /\ HwQueue \in Nat \ {0}
    BY <1>1, <1>2, RingPlaces, HwAssumption DEF NoDriver, HwType
<1>4. KindOk(hw', rdr, told)
  <2>1. WordOk(hw', told) /\ MessageRing(hw', rdr, told) /\ QueueRing(hw', rdr, told)
      BY <1>3 DEF WordOk, MessageRing, Entries, LastOnes, QueueRing
  <2>2. ResponseRing(hw', rdr, told)
    <3>1. UnitsUpTo(0) \in Nat
        BY Units
    <3>2. QED
        BY <1>3, <3>1 DEF ResponseRing, ReadAt
  <2>3. QED
      BY <1>1, <1>3, <2>1, <2>2 DEF KindOk, NoDriver
<1>5. QED
    BY <1>1, <1>2, <1>4 DEF HwInv, LockTold

\* The lock, the wake-ups and the reader as far as it reads no message.
LEMMA LockKeeps ==
    ASSUME HwInv, StreamLockTry \/ StreamLockRelease \/ HwdepLock \/ HwdepUnlock \/ WakesUp
    PROVE  HwInv'
<1>1. /\ hw \in HwType /\ rdr \in ReaderType /\ told \in ToldType /\ LockTold(hw, told)
      /\ KindOk(hw, rdr, told)
    BY DEF HwInv
<1>2. PICK count \in Int, opened \in 0 .. HwMaxLock, changed \in BOOLEAN, wake \in BOOLEAN :
          /\ hw' = [hw EXCEPT !.count = count, !.opened = opened, !.changed = changed, !.wake = wake]
          /\ count <= opened /\ -1 <= count
          /\ ~changed => ~hw.changed /\ (count > 0 <=> hw.count > 0)
  <2>1. CASE StreamLockTry
    <3> DEFINE changed == hw.changed \/ hw.count = 0
    <3>1. hw' = [hw EXCEPT !.count = hw.count + 1, !.opened = hw.opened + 1, !.changed = changed,
                           !.wake = hw.wake]
        BY <1>1, <2>1 DEF StreamLockTry, HwType
    <3>2. /\ hw.count + 1 \in Int /\ hw.opened + 1 \in 0 .. HwMaxLock /\ hw.wake \in BOOLEAN
          /\ changed \in BOOLEAN
          /\ hw.count + 1 <= hw.opened + 1 /\ -1 <= hw.count + 1
          /\ ~changed => ~hw.changed /\ hw.count + 1 > 0 /\ hw.count > 0
        BY <1>1, <2>1, HwAssumption DEF StreamLockTry, HwType, LockTold
    <3> HIDE DEF changed
    <3>3. QED
        BY <3>1, <3>2
  <2>2. CASE StreamLockRelease
    <3> DEFINE changed == hw.changed \/ hw.count = 1
    <3>1. hw' = [hw EXCEPT !.count = hw.count - 1, !.opened = hw.opened, !.changed = changed,
                           !.wake = hw.wake]
        BY <1>1, <2>2 DEF StreamLockRelease, HwType
    <3>2. /\ hw.count - 1 \in Int /\ hw.opened \in 0 .. HwMaxLock /\ hw.wake \in BOOLEAN
          /\ changed \in BOOLEAN
          /\ hw.count - 1 <= hw.opened /\ -1 <= hw.count - 1
          /\ ~changed => ~hw.changed /\ hw.count - 1 > 0 /\ hw.count > 0
        BY <1>1, <2>2, HwAssumption DEF StreamLockRelease, HwType, LockTold
    <3> HIDE DEF changed
    <3>3. QED
        BY <3>1, <3>2
  <2>3. CASE HwdepLock \/ HwdepUnlock
    <3>1. PICK count \in {-1, 0} : hw' = [hw EXCEPT !.count = count] /\ hw.count \in {-1, 0}
        BY <2>3 DEF HwdepLock, HwdepUnlock
    <3>2. hw' = [hw EXCEPT !.count = count, !.opened = hw.opened, !.changed = hw.changed,
                           !.wake = hw.wake]
        BY <1>1, <3>1 DEF HwType
    <3>3. hw.opened \in 0 .. HwMaxLock /\ hw.changed \in BOOLEAN /\ hw.wake \in BOOLEAN
        BY <1>1 DEF HwType
    <3>4. count \in Int /\ count <= hw.opened /\ -1 <= count /\ ~(count > 0) /\ ~(hw.count > 0)
        BY <3>1, <3>3, HwAssumption
    <3>5. QED
        BY <3>2, <3>3, <3>4
  <2>4. CASE WakesUp
    <3>1. hw' = [hw EXCEPT !.count = hw.count, !.opened = hw.opened, !.changed = hw.changed,
                           !.wake = FALSE]
        BY <1>1, <2>4 DEF WakesUp, HwType
    <3>2. hw.opened \in 0 .. HwMaxLock /\ hw.changed \in BOOLEAN /\ hw.count \in Int
          /\ -1 <= hw.count /\ hw.count <= hw.opened
        BY <1>1, HwAssumption DEF HwType, LockTold
    <3>3. QED
        BY <3>1, <3>2
  <2>5. QED
      BY <2>1, <2>2, <2>3, <2>4
<1>3. count \in -1 .. HwMaxLock
    BY <1>2, HwAssumption
<1>4. /\ hw' \in HwType /\ hw'.kind = hw.kind /\ hw'.word = hw.word /\ hw'.ring = hw.ring
      /\ hw'.push = hw.push /\ hw'.pull = hw.pull
      /\ hw'.count = count /\ hw'.opened = opened /\ hw'.changed = changed
    BY <1>1, <1>2, <1>3 DEF HwType
<1>5. UNCHANGED told /\ (rdr' = rdr \/ rdr' = ReaderAwake)
    BY DEF StreamLockTry, StreamLockRelease, HwdepLock, HwdepUnlock, WakesUp
<1>6. rdr' \in ReaderType /\ (rdr' = rdr \/ (rdr.pc = "asleep" /\ rdr'.pc = "awake"))
    BY <1>1, <1>5, Wakes
<1>7. rdr.pc = "asleep" => hw.kind # "none"
    BY <1>1 DEF KindOk, NoDriver
<1>8. LockTold(hw', told')
  <2>1. ~changed => told.said = (count > 0)
    <3>1. ~changed => told.said = (hw.count > 0) /\ (count > 0) = (hw.count > 0)
        BY <1>1, <1>2 DEF LockTold
    <3>2. QED
        BY <3>1
  <2>2. QED
      BY <1>2, <1>4, <1>5, <2>1 DEF LockTold
<1>9. QED
    BY <1>1, <1>4, <1>5, <1>6, <1>7, <1>8, RingStays

LEMMA ReaderKeeps ==
    ASSUME HwInv, HwdepRead \/ FallsAsleep \/ PreparesToWait \/ hwdep_read_locked
                  \/ efw_hwdep_read \/ efw_hwdep_read_locked
    PROVE  HwInv'
<1>1. /\ hw \in HwType /\ rdr \in ReaderType /\ told \in ToldType /\ LockTold(hw, told)
      /\ KindOk(hw, rdr, told) /\ Away \in ReaderType
  <2>1. 0 \in Place /\ 0 \in 0 .. HwQueue
      BY HwAssumption DEF Place
  <2>2. QED
      BY <2>1 DEF HwInv, Away, ReaderType
<1>2. CASE HwdepRead \/ FallsAsleep \/ PreparesToWait \/ efw_hwdep_read
  <2>1. UNCHANGED <<hw, told>> /\ hw.kind # "none"
      BY <1>1, <1>2 DEF HwdepRead, FallsAsleep, PreparesToWait, efw_hwdep_read, KindOk, NoDriver
  <2>2. rdr.pc \notin {"copying", "copied"} /\ rdr'.pc \notin {"copying", "copied"} /\ rdr' \in ReaderType
    <3>1. CASE HwdepRead
      <4>1. PICK room \in HwRooms, odd \in BOOLEAN :
                rdr' = [Away EXCEPT !.pc = "awake", !.room = room, !.odd = odd /\ hw.kind = "motu dsp"]
          BY <3>1 DEF HwdepRead
      <4> DEFINE some == odd /\ hw.kind = "motu dsp"
      <4>2. some \in BOOLEAN /\ room \in Nat
          BY HwAssumption
      <4> HIDE DEF some
      <4>3. rdr' = [Away EXCEPT !.pc = "awake", !.room = room, !.odd = some]
          BY <4>1 DEF some
      <4>4. rdr' \in ReaderType /\ rdr'.pc = "awake"
          BY <1>1, <4>2, <4>3 DEF ReaderType
      <4>5. QED
          BY <3>1, <4>4 DEF HwdepRead
    <3>2. CASE FallsAsleep
      <4>1. PICK pc \in {"checked", "asleep"} : rdr' = [rdr EXCEPT !.pc = pc]
          BY <3>2 DEF FallsAsleep
      <4>2. QED
          BY <1>1, <3>2, <4>1 DEF FallsAsleep, ReaderType
    <3>3. CASE PreparesToWait \/ efw_hwdep_read
        BY <1>1, <3>3 DEF PreparesToWait, efw_hwdep_read, ReaderType
    <3>4. QED
        BY <1>2, <3>1, <3>2, <3>3
  <2>3. QED
      BY <1>1, <2>1, <2>2, RingStays
<1>3. CASE hwdep_read_locked \/ efw_hwdep_read_locked
  <2> DEFINE said == hw.count > 0
  <2>1. /\ rdr.pc \in {"awake", "telling"} /\ hw' = [hw EXCEPT !.changed = FALSE]
        /\ told' = [told EXCEPT !.said = said] /\ rdr' = Away
      BY <1>3 DEF hwdep_read_locked, efw_hwdep_read_locked
  <2>2. said \in BOOLEAN
      OBVIOUS
  <2>3. /\ hw' \in HwType /\ hw'.kind = hw.kind /\ hw'.word = hw.word /\ hw'.ring = hw.ring
        /\ hw'.push = hw.push /\ hw'.pull = hw.pull
        /\ hw'.count = hw.count /\ hw'.opened = hw.opened /\ ~hw'.changed
      BY <1>1, <2>1 DEF HwType
  <2> HIDE DEF said
  <2>4. /\ told' \in ToldType /\ told'.sent = told.sent /\ told'.got = told.got
        /\ told'.over = told.over /\ told'.wrong = told.wrong /\ told'.said = said
      BY <1>1, <2>1, <2>2 DEF ToldType
  <2>5. LockTold(hw', told')
      BY <1>1, <2>3, <2>4 DEF LockTold, said
  <2>6. hw.kind # "none" /\ rdr.pc \notin {"copying", "copied"} /\ rdr'.pc \notin {"copying", "copied"}
      BY <1>1, <2>1 DEF KindOk, NoDriver, Away
  <2>7. QED
      BY <1>1, <2>1, <2>3, <2>4, <2>5, <2>6, RingStays
<1>4. QED
    BY <1>2, <1>3

\* A message of the unit leaves the lock alone.
LEMMA SendsKeep ==
    ASSUME HwInv, NEW h, hw' = h, h \in HwType, told' \in ToldType, rdr' \in {rdr, ReaderAwake},
           hw.kind # "none", h.kind = hw.kind, h.count = hw.count, h.changed = hw.changed,
           h.opened = hw.opened, told'.said = told.said, told'.wrong = told.wrong,
           told.over => told'.over, KindOk(h, rdr, told')
    PROVE  HwInv'
<1>1. /\ rdr \in ReaderType /\ LockTold(hw, told)
      /\ told.wrong => told.over /\ hw.kind \in {"tascam", "efw"}
    BY DEF HwInv
<1>2. rdr' \in ReaderType /\ (rdr' = rdr \/ (rdr.pc = "asleep" /\ rdr'.pc = "awake"))
    BY <1>1, Wakes
<1>3. LockTold(h, told')
    BY <1>1 DEF LockTold
<1>4. KindOk(h, rdr', told')
  <2>1. CASE rdr' = rdr
      BY <2>1
  <2>2. CASE rdr.pc = "asleep" /\ rdr'.pc = "awake"
    <3>1. Entries(h, rdr') = Entries(h, rdr) /\ ReadAt(h, rdr') = ReadAt(h, rdr)
        BY <2>2 DEF Entries, ReadAt
    <3>2. h.kind \in {"ff400", "motu dsp"} => MessageRing(h, rdr', told')
        BY <2>2, <3>1 DEF KindOk, MessageRing
    <3>3. h.kind = "tascam" /\ ~told'.over => QueueRing(h, rdr', told')
        BY <2>2 DEF KindOk, QueueRing
    <3>4. h.kind = "efw" /\ ~told'.over => ResponseRing(h, rdr', told')
        BY <3>1 DEF KindOk, ResponseRing
    <3>5. QED
        BY <2>2, <3>2, <3>3, <3>4 DEF KindOk
  <2>3. QED
      BY <1>2, <2>1, <2>2
<1>5. QED
    BY <1>1, <1>2, <1>3, <1>4 DEF HwInv

LEMMA WordKeeps ==
    ASSUME HwInv, dice_notification \/ handle_message
    PROVE  HwInv'
<1> DEFINE lost == IF dice_notification THEN told.over ELSE told.over \/ hw.word # {}
           word == IF dice_notification THEN hw.word \cup {Sent} ELSE {Sent}
<1>1. /\ hw \in HwType /\ told \in ToldType /\ KindOk(hw, rdr, told) /\ UnitSends
      /\ hw.kind \in WordKinds /\ rdr' = rdr
    BY DEF HwInv, dice_notification, handle_message, WordKinds
<1>2. WordOk(hw, told)
    BY <1>1 DEF KindOk
<1>3. /\ told.sent \in Nat /\ told.got \in Nat /\ Sent = told.sent + 1 /\ Sent \in 1 .. HwMaxEvents
      /\ told.over \in BOOLEAN /\ told.missed \in BOOLEAN
    BY <1>1, HwAssumption DEF ToldType, UnitSends, Sent
<1>4. /\ lost \in BOOLEAN /\ (told.over => lost)
      /\ word \in SUBSET (1 .. HwMaxEvents)
    BY <1>1, <1>3 DEF HwType
<1>5. hw' = [hw EXCEPT !.word = word, !.wake = TRUE]
      /\ told' = [told EXCEPT !.sent = Sent, !.over = lost, !.missed = told.missed]
  <2>1. CASE dice_notification
      BY <1>1, <2>1 DEF dice_notification, ToldType
  <2>2. CASE ~dice_notification /\ handle_message
      BY <1>1, <2>2 DEF handle_message, ToldType
  <2>3. QED
      BY <2>1, <2>2
<1>6. PICK over \in BOOLEAN :
           /\ told' = [told EXCEPT !.sent = told.sent + 1, !.over = over, !.missed = told.missed]
           /\ over = lost
  <2> HIDE DEF lost
  <2>1. told' = [told EXCEPT !.sent = told.sent + 1, !.over = lost, !.missed = told.missed]
      BY <1>3, <1>5
  <2>2. QED
      BY <1>3, <1>4, <2>1
\* The messages held are the last ones.
<1>7. PICK lo \in 1 .. Sent : word = lo .. Sent /\ told.got < lo /\ (~over => lo = told.got + 1)
  <2>1. CASE hw.word = {}
    <3>1. told.got <= told.sent /\ (~over => told.got = told.sent)
        BY <1>2, <1>4, <1>6, <2>1 DEF WordOk
    <3>2. word = {Sent} /\ {Sent} = Sent .. Sent
        BY <1>3, <2>1
    <3>3. Sent \in 1 .. Sent /\ told.got < Sent /\ (~over => Sent = told.got + 1)
        BY <1>3, <3>1
    <3>4. QED
        BY <3>2, <3>3
  <2>2. CASE hw.word # {} /\ dice_notification
    <3>1. PICK lo \in 1 .. told.sent : /\ hw.word = lo .. told.sent /\ told.got < lo
                                       /\ ~told.over => lo = told.got + 1
        BY <1>2, <2>2 DEF WordOk
    <3>2. word = lo .. Sent /\ lo \in 1 .. Sent
        BY <1>3, <2>2, <3>1
    <3>3. QED
        BY <1>4, <1>6, <2>2, <3>1, <3>2
  <2>3. CASE hw.word # {} /\ ~dice_notification
    <3>1. over
        BY <1>6, <2>3
    <3>2. word = {Sent} /\ {Sent} = Sent .. Sent
        BY <1>3, <2>3
    <3>3. PICK lo \in 1 .. told.sent : told.got < lo
        BY <1>2, <2>3 DEF WordOk
    <3>4. Sent \in 1 .. Sent /\ told.got < Sent
        BY <1>3, <3>3
    <3>5. QED
        BY <3>1, <3>4, <3>2
  <2>4. QED
      BY <2>1, <2>2, <2>3
<1> HIDE DEF lost, word
<1>8. /\ told' \in ToldType /\ told'.sent = told.sent + 1 /\ told'.got = told.got
      /\ told'.over = over /\ told'.wrong = told.wrong /\ told'.said = told.said
  <2>1. told.sent + 1 \in 0 .. HwMaxEvents
      BY <1>3
  <2>2. QED
      BY <1>1, <1>3, <1>6, <2>1 DEF ToldType
<1>9. /\ hw' \in HwType /\ hw'.word = word /\ hw'.push = hw.push /\ hw'.pull = hw.pull
      /\ hw'.kind = hw.kind /\ hw'.count = hw.count /\ hw'.changed = hw.changed
      /\ hw'.opened = hw.opened
    BY <1>1, <1>4, <1>5 DEF HwType
<1>10. WordOk(hw', told')
  <2>1. hw'.push = hw'.pull
      BY <1>2, <1>9 DEF WordOk
  <2>2. hw'.word # {} /\ told'.sent = Sent
      BY <1>3, <1>7, <1>8, <1>9
  <2>3. QED
      BY <1>7, <1>8, <1>9, <2>1, <2>2 DEF WordOk
<1>11. KindOk(hw', rdr, told')
    BY <1>1, <1>9, <1>10 DEF KindOk, WordKinds
<1>12. QED
  <2>1. told.over => told'.over
      BY <1>4, <1>8, <1>6
  <2>2. hw.kind # "none"
      BY <1>1 DEF WordKinds
  <2> DEFINE h == hw'
  <2>3. /\ hw' = h /\ h \in HwType /\ h.kind = hw.kind /\ h.count = hw.count
        /\ h.changed = hw.changed /\ h.opened = hw.opened /\ KindOk(h, rdr, told')
      BY <1>9, <1>11
  <2> HIDE DEF h
  <2>4. QED
      BY <1>1, <1>8, <2>1, <2>2, <2>3, SendsKeep

\* The rings that are never full.
LEMMA RingKeeps ==
    ASSUME HwInv, ff400_handle_msg \/ QueueDspEvent \/ read_status_messages
    PROVE  HwInv'
<1> DEFINE lost == told.over \/ Next1(hw.push) = hw.pull
           silent == IF QueueDspEvent THEN told.missed \/ rdr.pc = "checked" ELSE told.missed
           wake == IF read_status_messages THEN TRUE ELSE hw.wake
           p == Pushed(hw, Sent)
           h == [p EXCEPT !.wake = wake]
<1>1. /\ hw \in HwType /\ told \in ToldType /\ rdr \in ReaderType /\ KindOk(hw, rdr, told)
      /\ rdr' \in {rdr, ReaderAwake} /\ hw.kind \in {"ff400", "motu dsp", "tascam"}
      /\ read_status_messages <=> hw.kind = "tascam"
      /\ QueueDspEvent <=> hw.kind = "motu dsp"
    BY DEF HwInv, ff400_handle_msg, QueueDspEvent, read_status_messages
<1>2. told \in ToldType /\ UnitSends
    BY DEF HwInv, ff400_handle_msg, QueueDspEvent, read_status_messages
<1>3. /\ told.sent \in Nat /\ told.got \in Nat /\ Sent = told.sent + 1 /\ Sent \in Nat
      /\ told.over \in BOOLEAN /\ told.missed \in BOOLEAN /\ hw.wake \in BOOLEAN
      /\ hw.push \in Place /\ hw.pull \in Place
  <2>1. hw.wake \in BOOLEAN /\ hw.push \in Place /\ hw.pull \in Place
      BY <1>1 DEF HwType
  <2>2. told.over \in BOOLEAN /\ told.missed \in BOOLEAN
      BY <1>2 DEF ToldType
  <2>3. told.sent \in Nat /\ told.got \in Nat /\ Sent = told.sent + 1 /\ Sent \in Nat
      BY <1>2, HwAssumption DEF ToldType, Sent
  <2>4. QED
      BY <2>1, <2>2, <2>3
<1>4. /\ lost \in BOOLEAN /\ (told.over => lost) /\ wake \in BOOLEAN /\ silent \in BOOLEAN
      /\ lost <=> told.over \/ Onward(hw.push, 1) = hw.pull
    BY <1>3, IndexMoves
<1>5. /\ p \in HwType /\ p.ring = [hw.ring EXCEPT ![hw.push] = Sent]
      /\ p.push = Onward(hw.push, 1)
      /\ p.kind = hw.kind /\ p.count = hw.count /\ p.changed = hw.changed /\ p.word = hw.word
      /\ p.wake = hw.wake /\ p.pull = hw.pull /\ p.opened = hw.opened
    BY <1>1, <1>3, Pushes
<1>6. PICK over \in BOOLEAN, missed \in BOOLEAN :
          /\ told' = [told EXCEPT !.sent = told.sent + 1, !.over = over, !.missed = missed]
          /\ over <=> told.over \/ Onward(hw.push, 1) = hw.pull
          /\ told.over => over
  <2>1. told' = [told EXCEPT !.sent = Sent, !.over = lost, !.missed = silent]
    <3>1. CASE QueueDspEvent
        BY <3>1 DEF QueueDspEvent
    <3>2. CASE ~QueueDspEvent
        BY <1>1, <3>2 DEF ff400_handle_msg, read_status_messages, ToldType
    <3>3. QED
        BY <3>1, <3>2
  <2> HIDE DEF lost, silent
  <2>2. told' = [told EXCEPT !.sent = told.sent + 1, !.over = lost, !.missed = silent]
      BY <1>3, <2>1
  <2>3. QED
      BY <1>4, <2>2
<1>7. hw' = h
  <2>1. CASE read_status_messages
      BY <2>1 DEF read_status_messages
  <2>2. CASE ~read_status_messages
    <3>1. hw' = p /\ wake = hw.wake
        BY <2>2 DEF ff400_handle_msg, QueueDspEvent
    <3> HIDE DEF p, wake
    <3>2. QED
        BY <1>5, <3>1 DEF HwType
  <2>3. QED
      BY <2>1, <2>2
<1> HIDE DEF lost, silent, wake, p
<1>8. /\ h \in HwType /\ h.ring = [hw.ring EXCEPT ![hw.push] = Sent]
      /\ h.push = Onward(hw.push, 1)
      /\ h.kind = hw.kind /\ h.count = hw.count /\ h.changed = hw.changed /\ h.word = hw.word
      /\ h.pull = hw.pull /\ h.opened = hw.opened
  <2>1. /\ h \in HwType /\ h.ring = p.ring /\ h.push = p.push /\ h.kind = p.kind
        /\ h.count = p.count /\ h.changed = p.changed /\ h.word = p.word
        /\ h.pull = p.pull /\ h.opened = p.opened
    <3>1. wake \in BOOLEAN /\ p \in HwType
        BY <1>4, <1>5
    <3>2. QED
        BY <3>1 DEF HwType
  <2> HIDE DEF h
  <2>2. QED
      BY <1>5, <2>1
<1> HIDE DEF h
<1>9. /\ told' \in ToldType /\ told'.sent = told.sent + 1 /\ told'.got = told.got
      /\ told'.over = over /\ told'.wrong = told.wrong /\ told'.said = told.said
  <2>1. told.sent + 1 \in 0 .. HwMaxEvents
      BY <1>2, HwAssumption DEF UnitSends, ToldType
  <2>2. QED
      BY <1>6, <1>2, <2>1 DEF ToldType
<1>10. KindOk(h, rdr, told')
  <2>1. CASE hw.kind # "tascam"
    <3>1. MessageRing(hw, rdr, told)
        BY <1>1, <2>1 DEF KindOk
    <3>2. MessageRing(h, rdr, told')
      <4>1. /\ h.pull = hw.pull /\ h.ring = [hw.ring EXCEPT ![hw.push] = told.sent + 1]
            /\ h.push = Onward(hw.push, 1)
          BY <1>3, <1>8
      <4>2. /\ told'.sent = told.sent + 1 /\ told'.got = told.got
            /\ told'.over <=> (told.over \/ Onward(hw.push, 1) = hw.pull)
          BY <1>6, <1>9
      <4>3. /\ hw \in HwType /\ h \in HwType /\ told \in ToldType /\ told' \in ToldType
            /\ rdr \in ReaderType
          BY <1>1, <1>8, <1>9
      <4>4. QED
          BY <3>1, <4>1, <4>2, <4>3, MessagePushed
    <3>3. QED
        BY <1>1, <1>8, <2>1, <3>2 DEF KindOk, WordKinds
  <2>2. CASE hw.kind = "tascam"
    <3>1. ~over => QueueRing(h, rdr, told')
      <4> SUFFICES ASSUME ~over PROVE QueueRing(h, rdr, told')
          OBVIOUS
      <4>1. QueueRing(hw, rdr, told) /\ Onward(hw.push, 1) # hw.pull
          BY <1>1, <1>6, <2>2 DEF KindOk
      <4>2. QED
          BY <1>1, <1>3, <1>8, <1>9, <4>1, QueuePushed
    <3>2. QED
        BY <1>1, <1>8, <1>9, <2>2, <3>1 DEF KindOk, WordKinds
  <2>3. QED
      BY <2>1, <2>2
<1>11. QED
    BY <1>1, <1>6, <1>7, <1>8, <1>9, <1>10, SendsKeep

LEMMA ResponseKeeps ==
    ASSUME HwInv, copy_resp_to_buf
    PROVE  HwInv'
<1> DEFINE len == EventLength(Sent)
           a == Ahead(hw.pull, hw.push)
           lost == told.over \/ Capacity = len
           p == Pushed(hw, Sent)
           h == IF len = 1 THEN p ELSE Pushed(p, Sent)
<1>1. /\ hw \in HwType /\ told \in ToldType /\ rdr \in ReaderType /\ KindOk(hw, rdr, told)
      /\ UnitSends /\ rdr' \in {rdr, ReaderAwake} /\ hw.kind = "efw"
      /\ hw' = h /\ Capacity >= len
      /\ told' = [told EXCEPT !.sent = Sent, !.over = lost]
    BY DEF HwInv, copy_resp_to_buf
<1>2. /\ told.sent \in Nat /\ told.got \in Nat /\ Sent = told.sent + 1 /\ Sent \in Nat
      /\ told.over \in BOOLEAN /\ told.missed \in BOOLEAN
      /\ hw.push \in Place /\ hw.pull \in Place /\ lost \in BOOLEAN /\ HwQueue \in Nat \ {0}
    BY <1>1, HwAssumption DEF ToldType, Sent, HwType
<1>3. len \in {1, 2}
    BY <1>2, Units
<1>4. Capacity = HwQueue - a
    BY <1>2 DEF Capacity, Ahead, Place
<1>5. /\ p \in HwType /\ p.ring = [hw.ring EXCEPT ![hw.push] = Sent]
      /\ p.push = Onward(hw.push, 1)
      /\ p.kind = hw.kind /\ p.count = hw.count /\ p.changed = hw.changed /\ p.word = hw.word
      /\ p.wake = hw.wake /\ p.pull = hw.pull /\ p.opened = hw.opened
    BY <1>1, <1>2, Pushes
<1>6. /\ Pushed(p, Sent) \in HwType /\ Pushed(p, Sent).ring = [p.ring EXCEPT ![p.push] = Sent]
      /\ Pushed(p, Sent).push = Onward(p.push, 1)
      /\ Pushed(p, Sent).kind = p.kind /\ Pushed(p, Sent).count = p.count
      /\ Pushed(p, Sent).changed = p.changed /\ Pushed(p, Sent).word = p.word
      /\ Pushed(p, Sent).pull = p.pull /\ Pushed(p, Sent).opened = p.opened
  <2> HIDE DEF p
  <2>1. QED
      BY <1>2, <1>5, Pushes
<1>7. PICK over \in BOOLEAN :
          /\ told' = [told EXCEPT !.sent = told.sent + 1, !.over = over, !.missed = told.missed]
          /\ over <=> told.over \/ Capacity = len
  <2>1. told' = [told EXCEPT !.sent = Sent, !.over = lost, !.missed = told.missed]
      BY <1>1 DEF ToldType
  <2>2. lost <=> told.over \/ Capacity = len
      OBVIOUS
  <2> HIDE DEF lost
  <2>3. told' = [told EXCEPT !.sent = told.sent + 1, !.over = lost, !.missed = told.missed]
      BY <1>2, <2>1
  <2>4. QED
      BY <1>2, <2>2, <2>3
<1> HIDE DEF lost, p, len, a
<1>8. /\ told' \in ToldType /\ told'.sent = told.sent + 1 /\ told'.got = told.got
      /\ told'.over = over /\ told'.wrong = told.wrong /\ told'.said = told.said
  <2>1. told.sent + 1 \in 0 .. HwMaxEvents
      BY <1>1, <1>2, HwAssumption DEF UnitSends, ToldType
  <2>2. QED
      BY <1>1, <1>2, <1>7, <2>1 DEF ToldType
<1>9. /\ h \in HwType /\ h.kind = hw.kind /\ h.count = hw.count /\ h.changed = hw.changed
      /\ h.word = hw.word /\ h.pull = hw.pull /\ h.opened = hw.opened
    BY <1>5, <1>6
<1>10. ~over => ResponseRing(h, rdr, told')
  <2> SUFFICES ASSUME ~over PROVE ResponseRing(h, rdr, told')
      OBVIOUS
  <2>1. ResponseRing(hw, rdr, told) /\ a + len < HwQueue
    <3>1. ~told.over /\ Capacity # len
        BY <1>7
    <3>2. a \in 0 .. HwQueue - 1
        BY <1>2, RingPlaces DEF a
    <3>3. QED
        BY <1>1, <1>2, <1>3, <1>4, <3>1, <3>2 DEF KindOk
  <2>2. hw.ring \in [Place -> Nat] /\ Onward(hw.push, 1) \in Place /\ Onward(hw.push, 1) # hw.push
    <3>1. a \in 0 .. HwQueue - 1 /\ 1 \in 0 .. HwQueue
      <4>1. a \in 0 .. HwQueue - 1
          BY <1>2, RingPlaces DEF a
      <4>2. QED
          BY <1>2, <4>1
    <3>2. 0 \in 0 .. HwQueue - 1 /\ 1 \in 0 .. HwQueue - 1
        BY <1>2, <1>3, <2>1, <3>1
    <3>3. Onward(hw.push, 0) # Onward(hw.push, 1) /\ Onward(hw.push, 0) = hw.push
        BY <1>2, <3>2, PlacesDiffer, RingPlaces
    <3>4. QED
        BY <1>1, <1>2, <3>1, <3>3, PlacesOnward DEF HwType
  <2>3. h.push = Onward(hw.push, len)
    <3>1. CASE len = 1
        BY <1>5, <3>1
    <3>2. CASE len = 2
      <4>1. a \in 0 .. HwQueue - 1
          BY <1>2, RingPlaces DEF a
      <4>2. 1 \in 0 .. HwQueue /\ 1 + 1 <= HwQueue /\ 1 + 1 = 2
          BY <1>2, <2>1, <3>2, <4>1
      <4>3. Onward(Onward(hw.push, 1), 1) = Onward(hw.push, 1 + 1)
          BY <1>2, <4>2, OnwardTwice
      <4>4. h.push = Onward(Onward(hw.push, 1), 1)
          BY <1>5, <1>6, <3>2
      <4>5. QED
          BY <3>2, <4>2, <4>3, <4>4
    <3>3. QED
        BY <1>3, <3>1, <3>2
  <2>4. /\ h.ring[hw.push] = Sent
        /\ \A x \in Place : \/ h.ring[x] = hw.ring[x] \/ x = hw.push
                            \/ len = 2 /\ x = Onward(hw.push, 1)
    <3>1. CASE len = 1
        BY <1>2, <1>5, <2>2, <3>1
    <3>2. CASE len = 2
      <4>1. h.ring = [p.ring EXCEPT ![Onward(hw.push, 1)] = Sent]
          BY <1>5, <1>6, <3>2
      <4>2. QED
          BY <1>2, <1>5, <2>2, <3>2, <4>1
    <3>3. QED
        BY <1>3, <3>1, <3>2
  <2>5. told'.sent = Sent /\ len = EventLength(told'.sent)
      BY <1>2, <1>8 DEF len
  <2> HIDE DEF h
  <2>6. QED
      BY <1>1, <1>3, <1>8, <1>9, <2>1, <2>3, <2>4, <2>5, ResponsePushed DEF a
<1>11. KindOk(h, rdr, told')
    BY <1>1, <1>8, <1>9, <1>10 DEF KindOk, WordKinds
<1>12. told.over => told'.over
    BY <1>7, <1>8
<1> HIDE DEF h
<1>13. QED
    BY <1>1, <1>8, <1>9, <1>11, <1>12, SendsKeep

\* What the application reads leaves the lock alone.
LEMMA ReadsKeep ==
    ASSUME HwInv, hw' \in HwType, rdr' \in ReaderType, told' \in ToldType,
           hw'.kind = hw.kind, hw'.count = hw.count, hw'.changed = hw.changed,
           hw'.opened = hw.opened, told'.said = told.said,
           told'.wrong => told'.over /\ hw.kind \in {"tascam", "efw"},
           KindOk(hw', rdr', told')
    PROVE  HwInv'
<1>1. LockTold(hw', told')
    BY DEF HwInv, LockTold
<1>2. QED
    BY <1>1 DEF HwInv

LEMMA OrderedInterval ==
    ASSUME NEW lo \in Nat, NEW hi \in Nat, lo <= hi
    PROVE  Ordered(lo .. hi) = [i \in 1 .. hi - lo + 1 |-> lo + i - 1]
<1> DEFINE S == lo .. hi
           first == CHOOSE n \in S : \A m \in S : n <= m
           last == CHOOSE n \in S : \A m \in S : n >= m
<1>1. /\ lo \in S /\ \A m \in S : lo <= m
      /\ hi \in S /\ \A m \in S : hi >= m
    OBVIOUS
<1>2. first \in S /\ \A m \in S : first <= m
  <2> HIDE DEF S
  <2>1. QED
      BY <1>1, Zenon
<1>3. last \in S /\ \A m \in S : last >= m
  <2> HIDE DEF S
  <2>1. QED
      BY <1>1, Zenon
<1>4. Ordered(S) = [i \in 1 .. last - first + 1 |-> first + i - 1]
  <2>1. S # {}
      BY <1>1
  <2> HIDE DEF S
  <2>2. QED
      BY <2>1 DEF Ordered
<1> HIDE DEF first, last
<1>5. first = lo /\ last = hi
    BY <1>1, <1>2, <1>3
<1>6. QED
    BY <1>4, <1>5

LEMMA WordRead ==
    ASSUME HwInv, hwdep_read_word
    PROVE  HwInv'
<1>1. /\ hw \in HwType /\ rdr \in ReaderType /\ told \in ToldType /\ KindOk(hw, rdr, told)
    BY DEF HwInv
<1>2. /\ hw.word # {} /\ told' = Gives(Ordered(hw.word), FALSE)
      /\ hw' = [hw EXCEPT !.word = {}] /\ rdr' = Away
    BY DEF hwdep_read_word
<1>3. hw.kind \in WordKinds /\ WordOk(hw, told) /\ hw.push = hw.pull
    BY <1>1, <1>2 DEF KindOk, WordOk
<1>4. PICK lo \in 1 .. told.sent : /\ hw.word = lo .. told.sent /\ told.got < lo
                                   /\ ~told.over => lo = told.got + 1
    BY <1>2, <1>3 DEF WordOk
<1>5. told.sent \in Nat /\ told.got \in Nat /\ lo \in Nat
    BY <1>1, <1>4, HwAssumption DEF ToldType
<1> DEFINE n == told.sent - lo + 1
<1>6. Ordered(hw.word) = [i \in 1 .. n |-> lo + i - 1]
    BY <1>4, <1>5, OrderedInterval
<1>7. n \in Nat \ {0} /\ lo + n - 1 = told.sent
    BY <1>4, <1>5
<1> HIDE DEF n
<1>8. /\ told' \in ToldType /\ told'.got = told.sent /\ told'.over = told.over
      /\ told'.wrong = told.wrong /\ told'.sent = told.sent /\ told'.said = told.said
  <2> DEFINE t == Gives([i \in 1 .. n |-> lo + i - 1], FALSE)
  <2>1. /\ t \in ToldType /\ t.got = lo + n - 1 /\ t.over = told.over /\ t.wrong = told.wrong
        /\ t.sent = told.sent /\ t.said = told.said
      BY <1>1, <1>4, <1>5, <1>7, GivesInOrder
  <2>2. told' = t
      BY <1>2, <1>6
  <2> HIDE DEF t
  <2>3. QED
      BY <1>7, <2>1, <2>2
<1>9. /\ hw' \in HwType /\ hw'.kind = hw.kind /\ hw'.count = hw.count /\ hw'.changed = hw.changed
      /\ hw'.opened = hw.opened /\ hw'.word = {} /\ hw'.push = hw'.pull
    BY <1>1, <1>2, <1>3 DEF HwType
<1>10. rdr' \in ReaderType
    BY <1>2, HwAssumption DEF Away, ReaderType, Place
<1>11. WordOk(hw', told')
    BY <1>5, <1>8, <1>9 DEF WordOk
<1>12. KindOk(hw', rdr', told')
    BY <1>3, <1>9, <1>11 DEF KindOk, WordKinds
<1>13. told'.wrong => told'.over /\ hw.kind \in {"tascam", "efw"}
    BY <1>8 DEF HwInv
<1>14. QED
    BY <1>8, <1>9, <1>10, <1>12, <1>13, ReadsKeep

\* The messages held when the application has read i of them.
LEMMA OnesRead ==
    ASSUME NEW h \in HwType, NEW g, NEW t, NEW u, NEW n \in 0 .. HwQueue, NEW i \in 0 .. n,
           t.sent \in Nat, u.sent = t.sent, g.ring = h.ring, g.pull = Onward(h.pull, i),
           LastOnes(h, t, n)
    PROVE  LastOnes(g, u, n - i)
<1> SUFFICES ASSUME NEW j \in 0 .. (n - i) - 1
             PROVE  g.ring[Onward(g.pull, j)] = u.sent - (n - i) + 1 + j
    BY DEF LastOnes
<1>1. h.pull \in Place /\ i \in 0 .. HwQueue /\ j \in 0 .. HwQueue /\ i + j <= HwQueue
      /\ i + j \in 0 .. n - 1
    BY HwAssumption DEF HwType
<1>2. Onward(g.pull, j) = Onward(h.pull, i + j)
    BY <1>1, OnwardTwice
<1>3. h.ring[Onward(h.pull, i + j)] = t.sent - n + 1 + (i + j)
    BY <1>1 DEF LastOnes
<1>4. t.sent - n + 1 + (i + j) = u.sent - (n - i) + 1 + j
    BY HwAssumption
<1>5. QED
    BY <1>2, <1>3, <1>4

LEMMA ToldNumbers == told \in ToldType => told.sent \in Nat /\ told.got \in Nat
BY HwAssumption DEF ToldType

LEMMA AwayOk == Away \in ReaderType /\ Away.pc = "away"
BY HwAssumption DEF Away, ReaderType, Place

\* What tascam's reader takes next.
LEMMA SpanWithin ==
    ASSUME hw \in HwType, NEW pull \in Place, NEW room \in Nat
    PROVE  LET r == Span(pull, room)
           IN  /\ r \in ReaderType
               /\ \/ r.pc = "away"
                  \/ /\ r.pc = "copying" /\ r.room > 0 /\ r.from = pull
                     /\ r.from < r.to /\ r.to - r.from <= Ahead(pull, hw.push)
<1> DEFINE end == IF pull < hw.push THEN hw.push ELSE HwQueue
           s == [Away EXCEPT !.pc = "copying", !.room = room, !.from = pull, !.to = end]
<1>1. hw.push \in Place /\ HwQueue \in Nat \ {0}
    BY HwAssumption DEF HwType
<1>2. CASE pull = hw.push \/ room = 0
  <2>1. Span(pull, room) = Away
      BY <1>2 DEF Span
  <2>2. QED
      BY <2>1, AwayOk
<1>3. CASE ~(pull = hw.push \/ room = 0)
  <2>1. Span(pull, room) = s
      BY <1>3 DEF Span
  <2>2. end \in 0 .. HwQueue /\ pull < end /\ end - pull <= Ahead(pull, hw.push) /\ room > 0
      BY <1>1, <1>3 DEF Place, Ahead
  <2> HIDE DEF end
  <2>3. /\ s \in ReaderType /\ s.pc = "copying" /\ s.room = room /\ s.from = pull /\ s.to = end
      BY <2>2, AwayOk DEF ReaderType
  <2> HIDE DEF s
  <2>4. QED
      BY <2>1, <2>2, <2>3
<1>4. QED
    BY <1>2, <1>3

LEMMA QueueRead ==
    ASSUME HwInv, tscm_hwdep_read_queue
    PROVE  HwInv'
<1>1. /\ hw \in HwType /\ rdr \in ReaderType /\ told \in ToldType /\ KindOk(hw, rdr, told)
      /\ rdr.pc = "awake" /\ hw.kind = "tascam"
      /\ rdr' = Span(hw.pull, rdr.room) /\ UNCHANGED <<hw, told>>
    BY DEF HwInv, tscm_hwdep_read_queue, Reads
<1>2. hw.pull \in Place /\ rdr.room \in Nat
    BY <1>1 DEF HwType, ReaderType
<1>3. /\ rdr' \in ReaderType
      /\ \/ rdr'.pc = "away"
         \/ /\ rdr'.pc = "copying" /\ rdr'.room > 0 /\ rdr'.from = hw.pull
            /\ rdr'.from < rdr'.to /\ rdr'.to - rdr'.from <= Ahead(hw.pull, hw.push)
  <2> DEFINE r == Span(hw.pull, rdr.room)
  <2>1. /\ r \in ReaderType
        /\ \/ r.pc = "away"
           \/ /\ r.pc = "copying" /\ r.room > 0 /\ r.from = hw.pull
              /\ r.from < r.to /\ r.to - r.from <= Ahead(hw.pull, hw.push)
      BY <1>1, <1>2, SpanWithin
  <2>2. rdr' = r
      BY <1>1
  <2> HIDE DEF r
  <2>3. QED
      BY <2>1, <2>2
<1>4. ~told.over => QueueRing(hw, rdr', told)
    BY <1>1, <1>3 DEF KindOk, QueueRing
<1>5. KindOk(hw', rdr', told')
    BY <1>1, <1>3, <1>4 DEF KindOk, WordKinds
<1>6. QED
    BY <1>1, <1>3, <1>5, ReadsKeep DEF HwInv

LEMMA QueueCopied ==
    ASSUME HwInv, TscmCopies
    PROVE  HwInv'
<1> DEFINE n == Ahead(hw.pull, hw.push)
           len == TscmLength
           q == [i \in 1 .. len |-> hw.ring[rdr.from + i - 1]]
<1>1. /\ hw \in HwType /\ rdr \in ReaderType /\ told \in ToldType /\ KindOk(hw, rdr, told)
      /\ rdr.pc = "copying" /\ hw.kind = "tascam"
      /\ told' = Gives(q, FALSE) /\ rdr' = [rdr EXCEPT !.pc = "copied"] /\ hw' = hw
    BY DEF HwInv, TscmCopies
<1>2. /\ rdr.room \in Nat /\ rdr.from \in Place /\ rdr.to \in 0 .. HwQueue
      /\ hw.pull \in Place /\ hw.push \in Place /\ hw.ring \in [Place -> Nat]
      /\ told.sent \in Nat /\ told.got \in Nat /\ HwQueue \in Nat \ {0}
    BY <1>1, HwAssumption DEF HwType, ReaderType, ToldType
<1>3. rdr.from < rdr.to /\ rdr.room > 0
    BY <1>1 DEF KindOk
<1>4. len \in Nat \ {0} /\ len <= rdr.to - rdr.from /\ len = Copied(rdr)
  <2>1. rdr.to - rdr.from \in Nat \ {0} /\ rdr.room \in Nat \ {0}
    <3>1. rdr.to \in Int /\ rdr.from \in Int
        BY <1>2 DEF Place
    <3>2. rdr.to - rdr.from \in Nat \ {0}
        BY <1>3, <3>1
    <3>3. QED
        BY <1>2, <1>3, <3>2
  <2>2. len = (IF rdr.room < rdr.to - rdr.from THEN rdr.room ELSE rdr.to - rdr.from)
        /\ len = Copied(rdr)
      BY DEF TscmLength, Copied
  <2> HIDE DEF len
  <2>3. QED
      BY <2>1, <2>2
<1>5. \A i \in 1 .. len : rdr.from + i - 1 \in Place /\ rdr.from + i - 1 = Onward(rdr.from, i - 1)
  <2> HIDE DEF len
  <2>1. len \in Nat /\ rdr.from \in Int /\ rdr.to \in Int /\ 0 <= rdr.from
        /\ rdr.from + len <= HwQueue
      BY <1>2, <1>4 DEF Place
  <2> SUFFICES ASSUME NEW i \in 1 .. len
               PROVE  rdr.from + i - 1 \in Place /\ rdr.from + i - 1 = Onward(rdr.from, i - 1)
      OBVIOUS
  <2>2. rdr.from + (i - 1) < HwQueue /\ rdr.from + (i - 1) = rdr.from + i - 1
        /\ rdr.from + i - 1 \in Place
    <3> DEFINE from == rdr.from
    <3>1. from \in Nat /\ HwQueue \in Nat /\ from + len <= HwQueue /\ i \in Nat /\ 1 <= i /\ i <= len
        BY <1>2, <2>1
    <3> HIDE DEF from
    <3>2. from + (i - 1) < HwQueue /\ from + (i - 1) = from + i - 1 /\ from + i - 1 \in Place
        BY <2>1, <3>1 DEF Place
    <3>3. QED
        BY <3>2 DEF from
  <2>3. QED
      BY <2>2 DEF Onward
<1>6. q \in [1 .. len -> Nat]
    BY <1>2, <1>5
<1>7. ~told.over => QueueRing(hw, rdr, told)
    BY <1>1 DEF KindOk
<1>8. ~told.over => q = [i \in 1 .. len |-> (told.got + 1) + i - 1]
  <2> SUFFICES ASSUME ~told.over PROVE q = [i \in 1 .. len |-> (told.got + 1) + i - 1]
      OBVIOUS
  <2>1. /\ LastOnes(hw, told, n) /\ told.got + n = told.sent /\ rdr.from = hw.pull
        /\ rdr.to - rdr.from <= n
    <3>1. QueueRing(hw, rdr, told) /\ rdr.pc # "copied"
        BY <1>1, <1>7
    <3>2. told.sent + 0 = told.sent
        BY <1>2
    <3>3. QED
        BY <1>1, <3>1, <3>2 DEF QueueRing
  <2>2. n \in 0 .. HwQueue - 1
      BY <1>2, RingPlaces
  <2> HIDE DEF n, len
  <2>3. ASSUME NEW i \in 1 .. len
        PROVE  hw.ring[rdr.from + i - 1] = (told.got + 1) + i - 1
    <3>1. i - 1 \in 0 .. n - 1
      <4>1. rdr.to \in Int /\ rdr.from \in Int /\ len \in Nat /\ len <= rdr.to - rdr.from
          BY <1>2, <1>4 DEF Place
      <4>2. len <= n
          BY <1>2, <2>1, <2>2, <4>1
      <4>3. QED
          BY <1>2, <2>2, <4>1, <4>2
    <3>2. hw.ring[Onward(hw.pull, i - 1)] = told.sent - n + 1 + (i - 1)
        BY <2>1, <3>1 DEF LastOnes
    <3>3. told.sent - n + 1 + (i - 1) = (told.got + 1) + i - 1
        BY <1>2, <2>1, <2>2
    <3>4. QED
        BY <1>5, <2>1, <3>2, <3>3
  <2>4. QED
      BY <2>3
<1> HIDE DEF len, q
<1>9. /\ told' \in ToldType /\ told'.over = told.over /\ told'.sent = told.sent
      /\ told'.said = told.said
  <2> DEFINE t == Gives(q, FALSE)
  <2>1. t \in ToldType /\ t.over = told.over /\ t.sent = told.sent /\ t.said = told.said
      BY <1>1, <1>4, <1>6, GivesWhatever
  <2>2. told' = t
      BY <1>1
  <2> HIDE DEF t
  <2>3. QED
      BY <2>1, <2>2
<1>10. ~told.over => told'.got = told.got + len /\ told'.wrong = told.wrong
  <2> SUFFICES ASSUME ~told.over PROVE told'.got = told.got + len /\ told'.wrong = told.wrong
      OBVIOUS
  <2> DEFINE lo == told.got + 1
             t == Gives([i \in 1 .. len |-> lo + i - 1], FALSE)
  <2>1. lo \in Nat /\ lo > told.got /\ lo = told.got + 1 /\ lo + len - 1 = told.got + len
      BY <1>2, <1>4
  <2>2. told' = t
      BY <1>1, <1>8
  <2> HIDE DEF lo
  <2>3. t.got = lo + len - 1 /\ t.wrong = told.wrong
      BY <1>1, <1>4, <2>1, GivesInOrder
  <2> HIDE DEF t
  <2>4. QED
      BY <2>1, <2>2, <2>3
<1>11. /\ rdr' \in ReaderType /\ rdr'.pc = "copied" /\ rdr'.room = rdr.room
       /\ rdr'.from = rdr.from /\ rdr'.to = rdr.to
    BY <1>1 DEF ReaderType
<1>12. ~told.over => QueueRing(hw, rdr', told')
  <2> SUFFICES ASSUME ~told.over PROVE QueueRing(hw, rdr', told')
      OBVIOUS
  <2>1. /\ LastOnes(hw, told, n) /\ told.got + n = told.sent /\ rdr.from = hw.pull
        /\ rdr.to - rdr.from <= n
    <3>1. QueueRing(hw, rdr, told) /\ rdr.pc # "copied"
        BY <1>1, <1>7
    <3>2. told.sent + 0 = told.sent
        BY <1>2
    <3>3. QED
        BY <1>1, <3>1, <3>2 DEF QueueRing
  <2>2. LastOnes(hw, told', n)
      BY <1>9, <2>1 DEF LastOnes
  <2>3. n \in 0 .. HwQueue - 1
      BY <1>2, RingPlaces
  <2>4. Copied(rdr') = len
      BY <1>4, <1>11 DEF Copied
  <2> HIDE DEF n
  <2>5. told'.got + n = told'.sent + len
      BY <1>2, <1>4, <1>9, <1>10, <2>1, <2>3
  <2>6. QED
      BY <1>11, <2>1, <2>2, <2>4, <2>5 DEF QueueRing, n
<1>13. KindOk(hw', rdr', told')
    BY <1>1, <1>3, <1>9, <1>11, <1>12 DEF KindOk, WordKinds
<1>14. told'.wrong => told'.over /\ hw.kind \in {"tascam", "efw"}
    BY <1>1, <1>9, <1>10 DEF HwInv
<1>15. QED
    BY <1>1, <1>9, <1>11, <1>13, <1>14, ReadsKeep

LEMMA QueueAdvanced ==
    ASSUME HwInv, TscmAdvances
    PROVE  HwInv'
<1> DEFINE n == Ahead(hw.pull, hw.push)
           len == TscmLength
           pull == rdr.to % HwQueue
           over == told.over \/ len < rdr.to - rdr.from
           room == rdr.room - len
           r == Span(pull, room)
<1>1. /\ hw \in HwType /\ rdr \in ReaderType /\ told \in ToldType /\ KindOk(hw, rdr, told)
      /\ rdr.pc = "copied" /\ hw.kind = "tascam"
      /\ hw' = [hw EXCEPT !.pull = pull] /\ rdr' = r
      /\ told' = [told EXCEPT !.over = over]
    BY DEF HwInv, TscmAdvances
<1>2. /\ rdr.room \in Nat /\ rdr.from \in Place /\ rdr.to \in 0 .. HwQueue
      /\ hw.pull \in Place /\ hw.push \in Place /\ hw.ring \in [Place -> Nat]
      /\ told.sent \in Nat /\ told.got \in Nat /\ HwQueue \in Nat \ {0}
    BY <1>1, HwAssumption DEF HwType, ReaderType, ToldType
<1>3. rdr.from < rdr.to /\ rdr.room > 0
    BY <1>1 DEF KindOk
<1>4. /\ len \in Nat /\ len <= rdr.room /\ len <= rdr.to - rdr.from /\ len = Copied(rdr)
      /\ room \in Nat
  <2>1. rdr.to - rdr.from \in Nat
      BY <1>2, <1>3 DEF Place
  <2>2. len = (IF rdr.room < rdr.to - rdr.from THEN rdr.room ELSE rdr.to - rdr.from)
        /\ len = Copied(rdr)
      BY DEF TscmLength, Copied
  <2> HIDE DEF len
  <2>3. QED
      BY <1>2, <2>1, <2>2
<1>5. pull \in Place
    BY <1>2, Wraps
<1>6. over \in BOOLEAN /\ (told.over => over) /\ (~over => ~told.over /\ ~(len < rdr.to - rdr.from))
    BY <1>1 DEF ToldType
<1> HIDE DEF len, pull, over, room
<1>7. /\ hw' \in HwType /\ hw'.kind = hw.kind /\ hw'.count = hw.count /\ hw'.changed = hw.changed
      /\ hw'.opened = hw.opened /\ hw'.word = hw.word /\ hw'.ring = hw.ring
      /\ hw'.push = hw.push /\ hw'.pull = pull
    BY <1>1, <1>5 DEF HwType
<1>8. /\ told' \in ToldType /\ told'.over = over /\ told'.got = told.got
      /\ told'.sent = told.sent /\ told'.said = told.said /\ told'.wrong = told.wrong
    BY <1>1, <1>6 DEF ToldType
<1>9. /\ rdr' \in ReaderType
      /\ \/ rdr'.pc = "away"
         \/ /\ rdr'.pc = "copying" /\ rdr'.room > 0 /\ rdr'.from = pull
            /\ rdr'.from < rdr'.to /\ rdr'.to - rdr'.from <= Ahead(pull, hw.push)
  <2>1. /\ r \in ReaderType
        /\ \/ r.pc = "away"
           \/ /\ r.pc = "copying" /\ r.room > 0 /\ r.from = pull
              /\ r.from < r.to /\ r.to - r.from <= Ahead(pull, hw.push)
      BY <1>1, <1>4, <1>5, SpanWithin
  <2>2. rdr' = r
      BY <1>1
  <2> HIDE DEF r
  <2>3. QED
      BY <2>1, <2>2
<1>10. ~over => QueueRing(hw', rdr', told')
  <2> SUFFICES ASSUME ~over PROVE QueueRing(hw', rdr', told')
      OBVIOUS
  <2>1. /\ LastOnes(hw, told, n) /\ told.got + n = told.sent + len /\ rdr.from = hw.pull
        /\ rdr.to - rdr.from <= n
    <3>1. QueueRing(hw, rdr, told) /\ rdr.pc = "copied"
        BY <1>1, <1>6 DEF KindOk
    <3>2. QED
        BY <1>4, <3>1 DEF QueueRing
  <2>2. n \in 0 .. HwQueue - 1
      BY <1>2, RingPlaces
  <2>3. rdr.to \in Int /\ rdr.from \in Int
      BY <1>2 DEF Place
  <2> HIDE DEF n
  <2>4. len = rdr.to - rdr.from /\ len <= n /\ rdr.to = hw.pull + len /\ len \in 0 .. HwQueue
    <3>1. len = rdr.to - rdr.from
        BY <1>4, <1>6, <2>3
    <3>2. len <= n /\ rdr.to = rdr.from + len
        BY <2>1, <2>3, <3>1
    <3>3. QED
        BY <1>2, <1>4, <2>1, <2>2, <3>1, <3>2
  <2>5. pull = Onward(hw.pull, len)
      BY <1>2, <2>4, IndexMoves DEF pull
  <2>6. Ahead(pull, hw.push) = n - len
    <3>1. len \in 0 .. n
        BY <1>4, <2>2, <2>4
    <3>2. QED
        BY <1>2, <2>5, <3>1, PullMoves DEF n
  <2>7. LastOnes(hw', told', n - len)
    <3>1. n \in 0 .. HwQueue /\ len \in 0 .. n
        BY <1>2, <1>4, <2>2, <2>4
    <3>2. QED
        BY <1>1, <1>2, <1>7, <1>8, <2>1, <2>5, <3>1, OnesRead
  <2>8. told'.got + (n - len) = told'.sent + 0
      BY <1>2, <1>4, <1>8, <2>1, <2>2
  <2>9. QED
      BY <1>7, <1>9, <2>6, <2>7, <2>8 DEF QueueRing
<1>11. KindOk(hw', rdr', told')
    BY <1>1, <1>7, <1>8, <1>9, <1>10 DEF KindOk, WordKinds
<1>12. told'.wrong => told'.over /\ hw.kind \in {"tascam", "efw"}
    BY <1>1, <1>6, <1>8 DEF HwInv
<1>13. QED
    BY <1>7, <1>8, <1>9, <1>11, <1>12, ReadsKeep

LEMMA MessageTaken ==
    ASSUME HwInv, ff400_copy_msg_to_user \/ Ff400Ends
    PROVE  HwInv'
<1>1. /\ hw \in HwType /\ rdr \in ReaderType /\ told \in ToldType /\ KindOk(hw, rdr, told)
      /\ rdr.pc \in {"awake", "advanced"} /\ hw.kind = "ff400"
      /\ UNCHANGED <<hw, told>>
    BY DEF HwInv, ff400_copy_msg_to_user, Ff400Ends, Ff400Reads, Reads
<1>2. /\ rdr' \in ReaderType /\ rdr'.pc # "copied"
      /\ rdr'.pc = "copying" => hw.push # hw.pull /\ rdr'.room > 0
  <2>1. CASE ff400_copy_msg_to_user
      BY <1>1, <2>1 DEF ff400_copy_msg_to_user, ReaderType
  <2>2. CASE Ff400Ends
      BY <2>2, AwayOk DEF Ff400Ends
  <2>3. QED
      BY <2>1, <2>2
<1>3. MessageRing(hw, rdr', told)
  <2>1. Entries(hw, rdr') = Entries(hw, rdr)
      BY <1>1, <1>2 DEF Entries
  <2>2. QED
      BY <1>1, <1>2, <2>1 DEF KindOk, MessageRing
<1>4. KindOk(hw', rdr', told')
    BY <1>1, <1>2, <1>3 DEF KindOk, WordKinds
<1>5. QED
    BY <1>1, <1>2, <1>4, ReadsKeep DEF HwInv

\* The oldest message held is the next one.
LEMMA OldestNext ==
    ASSUME hw \in HwType, told \in ToldType, MessageRing(hw, rdr, told), rdr.pc # "copied",
           Entries(hw, rdr) \in Nat \ {0}
    PROVE  /\ hw.ring[hw.pull] \in Nat
           /\ hw.ring[hw.pull] = told.sent - Entries(hw, rdr) + 1
           /\ hw.ring[hw.pull] > told.got
           /\ ~told.over => hw.ring[hw.pull] = told.got + 1 /\ Entries(hw, rdr) < HwQueue
<1> DEFINE n == Entries(hw, rdr)
<1>1. /\ hw.pull \in Place /\ hw.ring \in [Place -> Nat] /\ told.sent \in Nat /\ told.got \in Nat
    BY HwAssumption DEF HwType, ToldType
<1>2. /\ LastOnes(hw, told, n) /\ told.got + n <= told.sent + 0
      /\ ~told.over => told.got + n = told.sent + 0 /\ n < HwQueue
    BY DEF MessageRing
<1>3. Onward(hw.pull, 0) = hw.pull
    BY <1>1, RingPlaces
<1> HIDE DEF n
<1>4. n \in Nat \ {0} /\ 0 \in 0 .. n - 1
    BY DEF n
<1>5. hw.ring[hw.pull] = told.sent - n + 1 + 0
    BY <1>2, <1>3, <1>4 DEF LastOnes
<1>6. QED
    BY <1>1, <1>2, <1>4, <1>5 DEF n

LEMMA MessageCopied ==
    ASSUME HwInv, Ff400Copies
    PROVE  HwInv'
<1> DEFINE n == Entries(hw, rdr)
           m == hw.ring[hw.pull]
<1>1. /\ hw \in HwType /\ rdr \in ReaderType /\ told \in ToldType /\ KindOk(hw, rdr, told)
      /\ rdr.pc = "copying" /\ hw.kind = "ff400"
      /\ told' = Gives(<<m>>, FALSE) /\ rdr' = [rdr EXCEPT !.pc = "copied"] /\ hw' = hw
    BY DEF HwInv, Ff400Copies
<1>2. MessageRing(hw, rdr, told) /\ rdr.room > 0
    BY <1>1 DEF KindOk
<1>3. /\ hw.pull \in Place /\ hw.push \in Place /\ HwQueue \in Nat \ {0}
      /\ told.sent \in Nat /\ told.got \in Nat
    BY <1>1, HwAssumption DEF HwType, ToldType
<1>4. n \in Nat \ {0}
  <2> DEFINE a == Ahead(hw.pull, hw.push)
  <2>1. a \in 0 .. HwQueue - 1 /\ (a = 0 <=> hw.pull = hw.push)
      BY <1>3, RingPlaces
  <2>2. n = IF hw.push = hw.pull THEN HwQueue ELSE a
      BY <1>1 DEF Entries
  <2> HIDE DEF a
  <2>3. QED
      BY <1>3, <2>1, <2>2
<1>5. /\ m \in Nat /\ m = told.sent - n + 1 /\ m > told.got
      /\ ~told.over => m = told.got + 1 /\ n < HwQueue
    BY <1>1, <1>2, <1>4, OldestNext
<1> HIDE DEF n, m
<1>6. /\ told' \in ToldType /\ told'.got = m /\ told'.over = told.over
      /\ told'.wrong = told.wrong /\ told'.sent = told.sent /\ told'.said = told.said
  <2> DEFINE t == Gives(<<m>>, FALSE)
  <2>1. /\ t \in ToldType /\ t.got = m /\ t.over = told.over
        /\ t.wrong = told.wrong /\ t.sent = told.sent /\ t.said = told.said
      BY <1>1, <1>5, GivesNext
  <2>2. told' = t
      BY <1>1
  <2> HIDE DEF t
  <2>3. QED
      BY <2>1, <2>2
<1>7. rdr' \in ReaderType /\ rdr'.pc = "copied" /\ rdr'.room = rdr.room
    BY <1>1 DEF ReaderType
<1>8. MessageRing(hw, rdr', told')
  <2>1. Entries(hw, rdr') = n
      BY <1>1, <1>7 DEF Entries, n
  <2>2. LastOnes(hw, told', n)
      BY <1>2, <1>6 DEF MessageRing, LastOnes, n
  <2>3. told'.got + n = told'.sent + 1 /\ (~told'.over => n < HwQueue)
      BY <1>3, <1>4, <1>5, <1>6
  <2>4. told'.got + n <= told'.sent + 1
      BY <1>3, <1>6, <2>3
  <2>5. QED
      BY <1>7, <2>1, <2>2, <2>3, <2>4 DEF MessageRing
<1>9. KindOk(hw', rdr', told')
    BY <1>1, <1>2, <1>7, <1>8 DEF KindOk, WordKinds
<1>10. told'.wrong => told'.over /\ hw.kind \in {"tascam", "efw"}
    BY <1>6 DEF HwInv
<1>11. QED
    BY <1>1, <1>6, <1>7, <1>9, <1>10, ReadsKeep

LEMMA MessageAdvanced ==
    ASSUME HwInv, Ff400Advances
    PROVE  HwInv'
<1> DEFINE n == Entries(hw, rdr)
           pull == Next1(hw.pull)
           room == rdr.room - 1
<1>1. /\ hw \in HwType /\ rdr \in ReaderType /\ told \in ToldType /\ KindOk(hw, rdr, told)
      /\ rdr.pc = "copied" /\ hw.kind = "ff400"
      /\ hw' = [hw EXCEPT !.pull = pull] /\ told' = told
      /\ rdr' = [rdr EXCEPT !.pc = "advanced", !.room = room]
    BY DEF HwInv, Ff400Advances
<1>2. MessageRing(hw, rdr, told) /\ rdr.room > 0
    BY <1>1 DEF KindOk
<1>3. /\ hw.pull \in Place /\ hw.push \in Place /\ HwQueue \in Nat \ {0} /\ rdr.room \in Nat
      /\ told.sent \in Nat /\ told.got \in Nat
    BY <1>1, HwAssumption DEF HwType, ToldType, ReaderType
<1>4. pull = Onward(hw.pull, 1) /\ pull \in Place /\ room \in Nat
  <2>1. 1 \in 0 .. HwQueue
      BY <1>3
  <2>2. room \in Nat
      BY <1>2, <1>3
  <2>3. pull = Onward(hw.pull, 1)
      BY <1>3, IndexMoves
  <2>4. Onward(hw.pull, 1) \in Place
      BY <1>3, <2>1, PlacesOnward
  <2>5. QED
      BY <2>2, <2>3, <2>4
<1> HIDE DEF pull, room
<1>5. /\ hw' \in HwType /\ hw'.kind = hw.kind /\ hw'.count = hw.count /\ hw'.changed = hw.changed
      /\ hw'.opened = hw.opened /\ hw'.word = hw.word /\ hw'.ring = hw.ring
      /\ hw'.push = hw.push /\ hw'.pull = pull
    BY <1>1, <1>4 DEF HwType
<1>6. rdr' \in ReaderType /\ rdr'.pc = "advanced"
    BY <1>1, <1>4 DEF ReaderType
<1>7. n \in 1 .. HwQueue /\ Ahead(pull, hw.push) = n - 1
  <2> DEFINE a == Ahead(hw.pull, hw.push)
  <2>1. a \in 0 .. HwQueue - 1 /\ (a = 0 <=> hw.pull = hw.push)
      BY <1>3, RingPlaces
  <2>2. n = IF hw.push = hw.pull THEN HwQueue ELSE a
      BY <1>1 DEF Entries
  <2>3. CASE hw.push = hw.pull
      BY <1>3, <1>4, <2>2, <2>3, PullMoves
  <2>4. CASE hw.push # hw.pull
    <3>1. 1 \in 0 .. a /\ a \in 1 .. HwQueue /\ n = a
      <4> HIDE DEF a, n
      <4>1. QED
          BY <1>3, <2>1, <2>2, <2>4
    <3>2. Ahead(pull, hw.push) = a - 1
        BY <1>3, <1>4, <3>1, PullMoves
    <3>3. QED
        BY <3>1, <3>2
  <2>5. QED
      BY <2>3, <2>4
<1>8. MessageRing(hw', rdr', told')
  <2>1. Entries(hw', rdr') = n - 1
      BY <1>5, <1>6, <1>7 DEF Entries
  <2>2. /\ LastOnes(hw, told, n) /\ told.got + n <= told.sent + 1
        /\ ~told.over => told.got + n = told.sent + 1 /\ n < HwQueue
      BY <1>1, <1>2 DEF MessageRing
  <2> HIDE DEF n
  <2>3. LastOnes(hw', told', n - 1)
    <3>1. n \in 0 .. HwQueue /\ 1 \in 0 .. n
        BY <1>3, <1>7
    <3>2. QED
        BY <1>1, <1>3, <1>4, <1>5, <2>2, <3>1, OnesRead
  <2>4. /\ told.got + (n - 1) <= told.sent + 0
        /\ ~told.over => told.got + (n - 1) = told.sent + 0 /\ n - 1 < HwQueue
      BY <1>3, <1>7, <2>2
  <2>5. QED
      BY <1>1, <1>6, <2>1, <2>3, <2>4 DEF MessageRing
<1>9. KindOk(hw', rdr', told')
    BY <1>1, <1>5, <1>6, <1>8 DEF KindOk, WordKinds
<1>10. QED
    BY <1>1, <1>5, <1>6, <1>9, ReadsKeep DEF HwInv

LEMMA EventCopied ==
    ASSUME HwInv, motu_copy_event
    PROVE  HwInv'
<1> DEFINE n == Entries(hw, rdr)
           m == hw.ring[hw.pull]
           pull == Next1(hw.pull)
           room == rdr.room - 1
<1>1. /\ hw \in HwType /\ rdr \in ReaderType /\ told \in ToldType /\ KindOk(hw, rdr, told)
      /\ rdr.pc \in {"awake", "advanced"} /\ hw.kind = "motu dsp"
    BY DEF HwInv, motu_copy_event, Reads
<1>2. MessageRing(hw, rdr, told)
    BY <1>1 DEF KindOk
<1>3. CASE hw.pull = hw.push \/ (rdr.room = 0 /\ ~rdr.odd)
  <2>1. rdr' = Away /\ UNCHANGED <<hw, told>>
      BY <1>3 DEF motu_copy_event
  <2>2. rdr' \in ReaderType /\ rdr'.pc = "away"
      BY <2>1, AwayOk
  <2>3. MessageRing(hw, rdr', told)
    <3>1. Entries(hw, rdr') = Entries(hw, rdr)
        BY <1>1, <2>2 DEF Entries
    <3>2. QED
        BY <1>1, <1>2, <2>2, <3>1 DEF MessageRing
  <2>4. KindOk(hw', rdr', told')
      BY <1>1, <2>1, <2>2, <2>3 DEF KindOk, WordKinds
  <2>5. QED
      BY <1>1, <2>1, <2>2, <2>4, ReadsKeep DEF HwInv
<1>4. CASE ~(hw.pull = hw.push \/ (rdr.room = 0 /\ ~rdr.odd))
  <2>1. /\ hw.pull # hw.push /\ hw' = [hw EXCEPT !.pull = pull]
        /\ told' = IF rdr.room = 0 THEN Gives(<<>>, TRUE) ELSE Gives(<<m>>, FALSE)
        /\ rdr' = IF rdr.room = 0 THEN Away ELSE [rdr EXCEPT !.pc = "advanced", !.room = room]
      BY <1>4 DEF motu_copy_event
  <2>2. /\ hw.pull \in Place /\ hw.push \in Place /\ HwQueue \in Nat \ {0} /\ rdr.room \in Nat
        /\ told.sent \in Nat /\ told.got \in Nat
    <3>1. hw.pull \in Place /\ hw.push \in Place
        BY <1>1 DEF HwType
    <3>2. told.sent \in Nat /\ told.got \in Nat
        BY <1>1, ToldNumbers
    <3>3. HwQueue \in Nat \ {0} /\ rdr.room \in Nat
        BY <1>1, HwAssumption DEF ReaderType
    <3>4. QED
        BY <3>1, <3>2, <3>3
  <2>3. n \in 1 .. HwQueue - 1 /\ n = Ahead(hw.pull, hw.push)
    <3> DEFINE a == Ahead(hw.pull, hw.push)
    <3>1. a \in 0 .. HwQueue - 1 /\ (a = 0 <=> hw.pull = hw.push) /\ n = a
      <4>1. a \in 0 .. HwQueue - 1 /\ (a = 0 <=> hw.pull = hw.push)
          BY <2>2, RingPlaces
      <4>2. n = a
          BY <1>1 DEF Entries
      <4>3. QED
          BY <4>1, <4>2
    <3> HIDE DEF a, n
    <3>2. n \in 1 .. HwQueue - 1
        BY <2>1, <2>2, <3>1
    <3>3. QED
        BY <3>1, <3>2 DEF a
  <2>4. /\ m \in Nat /\ m = told.sent - n + 1 /\ m > told.got
        /\ ~told.over => m = told.got + 1
    <3>1. Entries(hw, rdr) \in Nat \ {0} /\ rdr.pc # "copied"
      <4>1. n \in Nat \ {0}
        <5> HIDE DEF n
        <5>1. QED
            BY <2>2, <2>3
      <4>2. QED
          BY <1>1, <4>1
    <3>2. QED
        BY <1>1, <1>2, <3>1, OldestNext
  <2>5. pull = Onward(hw.pull, 1) /\ pull \in Place /\ Ahead(pull, hw.push) = n - 1
    <3> DEFINE a == Ahead(hw.pull, hw.push)
    <3>1. 1 \in 0 .. HwQueue /\ 1 \in 0 .. a /\ n = a
      <4> HIDE DEF a, n
      <4>1. n = a
          BY <2>3 DEF a
      <4>2. QED
          BY <2>2, <2>3, <4>1
    <3>2. pull = Onward(hw.pull, 1)
        BY <2>2, IndexMoves
    <3>3. Onward(hw.pull, 1) \in Place
        BY <2>2, <3>1, PlacesOnward
    <3>4. Ahead(Onward(hw.pull, 1), hw.push) = a - 1
        BY <2>2, <3>1, PullMoves
    <3>5. QED
        BY <3>1, <3>2, <3>3, <3>4
  <2>6. /\ LastOnes(hw, told, n) /\ told.got + n <= told.sent
        /\ ~told.over => told.got + n = told.sent
    <3>1. /\ LastOnes(hw, told, n) /\ told.got + n <= told.sent + 0
          /\ ~told.over => told.got + n = told.sent + 0
        BY <1>1, <1>2 DEF MessageRing
    <3> HIDE DEF n
    <3>2. QED
        BY <2>2, <3>1
  <2> HIDE DEF n, m, pull, room
  <2>7. /\ hw' \in HwType /\ hw'.kind = hw.kind /\ hw'.count = hw.count
        /\ hw'.changed = hw.changed /\ hw'.opened = hw.opened /\ hw'.word = hw.word
        /\ hw'.ring = hw.ring /\ hw'.push = hw.push /\ hw'.pull = pull
      BY <1>1, <2>1, <2>5 DEF HwType
  <2>8. rdr' \in ReaderType /\ rdr'.pc \in {"away", "advanced"}
    <3>1. CASE rdr.room = 0
        BY <2>1, <3>1, AwayOk
    <3>2. CASE rdr.room # 0
      <4>1. room \in Nat
          BY <2>2, <3>2 DEF room
      <4>2. QED
          BY <1>1, <2>1, <3>2, <4>1 DEF ReaderType
    <3>3. QED
        BY <3>1, <3>2
  <2>9. /\ told' \in ToldType /\ told'.sent = told.sent /\ told'.said = told.said
        /\ told'.wrong = told.wrong /\ (told.over => told'.over)
        /\ told'.got \in Nat /\ told'.got <= told.sent - (n - 1)
        /\ ~told'.over => told'.got = told.sent - (n - 1)
    <3>1. CASE rdr.room = 0
      <4>1. told' = [told EXCEPT !.over = TRUE]
          BY <2>1, <3>1 DEF Gives
      <4>2. /\ told' \in ToldType /\ told'.sent = told.sent /\ told'.said = told.said
            /\ told'.wrong = told.wrong /\ told'.over /\ told'.got = told.got
          BY <1>1, <4>1 DEF ToldType
      <4>3. told.got <= told.sent - (n - 1)
          BY <2>2, <2>3, <2>6
      <4>4. QED
          BY <2>2, <4>2, <4>3
    <3>2. CASE rdr.room # 0
      <4> DEFINE t == Gives(<<m>>, FALSE)
      <4>1. /\ t \in ToldType /\ t.got = m /\ t.over = told.over
            /\ t.wrong = told.wrong /\ t.sent = told.sent /\ t.said = told.said
          BY <1>1, <2>4, GivesNext
      <4>2. told' = t
          BY <2>1, <3>2
      <4> HIDE DEF t
      <4>3. m = told.sent - (n - 1)
          BY <2>2, <2>3, <2>4
      <4>4. QED
          BY <2>2, <2>4, <4>1, <4>2, <4>3
    <3>3. QED
        BY <3>1, <3>2
  <2>10. MessageRing(hw', rdr', told')
    <3>1. Entries(hw', rdr') = n - 1
        BY <2>5, <2>7, <2>8 DEF Entries
    <3>2. LastOnes(hw', told', n - 1)
      <4>1. n \in 0 .. HwQueue /\ 1 \in 0 .. n
          BY <2>2, <2>3
      <4>2. QED
          BY <1>1, <2>2, <2>5, <2>6, <2>7, <2>9, <4>1, OnesRead
    <3>3. /\ told'.got + (n - 1) <= told'.sent + 0
          /\ ~told'.over => told'.got + (n - 1) = told'.sent + 0 /\ n - 1 < HwQueue
        BY <2>2, <2>3, <2>9
    <3>4. QED
        BY <2>8, <3>1, <3>2, <3>3 DEF MessageRing
  <2>11. KindOk(hw', rdr', told')
      BY <1>1, <2>7, <2>8, <2>10 DEF KindOk, WordKinds
  <2>12. told'.wrong => told'.over /\ hw.kind \in {"tascam", "efw"}
      BY <2>9 DEF HwInv
  <2>13. QED
      BY <2>7, <2>8, <2>9, <2>11, <2>12, ReadsKeep
<1>5. QED
    BY <1>3, <1>4

LEMMA ResponseTaken ==
    ASSUME HwInv, hwdep_read_resp_buf \/ EfwEnds
    PROVE  HwInv'
<1>1. /\ hw \in HwType /\ rdr \in ReaderType /\ told \in ToldType /\ KindOk(hw, rdr, told)
      /\ hw.kind = "efw" /\ told' = told
    BY DEF HwInv, hwdep_read_resp_buf, EfwEnds, Reads
<1>2. /\ hw.pull \in Place /\ hw.push \in Place /\ rdr.from \in Place
    BY <1>1 DEF HwType, ReaderType
<1>3. ~told.over => ResponseRing(hw, rdr, told)
    BY <1>1 DEF KindOk
<1>4. CASE hwdep_read_resp_buf
  <2>1. rdr.pc = "awake" /\ hw' = hw /\ rdr' = [rdr EXCEPT !.pc = "copying", !.from = hw.pull]
      BY <1>4 DEF hwdep_read_resp_buf, Reads
  <2>2. rdr' \in ReaderType /\ rdr'.pc = "copying" /\ rdr'.from = hw.pull
      BY <1>1, <1>2, <2>1 DEF ReaderType
  <2>3. ReadAt(hw, rdr') = ReadAt(hw, rdr)
      BY <2>1, <2>2 DEF ReadAt
  <2>4. ~told.over => ResponseRing(hw, rdr', told)
      BY <1>3, <2>3 DEF ResponseRing
  <2>5. KindOk(hw', rdr', told')
      BY <1>1, <2>1, <2>4 DEF KindOk, WordKinds
  <2>6. QED
      BY <1>1, <2>1, <2>2, <2>5, ReadsKeep DEF HwInv
<1>5. CASE EfwEnds
  <2>1. rdr.pc = "copying" /\ hw' = [hw EXCEPT !.pull = rdr.from] /\ rdr' = Away
      BY <1>5 DEF EfwEnds
  <2>2. /\ hw' \in HwType /\ hw'.kind = hw.kind /\ hw'.count = hw.count
        /\ hw'.changed = hw.changed /\ hw'.opened = hw.opened /\ hw'.word = hw.word
        /\ hw'.ring = hw.ring /\ hw'.push = hw.push /\ hw'.pull = rdr.from
      BY <1>1, <1>2, <2>1 DEF HwType
  <2>3. rdr' \in ReaderType /\ rdr'.pc = "away"
      BY <2>1, AwayOk
  <2>4. ReadAt(hw', rdr') = ReadAt(hw, rdr) /\ ReadAt(hw', rdr') = hw'.pull
      BY <2>1, <2>2, <2>3 DEF ReadAt
  <2>5. Ahead(hw'.pull, hw'.push) <= Ahead(hw'.pull, hw'.push)
    <3> DEFINE a == Ahead(hw'.pull, hw'.push)
    <3>1. a \in 0 .. HwQueue - 1
        BY <1>2, <2>2, RingPlaces
    <3> HIDE DEF a
    <3>2. a <= a
        BY <3>1, HwAssumption
    <3>3. QED
        BY <3>2 DEF a
  <2>6. ~told.over => ResponseRing(hw', rdr', told)
      BY <1>3, <2>2, <2>4, <2>5 DEF ResponseRing
  <2>7. KindOk(hw', rdr', told')
      BY <1>1, <2>2, <2>3, <2>6 DEF KindOk, WordKinds
  <2>8. QED
      BY <1>1, <2>2, <2>3, <2>7, ReadsKeep DEF HwInv
<1>6. QED
    BY <1>4, <1>5

LEMMA ResponseCopied ==
    ASSUME HwInv, EfwCopies
    PROVE  HwInv'
<1> DEFINE m == hw.ring[rdr.from]
           len == EventLength(m)
           from == (rdr.from + len) % HwQueue
           room == rdr.room - len
<1>1. /\ hw \in HwType /\ rdr \in ReaderType /\ told \in ToldType /\ KindOk(hw, rdr, told)
      /\ rdr.pc = "copying" /\ hw.kind = "efw" /\ hw.push # rdr.from /\ len <= rdr.room
      /\ told' = Gives(<<m>>, FALSE) /\ hw' = hw
      /\ rdr' = [rdr EXCEPT !.from = from, !.room = room]
    BY DEF HwInv, EfwCopies
<1>2. told \in ToldType /\ hw \in HwType
    BY <1>1
<1>3. /\ hw.pull \in Place /\ hw.push \in Place /\ hw.ring \in [Place -> Nat]
      /\ rdr.from \in Place /\ rdr.room \in Nat
    BY <1>1 DEF HwType, ReaderType
<1>4. told.sent \in Nat /\ told.got \in Nat /\ HwQueue \in Nat \ {0}
    BY <1>2, HwAssumption DEF ToldType
<1>5. m \in Nat /\ len \in {1, 2}
    BY <1>3, Units
<1>6. from \in Place /\ room \in Nat
  <2> HIDE DEF len
  <2>1. rdr.from + len \in Nat
      BY <1>3, <1>5 DEF Place
  <2>2. from \in Place
      BY <2>1, Wraps
  <2>3. room \in Nat
      BY <1>1, <1>3, <1>5
  <2>4. QED
      BY <2>2, <2>3
<1> HIDE DEF m, len, from, room
<1>7. /\ rdr' \in ReaderType /\ rdr'.pc = "copying" /\ rdr'.from = from
    BY <1>1, <1>6 DEF ReaderType
<1>8. /\ told' \in ToldType /\ told'.over = told.over /\ told'.sent = told.sent
      /\ told'.said = told.said
  <2> DEFINE t == Gives(<<m>>, FALSE)
  <2>1. 1 \in Nat \ {0} /\ <<m>> \in [1 .. 1 -> Nat]
      BY <1>5
  <2>2. t \in ToldType /\ t.over = told.over /\ t.sent = told.sent /\ t.said = told.said
      BY <1>2, <2>1, GivesWhatever
  <2>3. told' = t
      BY <1>1
  <2> HIDE DEF t
  <2>4. QED
      BY <2>2, <2>3
<1>9. ~told.over => ResponseRing(hw, rdr', told') /\ told'.wrong = told.wrong
  <2> SUFFICES ASSUME ~told.over PROVE ResponseRing(hw, rdr', told') /\ told'.wrong = told.wrong
      OBVIOUS
  <2> DEFINE v == Ahead(rdr.from, hw.push)
             off(n) == UnitsUpTo(n - 1) - UnitsUpTo(told.got)
  <2>1. ResponseRing(hw, rdr, told) /\ ReadAt(hw, rdr) = rdr.from
      BY <1>1 DEF KindOk, ReadAt
  <2>2. /\ v <= Ahead(hw.pull, hw.push) /\ told.got <= told.sent
        /\ v = UnitsUpTo(told.sent) - UnitsUpTo(told.got)
        /\ \A n \in told.got + 1 .. told.sent : hw.ring[Onward(rdr.from, off(n))] = n
      BY <2>1 DEF ResponseRing
  <2>3. v \in 1 .. HwQueue - 1 /\ Ahead(hw.pull, hw.push) \in Nat
    <3>1. v \in 0 .. HwQueue - 1 /\ (v = 0 <=> rdr.from = hw.push)
        BY <1>3, RingPlaces
    <3>2. Ahead(hw.pull, hw.push) \in 0 .. HwQueue - 1
        BY <1>3, RingPlaces
    <3> HIDE DEF v
    <3>3. QED
        BY <1>1, <1>4, <3>1, <3>2
  <2>4. UnitsUpTo(told.sent) \in Nat /\ UnitsUpTo(told.got) \in Nat
      BY <1>4, Units
  <2>5. told.got + 1 <= told.sent
    <3>1. told.got # told.sent
      <4> HIDE DEF v
      <4>1. QED
          BY <2>2, <2>3, <2>4
    <3>2. QED
        BY <1>4, <2>2, <3>1
  \* The entry in the reader's hands is the next one.
  <2>6. m = told.got + 1
    <3> DEFINE n == told.got + 1
    <3>1. n - 1 = told.got /\ n \in told.got + 1 .. told.sent
        BY <1>4, <2>5
    <3>2. Onward(rdr.from, 0) = rdr.from
        BY <1>3, RingPlaces
    <3> HIDE DEF n
    <3>3. off(n) = 0
        BY <2>4, <3>1
    <3> HIDE DEF off
    <3>4. hw.ring[rdr.from] = n
        BY <2>2, <3>1, <3>2, <3>3
    <3>5. QED
        BY <3>4 DEF m, n
  <2>7. /\ UnitsUpTo(m) = UnitsUpTo(told.got) + len /\ UnitsUpTo(m) \in Nat
        /\ UnitsUpTo(m) <= UnitsUpTo(told.sent)
    <3>1. UnitsUpTo(told.got + 1) = UnitsUpTo(told.got) + EventLength(told.got + 1)
        BY <1>4, Units
    <3>2. UnitsUpTo(told.got + 1) \in Nat /\ UnitsUpTo(told.got + 1) <= UnitsUpTo(told.sent)
      <4>1. told.got + 1 \in Nat
          BY <1>4
      <4>2. QED
          BY <1>4, <2>5, <4>1, Units, UnitsAscend
    <3>3. QED
        BY <2>6, <3>1, <3>2 DEF len
  <2>8. len \in 0 .. HwQueue /\ len \in 0 .. v
    <3> HIDE DEF v
    <3>1. len <= v
        BY <1>5, <2>2, <2>4, <2>7
    <3>2. QED
        BY <1>4, <1>5, <2>3, <3>1
  <2>9. from = Onward(rdr.from, len) /\ Ahead(from, hw.push) = v - len
    <3>1. from = Onward(rdr.from, len)
        BY <1>3, <2>8, IndexMoves DEF from
    <3>2. Ahead(Onward(rdr.from, len), hw.push) = v - len
        BY <1>3, <2>8, PullMoves
    <3>3. QED
        BY <3>1, <3>2
  <2>10. /\ told'.got = m /\ told'.wrong = told.wrong
    <3> DEFINE t == Gives(<<m>>, FALSE)
    <3>1. m > told.got /\ m = told.got + 1
        BY <1>4, <2>6
    <3>2. t.got = m /\ t.wrong = told.wrong
        BY <1>2, <1>5, <3>1, GivesNext
    <3>3. told' = t
        BY <1>1
    <3> HIDE DEF t
    <3>4. QED
        BY <3>2, <3>3
  <2>11. ReadAt(hw, rdr') = from
      BY <1>7 DEF ReadAt
  <2>12. ASSUME NEW n \in m + 1 .. told.sent
         PROVE  hw.ring[Onward(from, UnitsUpTo(n - 1) - UnitsUpTo(m))] = n
    <3>1. n - 1 \in Nat /\ m <= n - 1 /\ n - 1 <= told.sent /\ n \in told.got + 1 .. told.sent
        BY <1>4, <1>5, <2>6, <2>12
    <3> DEFINE k == n - 1
    <3>2. UnitsUpTo(k) \in Nat /\ UnitsUpTo(m) <= UnitsUpTo(k) /\ UnitsUpTo(k) <= UnitsUpTo(told.sent)
      <4> HIDE DEF k
      <4>1. k \in Nat /\ m <= k /\ k <= told.sent
          BY <3>1 DEF k
      <4>2. QED
          BY <1>4, <1>5, <4>1, Units, UnitsAscend
    <3> DEFINE i == UnitsUpTo(k) - UnitsUpTo(m)
    <3>3. i \in 0 .. HwQueue /\ len + i <= HwQueue /\ len + i = off(n)
      <4> HIDE DEF v, k
      <4>1. i \in Nat /\ len + i <= v
          BY <1>5, <2>2, <2>4, <2>7, <3>2
      <4>2. len + i = UnitsUpTo(k) - UnitsUpTo(told.got)
          BY <1>5, <2>4, <2>7, <3>2
      <4> HIDE DEF i
      <4>3. i \in 0 .. HwQueue /\ len + i <= HwQueue
          BY <1>4, <1>5, <2>3, <4>1
      <4>4. QED
          BY <4>2, <4>3 DEF k
    <3> HIDE DEF off, i
    <3>4. Onward(Onward(rdr.from, len), i) = Onward(rdr.from, len + i)
        BY <1>3, <2>8, <3>3, OnwardTwice
    <3>5. hw.ring[Onward(rdr.from, off(n))] = n
        BY <2>2, <3>1 DEF off
    <3>6. QED
        BY <2>9, <3>3, <3>4, <3>5 DEF i
  <2> HIDE DEF v, off
  <2>13. /\ v - len <= Ahead(hw.pull, hw.push) /\ m <= told.sent
         /\ v - len = UnitsUpTo(told.sent) - UnitsUpTo(m)
      BY <1>4, <1>5, <2>2, <2>3, <2>4, <2>5, <2>6, <2>7
  <2>14. ResponseRing(hw, rdr', told')
      BY <1>8, <2>9, <2>10, <2>11, <2>12, <2>13 DEF ResponseRing
  <2>15. QED
      BY <2>10, <2>14
<1>10. KindOk(hw', rdr', told')
    BY <1>1, <1>8, <1>9 DEF KindOk, WordKinds
<1>11. told'.wrong => told'.over /\ hw.kind \in {"tascam", "efw"}
    BY <1>1, <1>8, <1>9 DEF HwInv
<1>12. QED
    BY <1>1, <1>7, <1>8, <1>10, <1>11, ReadsKeep

LEMMA HwSteps ==
    HwInv /\ [HwNext]_hwdepvars => HwInv'
<1> SUFFICES ASSUME HwInv, [HwNext]_hwdepvars PROVE HwInv'
    OBVIOUS
<1>1. CASE \E k \in HwKinds : HwdepCreate(k)
    BY <1>1, CreateKeeps
<1>2. CASE StreamLockTry \/ StreamLockRelease \/ HwdepLock \/ HwdepUnlock \/ WakesUp
    BY <1>2, LockKeeps
<1>3. CASE dice_notification \/ handle_message
    BY <1>3, WordKeeps
<1>4. CASE ff400_handle_msg \/ QueueDspEvent \/ read_status_messages
    BY <1>4, RingKeeps
<1>5. CASE copy_resp_to_buf
    BY <1>5, ResponseKeeps
<1>6. CASE HwdepRead \/ FallsAsleep \/ PreparesToWait \/ hwdep_read_locked
           \/ efw_hwdep_read \/ efw_hwdep_read_locked
    BY <1>6, ReaderKeeps
<1>7. CASE hwdep_read_word
    BY <1>7, WordRead
<1>8. CASE tscm_hwdep_read_queue
    BY <1>8, QueueRead
<1>9. CASE TscmCopies
    BY <1>9, QueueCopied
<1>10. CASE TscmAdvances
    BY <1>10, QueueAdvanced
<1>11. CASE ff400_copy_msg_to_user \/ Ff400Ends
    BY <1>11, MessageTaken
<1>12. CASE Ff400Copies
    BY <1>12, MessageCopied
<1>13. CASE Ff400Advances
    BY <1>13, MessageAdvanced
<1>14. CASE hwdep_read_resp_buf \/ EfwEnds
    BY <1>14, ResponseTaken
<1>15. CASE EfwCopies
    BY <1>15, ResponseCopied
<1>16. CASE motu_copy_event
    BY <1>16, EventCopied
<1>17. CASE UNCHANGED hwdepvars
  <2>1. hw' = hw /\ rdr' = rdr /\ told' = told
      BY <1>17 DEF hwdepvars
  <2>2. hw \in HwType /\ rdr \in ReaderType /\ told \in ToldType /\ LockTold(hw, told)
      BY DEF HwInv
  <2>3. LockTold(hw', told')
      BY <2>1, <2>2
  <2>4. QED
      BY <2>1, <2>2, <2>3, RingStays
<1>18. QED
    BY <1>1, <1>2, <1>3, <1>4, <1>5, <1>6, <1>7, <1>8, <1>9, <1>10, <1>11, <1>12, <1>13, <1>14,
       <1>15, <1>16, <1>17 DEF HwNext, ReaderStep

(* What an application knows of the lock and of the messages is what the   *)
(* driver did, for all drivers, sizes of the rings and buffers: the lock's *)
(* state is known or dev_lock_changed is set, and messages are in order    *)
(* and complete until some were lost, as snd_*_hwdep_read() promises.      *)
THEOREM HwdepCorrect == HwSpec => []HwdepTellsTruth
<1>1. HwInv => HwdepTellsTruth
    BY DEF HwInv, HwdepTellsTruth, HwTypeOK, HwType, ReaderType, LockTold, Place
<1>2. QED
    BY HwStart, HwSteps, <1>1, PTL DEF HwSpec
=============================================================================
