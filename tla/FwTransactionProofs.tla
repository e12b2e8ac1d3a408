------------------------ MODULE FwTransactionProofs ------------------------
(* Proofs of the safety properties of FwTransaction for any number of      *)
(* transactions, labels and bus resets: labels are exclusive, a callback   *)
(* runs once, a transaction is given back for good, and what its callback  *)
(* is told is true.                                                        *)
EXTENDS FwTransaction, TLAPS

-----------------------------------------------------------------------------
(* Type correctness.  TypeOK alone is not inductive: a context that holds  *)
(* a transaction must hold a real one, and transmit_complete_callback()    *)
(* only forwards an ack that it did not take for the start of a split      *)
(* transaction.                                                            *)

AtHolds == at.pc \in {"fetched", "close", "callback"}

HoldersOK ==
    /\ AtHolds => at.t \in Txn
    /\ \A c \in Responder : rsp[c].pc # "idle" => rsp[c].t \in Txn
    /\ user.pc # "idle" => user.t \in Txn
    /\ rst # "idle" => bus_gen < MaxGen

\* What the DMA program or its handler has in hand left its sender before.
QueueSent ==
    /\ \A i \in DOMAIN at_queue : send_pc[at_queue[i]] = "returned"
    /\ AtHolds => send_pc[at.t] = "returned"

AckFinal ==
    /\ \A t \in Txn : send_pc[t] \in {"listed", "close", "callback"} => ack[t] # "ack_pending"
    /\ at.pc = "callback" => ack[at.t] # "ack_pending"

TypeInv == TypeOK /\ HoldersOK /\ QueueSent /\ AckFinal

LEMMA LabelMod == \A n \in Nat : n % NLabels \in Label
BY TxnAssumption DEF Label

LEMMA AckToRcodeType == \A a \in Ack : a # "ack_pending" => AckToRcode(a) \in Rcode
BY DEF Ack, Rcode, AckToRcode

LEMMA PacketAckType ==
    \A s \in AllHwStatus \cup {"none"}, f \in BOOLEAN : PacketAck(s, f) \in Ack
BY DEF AllHwStatus, Ack, PacketAck

LEMMA TypeInit == Init => TypeInv
<1> SUFFICES ASSUME Init PROVE TypeInv
    OBVIOUS
<1>1. LabelType
    BY TxnAssumption DEF Init, LabelType, Label
<1>2. SendType
    BY DEF Init, SendType, Ack
<1>3. AtType
  <2>1. at_queue \in Seq(Txn) /\ status \in [Txn -> AllHwStatus \cup {"none"}]
      BY DEF Init
  <2>2. QED
      BY <2>1 DEF Init, AtType
<1>4. ContextType
    BY DEF Init, ContextType
<1>5. BusType
    BY TxnAssumption DEF Init, BusType
<1>6. HistoryType
  <2>1. hazard \in [Txn -> SUBSET Hazards]
      BY Zenon DEF Init
  <2>2. QED
      BY <2>1 DEF Init, HistoryType, Rcode
<1>7. HoldersOK /\ QueueSent /\ AckFinal
    BY DEF Init, HoldersOK, QueueSent, AckFinal, AtHolds
<1>8. QED
    BY <1>1, <1>2, <1>3, <1>4, <1>5, <1>6, <1>7 DEF TypeInv, TypeOK

TimerState == {"off", "armed", "running", "callback"}

LEMMA StartTimeoutType ==
    ASSUME NEW t \in Txn, SendType, StartSplitTransactionTimeout(t)
    PROVE  is_split' \subseteq Txn /\ timer' \in [Txn -> TimerState]
BY DEF SendType, StartSplitTransactionTimeout, timerVars, TimerState

\* What find_and_pop_transaction_entry() does to the types.
LEMMA FindAndPopType ==
    ASSUME NEW t \in Txn, NEW more \in SUBSET Hazards,
           LabelType, SendType, HistoryType, UNCHANGED fieldVars, FindAndPop(t, more)
    PROVE  LabelType' /\ timer' \in [Txn -> TimerState] /\ hazard' \in [Txn -> SUBSET Hazards]
<1> "timer" \in Hazards
    BY DEF Hazards
<1>1. hazard[t] \in SUBSET Hazards
    BY DEF HistoryType
<1>2. CASE TryCancelSplitTimeout(t)
  <2>1. hazard' = [hazard EXCEPT ![t] = hazard[t] \cup more]
      BY <1>2 DEF FindAndPop
  <2>2. hazard' \in [Txn -> SUBSET Hazards]
      BY <1>1, <2>1 DEF HistoryType
  <2>3. QED
      BY <1>2, <2>2 DEF FindAndPop, RemoveTransactionEntry, LabelType, SendType, fieldVars,
                        TimerState
<1>3. CASE ~TryCancelSplitTimeout(t)
  <2>1. hazard' = [hazard EXCEPT ![t] = hazard[t] \cup more \cup {"timer"}]
      BY <1>3 DEF FindAndPop
  <2>2. hazard' \in [Txn -> SUBSET Hazards]
      BY <1>1, <2>1 DEF HistoryType
  <2>3. QED
      BY <1>3, <2>2 DEF FindAndPop, LabelType, SendType, fieldVars, labelVars, TimerState
<1>4. QED
    BY <1>2, <1>3

LEMMA FlushRaceType == \A t \in Txn : FlushRace(t) \in SUBSET Hazards
BY DEF FlushRace, Hazards

LEMMA TypeStep == TypeInv /\ [Next]_vars => TypeInv'
<1> SUFFICES ASSUME TypeInv, [Next]_vars PROVE TypeInv'
    OBVIOUS
<1> USE DEF TypeInv, TypeOK, LabelType, SendType, AtType, ContextType, BusType, HistoryType, HoldersOK, QueueSent, AckFinal, AtHolds,
            labelVars, fieldVars, timerVars, queueVars, busVars, wireVars, cardVars, callVars
<1>1. ASSUME NEW t \in Txn, SendAllocate(t) PROVE TypeInv'
  <2>1. PICK l \in Label, n \in NodeId, g \in 0 .. bus_gen :
            /\ FirstFreeLabel(l)
            /\ tlabel_mask' = tlabel_mask \cup {l}
            /\ current_tlabel' = TlabelAfter(l)
            /\ tlabel' = [tlabel EXCEPT ![t] = l]
            /\ node_id' = [node_id EXCEPT ![t] = n]
            /\ gen' = [gen EXCEPT ![t] = g]
      BY <1>1, Zenon DEF SendAllocate
  <2>2. l + 1 \in Nat /\ g \in 0 .. MaxGen
      BY TxnAssumption DEF Label
  <2>3. LabelType'
      BY <1>1, <2>1, <2>2, LabelMod DEF SendAllocate, TlabelAfter
  <2>4. SendType'
      BY <1>1 DEF SendAllocate
  <2>5. AtType' /\ ContextType' /\ BusType' /\ HistoryType'
      BY <1>1 DEF SendAllocate
  <2>6. HoldersOK' /\ QueueSent' /\ AckFinal'
      BY <1>1 DEF SendAllocate
  <2>7. QED
      BY <2>3, <2>4, <2>5, <2>6
<1>2. ASSUME NEW t \in Txn, SendNoLabel(t) PROVE TypeInv'
    BY <1>2 DEF SendNoLabel, Callback, Rcode
<1>3. ASSUME NEW t \in Txn, SendListAdd(t) PROVE TypeInv'
    BY <1>3 DEF SendListAdd, Ack
<1>4. ASSUME NEW t \in Txn, TransmitLocal(t) PROVE TypeInv'
  <2>1. LabelType'
      BY <1>4 DEF TransmitLocal, StartSplitTransactionTimeout
  <2>2. SendType'
    <3>1. ack' \in [Txn -> Ack]
        BY <1>4 DEF TransmitLocal, Ack
    <3>2. QED
        BY <1>4, <3>1, StartTimeoutType DEF TransmitLocal, TimerState
  <2>3. AtType' /\ ContextType'
      BY <1>4 DEF TransmitLocal, StartSplitTransactionTimeout
  <2>4. BusType' /\ HistoryType'
      BY <1>4 DEF TransmitLocal, StartSplitTransactionTimeout
  <2>5. HoldersOK'
      BY <1>4 DEF TransmitLocal, StartSplitTransactionTimeout
  <2>6. QueueSent' /\ AckFinal'
      BY <1>4 DEF TransmitLocal, StartSplitTransactionTimeout
  <2>7. QED
      BY <2>1, <2>2, <2>3, <2>4, <2>5, <2>6
<1>5. ASSUME NEW t \in Txn, TransmitQueue(t) PROVE TypeInv'
    BY SMTT(30), <1>5 DEF TransmitQueue
<1>6. ASSUME NEW t \in Txn, TransmitFail(t) PROVE TypeInv'
    BY <1>6 DEF TransmitFail, Ack
<1>7. ASSUME NEW t \in Txn, TransmitDummy(t) PROVE TypeInv'
    BY <1>7 DEF TransmitDummy
<1>8. ASSUME NEW t \in Txn, SendClose(t) PROVE TypeInv'
  <2>1. CASE t \in list /\ FindAndPop(t, {}) /\ send_pc' = [send_pc EXCEPT ![t] = "callback"]
    <3>1. LabelType' /\ timer' \in [Txn -> TimerState] /\ hazard' \in [Txn -> SUBSET Hazards]
        BY <1>8, <2>1, FindAndPopType DEF SendClose
    <3>2. SendType'
        BY <1>8, <2>1, <3>1 DEF SendClose, Ack, TimerState
    <3>3. AtType' /\ ContextType'
        BY <1>8, <2>1, <3>1 DEF SendClose
    <3>4. BusType' /\ HistoryType'
        BY <1>8, <2>1, <3>1 DEF SendClose
    <3>5. HoldersOK'
        BY <1>8, <2>1, <3>1 DEF SendClose
    <3>6. QueueSent' /\ AckFinal'
        BY <1>8, <2>1, <3>1 DEF SendClose
    <3>7. QED
        BY <3>2, <3>3, <3>4, <3>5, <3>6, <3>1
  <2>2. CASE t \notin list /\ send_pc' = [send_pc EXCEPT ![t] = "returned"]
             /\ UNCHANGED <<labelVars, timer, hazard>>
      BY <1>8, <2>2 DEF SendClose
  <2>3. QED
      BY <1>8, <2>1, <2>2 DEF SendClose
<1>9. ASSUME NEW t \in Txn, SendCallback(t) PROVE TypeInv'
    BY <1>9, AckToRcodeType DEF SendCallback, Callback
<1>10. ASSUME NEW t \in Txn, NEW s \in HwStatus, HwTransmit(t, s) PROVE TypeInv'
    BY SMTT(30), <1>10, TxnAssumption DEF HwTransmit
<1>11. ASSUME NEW t \in Txn, Respond(t) PROVE TypeInv'
    BY SMTT(30), <1>11 DEF Respond
<1>12. ASSUME AtStart PROVE TypeInv'
    BY ZenonT(30), <1>12 DEF AtStart
<1>13. ASSUME AtFetch PROVE TypeInv'
  <2>1. Head(at_queue) \in Txn /\ send_pc[Head(at_queue)] = "returned"
      BY <1>13 DEF AtFetch
  <2>2. at_queue' \in Seq(Txn)
      BY <1>13 DEF AtFetch
  <2>3. \A i \in DOMAIN at_queue' : i + 1 \in DOMAIN at_queue /\ at_queue'[i] = at_queue[i + 1]
      BY <1>13 DEF AtFetch
  <2>4. QueueSent'
      BY <1>13, <2>1, <2>3 DEF AtFetch
  <2>5. at' \in [pc : {"off", "loop", "fetched", "close", "callback"}, t : Txn \cup {NoTxn}]
      BY <1>13, <2>1 DEF AtFetch
  <2>6. AtType'
      BY <1>13, <2>2, <2>5 DEF AtFetch
  <2>7. LabelType' /\ SendType' /\ ContextType'
      BY <1>13 DEF AtFetch
  <2>8. BusType' /\ HistoryType'
      BY <1>13 DEF AtFetch
  <2>9. HoldersOK' /\ AckFinal'
      BY <1>13, <2>1 DEF AtFetch
  <2>10. QED
      BY <2>4, <2>6, <2>7, <2>8, <2>9
<1>14. ASSUME AtAck PROVE TypeInv'
  <2>0. at.t \in Txn
      BY <1>14 DEF AtAck
  <2>1. PacketAck(status[at.t], flushing) \in Ack
      BY <2>0, PacketAckType
  <2>2. LabelType'
      BY <1>14 DEF AtAck
  <2>3. SendType'
      BY <1>14, <2>0, <2>1 DEF AtAck, Ack, TimerState
  <2>4. AtType' /\ ContextType'
      BY <1>14, <2>0, <2>1 DEF AtAck
  <2>5. BusType' /\ HistoryType'
      BY <1>14, <2>0, <2>1 DEF AtAck
  <2>6. HoldersOK'
      BY <1>14, <2>0, <2>1 DEF AtAck
  <2>7. QueueSent' /\ AckFinal'
      BY <1>14, <2>0, <2>1 DEF AtAck
  <2>8. QED
      BY <2>2, <2>3, <2>4, <2>5, <2>6, <2>7
<1>15. ASSUME AtPending PROVE TypeInv'
    BY SMTT(30), <1>15 DEF AtPending, StartSplitTransactionTimeout
<1>16. ASSUME AtClose PROVE TypeInv'
  <2>0. at.t \in Txn
      BY <1>16 DEF AtClose
  <2>1. CASE at.t \in list /\ FindAndPop(at.t, {}) /\ at' = [at EXCEPT !.pc = "callback"]
    <3>1. LabelType' /\ timer' \in [Txn -> TimerState] /\ hazard' \in [Txn -> SUBSET Hazards]
      <4>1. UNCHANGED fieldVars /\ {} \in SUBSET Hazards
          BY <1>16 DEF AtClose
      <4>2. QED
          BY <2>0, <2>1, <4>1, FindAndPopType
    <3>2. SendType'
        BY <1>16, <2>0, <2>1, <3>1 DEF AtClose, Ack, TimerState
    <3>3. AtType' /\ ContextType'
        BY <1>16, <2>0, <2>1, <3>1 DEF AtClose
    <3>4. BusType' /\ HistoryType'
        BY <1>16, <2>0, <2>1, <3>1 DEF AtClose
    <3>5. HoldersOK'
        BY <1>16, <2>0, <2>1, <3>1 DEF AtClose
    <3>6. QueueSent' /\ AckFinal'
        BY <1>16, <2>0, <2>1, <3>1 DEF AtClose
    <3>7. QED
        BY <3>2, <3>3, <3>4, <3>5, <3>6, <3>1
  <2>2. CASE at.t \notin list /\ at' = [pc |-> "loop", t |-> NoTxn]
             /\ UNCHANGED <<labelVars, timer, hazard>>
      BY <1>16, <2>2 DEF AtClose
  <2>3. QED
      BY <1>16, <2>1, <2>2 DEF AtClose
<1>17. ASSUME AtCallback PROVE TypeInv'
    BY <1>17, AckToRcodeType DEF AtCallback, Callback
<1>18. ASSUME AtStop PROVE TypeInv'
    BY <1>18 DEF AtStop
<1>19. ASSUME NEW c \in Responder, NEW r \in resps, HandleResponse(c, r) PROVE TypeInv'
  <2>1. CASE \E t \in list : /\ FindAndPop(t, IF t = r THEN {} ELSE {"stale"})
                          /\ rsp' = [rsp EXCEPT ![c] = [pc |-> "cancel", t |-> t]]
    <3>1. PICK t \in list : /\ FindAndPop(t, IF t = r THEN {} ELSE {"stale"})
                            /\ rsp' = [rsp EXCEPT ![c] = [pc |-> "cancel", t |-> t]]
        BY <2>1
    <3>2. t \in Txn
        OBVIOUS
    <3>3. UNCHANGED fieldVars /\ (IF t = r THEN {} ELSE {"stale"}) \in SUBSET Hazards
        BY <1>19 DEF HandleResponse, Hazards
    <3>4. LabelType' /\ timer' \in [Txn -> TimerState] /\ hazard' \in [Txn -> SUBSET Hazards]
        BY <3>1, <3>2, <3>3, FindAndPopType
    <3>5. SendType'
        BY <1>19, <3>1, <3>2, <3>4 DEF HandleResponse, Ack, TimerState
    <3>6. AtType' /\ ContextType'
        BY <1>19, <3>1, <3>2, <3>4 DEF HandleResponse
    <3>7. BusType' /\ HistoryType'
        BY <1>19, <3>1, <3>2, <3>4 DEF HandleResponse
    <3>8. HoldersOK'
        BY <1>19, <3>1, <3>2, <3>4 DEF HandleResponse
    <3>9. QueueSent' /\ AckFinal'
        BY <1>19, <3>1, <3>2, <3>4 DEF HandleResponse
    <3>10. QED
        BY <3>5, <3>6, <3>7, <3>8, <3>9, <3>4
  <2>2. CASE UNCHANGED <<labelVars, timer, hazard, rsp>>
      BY SMTT(30), <1>19, <2>2 DEF HandleResponse
  <2>3. QED
      BY <1>19, <2>1, <2>2 DEF HandleResponse
<1>20. ASSUME NEW c \in Responder, ResponseCancelPacket(c) PROVE TypeInv'
  <2> DEFINE t == rsp[c].t
             clean(v, w) == v' \subseteq Txn /\ w' \in [Txn -> Ack]
                            /\ \A u \in Txn : w'[u] = w[u] \/ w'[u] = "cancelled"
  <2>1. t \in Txn /\ FlushRace(t) \in SUBSET Hazards /\ "removal" \in Hazards
      BY <1>20, FlushRaceType DEF ResponseCancelPacket, Hazards
  <2>2. hazard[t] \in SUBSET Hazards
      BY <2>1
  <2>3. hazard' \in [Txn -> SUBSET Hazards]
    <3>1. CASE hazard' = [hazard EXCEPT ![t] = @ \cup FlushRace(t)]
        BY <2>1, <2>2, <3>1
    <3>2. CASE hazard' = [hazard EXCEPT ![t] = @ \cup {"removal"}]
        BY <2>1, <2>2, <3>2
    <3>3. QED
        BY <1>20, <3>1, <3>2 DEF ResponseCancelPacket
  <2>4. rsp' = [rsp EXCEPT ![c] = [pc |-> "deliver", t |-> t]]
      BY <1>20 DEF ResponseCancelPacket
  <2>5. at_pending' \in BOOLEAN /\ at_lost' \in BOOLEAN
      BY <1>20 DEF ResponseCancelPacket, DropPendingAtWork
  <2>6. clean(linked, ack)
    <3>1. CASE Withdraw(t)
        BY <2>1, <3>1 DEF Withdraw, Ack
    <3>2. CASE UNCHANGED <<linked, ack>>
        BY <3>2
    <3>3. QED
        BY <1>20, <3>1, <3>2 DEF ResponseCancelPacket
  <2>7. UNCHANGED <<labelVars, fieldVars, timerVars, send_pc, queueVars, at, flushing, user,
                    busVars, wireVars, cardVars, callVars, acked>>
      BY <1>20 DEF ResponseCancelPacket
  <2>8. LabelType' /\ SendType'
      BY <2>6, <2>7
  <2>9. AtType' /\ ContextType'
      BY <2>1, <2>4, <2>5, <2>6, <2>7
  <2>10. BusType' /\ HistoryType'
      BY <2>3, <2>5, <2>7
  <2>11. HoldersOK'
      BY <2>1, <2>4, <2>7
  <2>12. QueueSent' /\ AckFinal'
      BY <2>6, <2>7
  <2>13. QED
      BY <2>8, <2>9, <2>10, <2>11, <2>12
<1>21. ASSUME NEW c \in Responder, ResponseDeliver(c) PROVE TypeInv'
    BY <1>21 DEF ResponseDeliver, Callback, Rcode
<1>22. ASSUME NEW t \in Txn, UserCancel(t) PROVE TypeInv'
    BY <1>22 DEF UserCancel
<1>23. ASSUME UserCancelPacket PROVE TypeInv'
  <2> DEFINE t == user.t
             clean(v, w) == v' \subseteq Txn /\ w' \in [Txn -> Ack]
                            /\ \A u \in Txn : w'[u] = w[u] \/ w'[u] = "cancelled"
  <2>1. t \in Txn /\ FlushRace(t) \in SUBSET Hazards /\ hazard[t] \in SUBSET Hazards
      BY <1>23, FlushRaceType DEF UserCancelPacket
  <2>2. at_pending' \in BOOLEAN /\ at_lost' \in BOOLEAN
      BY <1>23 DEF UserCancelPacket, DropPendingAtWork
  <2>3. clean(linked, ack)
    <3>1. CASE Withdraw(t)
        BY <2>1, <3>1 DEF Withdraw, Ack
    <3>2. CASE UNCHANGED <<linked, ack>>
        BY <3>2
    <3>3. QED
        BY <1>23, <3>1, <3>2 DEF UserCancelPacket
  <2>4. UNCHANGED <<fieldVars, is_split, send_pc, queueVars, at, flushing, rsp, busVars,
                    wireVars, cardVars, callVars, acked>>
      BY <1>23 DEF UserCancelPacket
  <2>5. LabelType' /\ timer' \in [Txn -> TimerState] /\ hazard' \in [Txn -> SUBSET Hazards]
    <3>1. CASE FindAndPop(t, FlushRace(t))
        BY <2>1, <2>4, <3>1, FindAndPopType
    <3>2. CASE UNCHANGED <<labelVars, timer>> /\ hazard' = [hazard EXCEPT ![t] = @ \cup FlushRace(t)]
      <4>1. hazard' \in [Txn -> SUBSET Hazards]
          BY <2>1, <3>2
      <4>2. QED
          BY <2>4, <3>2, <4>1 DEF TimerState
    <3>3. CASE UNCHANGED <<labelVars, timer, hazard>>
        BY <2>4, <3>3 DEF TimerState
    <3>4. QED
        BY <1>23, <3>1, <3>2, <3>3 DEF UserCancelPacket
  <2>6. \/ user' = [pc |-> "idle", t |-> NoTxn]
        \/ user' = [user EXCEPT !.pc = "callback"]
        \/ user' = [user EXCEPT !.pc = "close"]
      BY <1>23 DEF UserCancelPacket
  <2> DEFINE UserRec == [pc : {"idle", "cancel", "close", "callback"}, t : Txn \cup {NoTxn}]
  <2>6a. user' \in UserRec /\ (user'.pc # "idle" => user'.t \in Txn)
    <3>1. CASE user' = [pc |-> "idle", t |-> NoTxn]
        BY <3>1
    <3>2. CASE user' = [user EXCEPT !.pc = "callback"]
        BY <2>1, <3>2
    <3>3. CASE user' = [user EXCEPT !.pc = "close"]
        BY <2>1, <3>3
    <3>4. QED
        BY <2>6, <3>1, <3>2, <3>3
  <2>7. SendType'
      BY <2>3, <2>4, <2>5 DEF TimerState
  <2>8. AtType' /\ ContextType'
      BY <2>2, <2>3, <2>4, <2>6a
  <2>9. BusType' /\ HistoryType'
      BY <2>2, <2>4, <2>5
  <2>10. HoldersOK'
      BY <2>4, <2>6a
  <2>11. QueueSent' /\ AckFinal'
      BY <2>3, <2>4
  <2>12. QED
      BY <2>5, <2>7, <2>8, <2>9, <2>10, <2>11
<1>24. ASSUME UserClose PROVE TypeInv'
  <2>0. user.t \in Txn
      BY <1>24 DEF UserClose
  <2> DEFINE more == FlushRace(user.t) \cup (IF card # "up" THEN {"removal"} ELSE {})
  <2>1. CASE user.t \in list /\ FindAndPop(user.t, more) /\ user' = [user EXCEPT !.pc = "callback"]
    <3>1. LabelType' /\ timer' \in [Txn -> TimerState] /\ hazard' \in [Txn -> SUBSET Hazards]
      <4>1. more \in SUBSET Hazards /\ UNCHANGED fieldVars
          BY <1>24, <2>0, FlushRaceType DEF Hazards, UserClose
      <4>2. QED
          BY <2>0, <2>1, <4>1, FindAndPopType
    <3>2. SendType'
        BY <1>24, <2>0, <2>1, <3>1 DEF UserClose, Ack, TimerState
    <3>3. AtType' /\ ContextType'
        BY <1>24, <2>0, <2>1, <3>1 DEF UserClose
    <3>4. BusType' /\ HistoryType'
        BY <1>24, <2>0, <2>1, <3>1 DEF UserClose
    <3>5. HoldersOK'
        BY <1>24, <2>0, <2>1, <3>1 DEF UserClose
    <3>6. QueueSent' /\ AckFinal'
        BY <1>24, <2>0, <2>1, <3>1 DEF UserClose
    <3>7. QED
        BY <3>2, <3>3, <3>4, <3>5, <3>6, <3>1
  <2>2. CASE user.t \notin list /\ user' = [pc |-> "idle", t |-> NoTxn]
             /\ UNCHANGED <<labelVars, timer, hazard>>
      BY <1>24, <2>2 DEF UserClose
  <2>3. QED
      BY <1>24, <2>1, <2>2 DEF UserClose
<1>25. ASSUME UserCallback PROVE TypeInv'
    BY <1>25 DEF UserCallback, Callback, Rcode
<1>26. ASSUME NEW t \in Txn, TimerFire(t) PROVE TypeInv'
    BY <1>26 DEF TimerFire
<1>27. ASSUME NEW t \in Txn, TimerPop(t) PROVE TypeInv'
  <2>1. CASE t \in list /\ RemoveTransactionEntry(t) /\ timer' = [timer EXCEPT ![t] = "callback"]
      BY <1>27, <2>1 DEF TimerPop, RemoveTransactionEntry
  <2>2. CASE t \notin list /\ timer' = [timer EXCEPT ![t] = "off"] /\ UNCHANGED labelVars
      BY <1>27, <2>2 DEF TimerPop
  <2>3. QED
      BY <1>27, <2>1, <2>2 DEF TimerPop
<1>28. ASSUME NEW t \in Txn, TimerCallback(t) PROVE TypeInv'
    BY <1>28 DEF TimerCallback, Callback, Rcode
<1>29. ASSUME ResetStop PROVE TypeInv'
    BY <1>29 DEF ResetStop, NoGen
<1>30. ASSUME FlushStart PROVE TypeInv'
    BY <1>30 DEF FlushStart
<1>31. ASSUME ResetEnd PROVE TypeInv'
  <2>1. bus_gen' \in 0 .. MaxGen
      BY <1>31, TxnAssumption DEF ResetEnd
  <2>2. QED
      BY <1>31, <2>1 DEF ResetEnd
<1>32. ASSUME RemoveStart PROVE TypeInv'
    BY <1>32 DEF RemoveStart
<1>33. ASSUME RemoveDisable PROVE TypeInv'
    BY <1>33 DEF RemoveDisable
<1>34. ASSUME RemoveCancelPending PROVE TypeInv'
    BY <1>34 DEF RemoveCancelPending, Hazards
<1>35. ASSUME NEW t \in Txn, RemoveCallback(t) PROVE TypeInv'
    BY <1>35 DEF RemoveCallback, Callback, Rcode
<1>36. ASSUME RemoveDone PROVE TypeInv'
    BY <1>36 DEF RemoveDone
<1>37. CASE UNCHANGED vars
    BY <1>37 DEF vars
<1>38. QED
    BY <1>1, <1>2, <1>3, <1>4, <1>5, <1>6, <1>7, <1>8, <1>9, <1>10, <1>11, <1>12, <1>13, <1>14, <1>15, <1>16, <1>17, <1>18, <1>19, <1>20, <1>21, <1>22, <1>23, <1>24, <1>25, <1>26, <1>27, <1>28, <1>29, <1>30, <1>31, <1>32, <1>33, <1>34, <1>35, <1>36, <1>37
       DEF Next, Sender, AtContext, ResponseContext, UserContext, Timer, ResetThread, Removal

\* THEOREM: every variable keeps its type; about __fw_send_request() and all
\* the contexts that complete what it sent, however they interleave.
THEOREM TypeCorrect == Spec => []TypeOK
<1>1. Spec => []TypeInv
    BY TypeInit, TypeStep, PTL DEF Spec
<1>2. TypeInv => TypeOK
    BY DEF TypeInv
<1>3. QED
    BY <1>1, <1>2, PTL

-----------------------------------------------------------------------------
(* Label ownership.  TlabelOwned is inductive together with the fact that  *)
(* only a transaction past list_add_tail() is on the list.                 *)

ListSent == \A t \in list : send_pc[t] \notin {"new", "labelled"}

LabelInv == TlabelOwned /\ ListSent

Leaking == {"cancelling", "removed"}

\* Steps that neither allocate nor free a label.
LEMMA LabelsKept ==
    ASSUME TypeInv, LabelInv, UNCHANGED <<list, tlabel_mask, tlabel>>,
           \A t \in Txn : send_pc'[t] = "labelled" <=> send_pc[t] = "labelled",
           \A t \in Txn : send_pc'[t] = "new" => send_pc[t] = "new",
           card' \in Leaking \/ card \notin Leaking,
           card' \in {"up", "dummy", "disabling", "disabled"} \cup Leaking
    PROVE  LabelInv'
BY DEF LabelInv, TlabelOwned, ListSent, Live, Leaking, TypeInv, TypeOK, LabelType, SendType,
       ContextType

\* Steps that free the label of a transaction on the list.
LEMMA LabelFreed ==
    ASSUME TypeInv, LabelInv, NEW t \in list, RemoveTransactionEntry(t),
           UNCHANGED <<tlabel, card>>,
           \A u \in Txn : send_pc'[u] = "labelled" <=> send_pc[u] = "labelled",
           \A u \in Txn : send_pc'[u] = "new" => send_pc[u] = "new"
    PROVE  LabelInv'
BY DEF LabelInv, TlabelOwned, ListSent, Live, TypeInv, TypeOK, LabelType, SendType,
       RemoveTransactionEntry

LEMMA LabelPopped ==
    ASSUME TypeInv, LabelInv, NEW t \in list, NEW more, FindAndPop(t, more),
           UNCHANGED <<tlabel, card>>,
           \A u \in Txn : send_pc'[u] = "labelled" <=> send_pc[u] = "labelled",
           \A u \in Txn : send_pc'[u] = "new" => send_pc[u] = "new"
    PROVE  LabelInv'
<1>1. CASE RemoveTransactionEntry(t)
    BY <1>1, LabelFreed
<1>2. CASE UNCHANGED labelVars
  <2>1. UNCHANGED <<list, tlabel_mask, tlabel>>
      BY <1>2 DEF labelVars
  <2>2. card \in {"up", "dummy", "disabling", "disabled"} \cup Leaking
      BY DEF TypeInv, TypeOK, ContextType, Leaking
  <2>3. QED
      BY <2>1, <2>2, LabelsKept
<1>3. QED
    BY <1>1, <1>2 DEF FindAndPop

LEMMA LabelStep == TypeInv /\ LabelInv /\ [Next]_vars => LabelInv'
<1> SUFFICES ASSUME TypeInv, LabelInv, [Next]_vars PROVE LabelInv'
    OBVIOUS
<1> USE DEF labelVars, fieldVars, cardVars
<1>0. card \in {"up", "dummy", "disabling", "disabled"} \cup Leaking
      /\ send_pc \in [Txn -> {"new", "labelled", "listed", "close", "callback", "returned"}]
    BY DEF TypeInv, TypeOK, ContextType, SendType, Leaking
<1>1. ASSUME NEW t \in Txn, SendAllocate(t) PROVE LabelInv'
  <2>1. PICK l \in Label :
            /\ l \notin tlabel_mask
            /\ tlabel_mask' = tlabel_mask \cup {l}
            /\ tlabel' = [tlabel EXCEPT ![t] = l]
      BY <1>1, Zenon DEF SendAllocate, FirstFreeLabel
  <2>2. t \notin list /\ UNCHANGED <<list, card>>
      BY <1>1 DEF SendAllocate, LabelInv, ListSent
  <2>3. send_pc' = [send_pc EXCEPT ![t] = "labelled"] /\ send_pc[t] = "new"
      BY <1>1 DEF SendAllocate
  <2>4. QED
      BY <2>1, <2>2, <2>3 DEF LabelInv, TlabelOwned, ListSent, Live, TypeInv, TypeOK,
                              LabelType, SendType
<1>2. ASSUME NEW t \in Txn, SendNoLabel(t) PROVE LabelInv'
    BY <1>0, <1>2, LabelsKept DEF SendNoLabel
<1>3. ASSUME NEW t \in Txn, SendListAdd(t) PROVE LabelInv'
    BY <1>3 DEF SendListAdd, LabelInv, TlabelOwned, ListSent, Live, TypeInv, TypeOK,
                 LabelType, SendType
<1>4. ASSUME NEW t \in Txn, TransmitLocal(t) PROVE LabelInv'
    BY <1>0, <1>4, LabelsKept DEF TransmitLocal
<1>5. ASSUME NEW t \in Txn, TransmitQueue(t) PROVE LabelInv'
    BY <1>0, <1>5, LabelsKept DEF TransmitQueue
<1>6. ASSUME NEW t \in Txn, TransmitFail(t) PROVE LabelInv'
    BY <1>0, <1>6, LabelsKept DEF TransmitFail
<1>7. ASSUME NEW t \in Txn, TransmitDummy(t) PROVE LabelInv'
    BY <1>0, <1>7, LabelsKept DEF TransmitDummy
<1>8. ASSUME NEW t \in Txn, SendClose(t) PROVE LabelInv'
  <2>1. /\ UNCHANGED <<tlabel, card>>
        /\ \A u \in Txn : send_pc'[u] = "labelled" <=> send_pc[u] = "labelled"
        /\ \A u \in Txn : send_pc'[u] = "new" => send_pc[u] = "new"
      BY <1>0, <1>8 DEF SendClose
  <2>2. CASE t \in list /\ FindAndPop(t, {})
      BY <2>1, <2>2, LabelPopped
  <2>3. CASE UNCHANGED labelVars
      BY <1>0, <2>1, <2>3, LabelsKept
  <2>4. QED
      BY <1>8, <2>2, <2>3 DEF SendClose
<1>9. ASSUME NEW t \in Txn, SendCallback(t) PROVE LabelInv'
    BY <1>0, <1>9, LabelsKept DEF SendCallback
<1>10. ASSUME NEW t \in Txn, NEW s \in HwStatus, HwTransmit(t, s) PROVE LabelInv'
    BY <1>0, <1>10, LabelsKept DEF HwTransmit
<1>11. ASSUME NEW t \in Txn, Respond(t) PROVE LabelInv'
    BY <1>0, <1>11, LabelsKept DEF Respond
<1>12. ASSUME AtStart PROVE LabelInv'
    BY <1>0, <1>12, LabelsKept DEF AtStart
<1>13. ASSUME AtFetch PROVE LabelInv'
    BY <1>0, <1>13, LabelsKept DEF AtFetch
<1>14. ASSUME AtAck PROVE LabelInv'
    BY <1>0, <1>14, LabelsKept DEF AtAck
<1>15. ASSUME AtPending PROVE LabelInv'
    BY <1>0, <1>15, LabelsKept DEF AtPending
<1>16. ASSUME AtClose PROVE LabelInv'
  <2>1. /\ UNCHANGED <<tlabel, card>>
        /\ \A u \in Txn : send_pc'[u] = "labelled" <=> send_pc[u] = "labelled"
        /\ \A u \in Txn : send_pc'[u] = "new" => send_pc[u] = "new"
      BY <1>0, <1>16 DEF AtClose
  <2>2. CASE at.t \in list /\ FindAndPop(at.t, {})
      BY <2>1, <2>2, LabelPopped
  <2>3. CASE UNCHANGED labelVars
      BY <1>0, <2>1, <2>3, LabelsKept
  <2>4. QED
      BY <1>16, <2>2, <2>3 DEF AtClose
<1>17. ASSUME AtCallback PROVE LabelInv'
    BY <1>0, <1>17, LabelsKept DEF AtCallback
<1>18. ASSUME AtStop PROVE LabelInv'
    BY <1>0, <1>18, LabelsKept DEF AtStop, Leaking
<1>19. ASSUME NEW c \in Responder, NEW r \in resps, HandleResponse(c, r) PROVE LabelInv'
  <2>1. UNCHANGED <<tlabel, card, send_pc>>
      BY <1>19 DEF HandleResponse
  <2>2. CASE \E t \in list : FindAndPop(t, IF t = r THEN {} ELSE {"stale"})
      BY <2>1, <2>2, LabelPopped
  <2>3. CASE UNCHANGED labelVars
      BY <1>0, <2>1, <2>3, LabelsKept
  <2>4. QED
      BY <1>19, <2>2, <2>3 DEF HandleResponse
<1>20. ASSUME NEW c \in Responder, ResponseCancelPacket(c) PROVE LabelInv'
    BY <1>0, <1>20, LabelsKept DEF ResponseCancelPacket
<1>21. ASSUME NEW c \in Responder, ResponseDeliver(c) PROVE LabelInv'
    BY <1>0, <1>21, LabelsKept DEF ResponseDeliver
<1>22. ASSUME NEW t \in Txn, UserCancel(t) PROVE LabelInv'
    BY <1>0, <1>22, LabelsKept DEF UserCancel
<1>23. ASSUME UserCancelPacket PROVE LabelInv'
  <2>1. /\ UNCHANGED <<tlabel, card>>
        /\ \A u \in Txn : send_pc'[u] = "labelled" <=> send_pc[u] = "labelled"
        /\ \A u \in Txn : send_pc'[u] = "new" => send_pc[u] = "new"
      BY <1>0, <1>23 DEF UserCancelPacket
  <2>2. CASE user.t \in list /\ FindAndPop(user.t, FlushRace(user.t))
      BY <2>1, <2>2, LabelPopped
  <2>3. CASE UNCHANGED labelVars
      BY <1>0, <2>1, <2>3, LabelsKept
  <2>4. QED
      BY <1>23, <2>2, <2>3 DEF UserCancelPacket
<1>24. ASSUME UserClose PROVE LabelInv'
  <2>1. /\ UNCHANGED <<tlabel, card>>
        /\ \A u \in Txn : send_pc'[u] = "labelled" <=> send_pc[u] = "labelled"
        /\ \A u \in Txn : send_pc'[u] = "new" => send_pc[u] = "new"
      BY <1>0, <1>24 DEF UserClose
  <2>2. CASE user.t \in list /\ FindAndPop(user.t, FlushRace(user.t) \cup (IF card # "up" THEN {"removal"} ELSE {}))
      BY <2>1, <2>2, LabelPopped
  <2>3. CASE UNCHANGED labelVars
      BY <1>0, <2>1, <2>3, LabelsKept
  <2>4. QED
      BY <1>24, <2>2, <2>3 DEF UserClose
<1>25. ASSUME UserCallback PROVE LabelInv'
    BY <1>0, <1>25, LabelsKept DEF UserCallback
<1>26. ASSUME NEW t \in Txn, TimerFire(t) PROVE LabelInv'
    BY <1>0, <1>26, LabelsKept DEF TimerFire
<1>27. ASSUME NEW t \in Txn, TimerPop(t) PROVE LabelInv'
  <2>1. UNCHANGED <<tlabel, card, send_pc>>
      BY <1>27 DEF TimerPop
  <2>2. CASE t \in list /\ RemoveTransactionEntry(t)
      BY <2>1, <2>2, LabelFreed
  <2>3. CASE UNCHANGED labelVars
      BY <1>0, <2>1, <2>3, LabelsKept
  <2>4. QED
      BY <1>27, <2>2, <2>3 DEF TimerPop
<1>28. ASSUME NEW t \in Txn, TimerCallback(t) PROVE LabelInv'
    BY <1>0, <1>28, LabelsKept DEF TimerCallback
<1>29. ASSUME ResetStop PROVE LabelInv'
    BY <1>0, <1>29, LabelsKept DEF ResetStop
<1>30. ASSUME FlushStart PROVE LabelInv'
    BY <1>0, <1>30, LabelsKept DEF FlushStart
<1>31. ASSUME ResetEnd PROVE LabelInv'
    BY <1>0, <1>31, LabelsKept DEF ResetEnd
<1>32. ASSUME RemoveStart PROVE LabelInv'
    BY <1>0, <1>32, LabelsKept DEF RemoveStart, Leaking
<1>33. ASSUME RemoveDisable PROVE LabelInv'
    BY <1>0, <1>33, LabelsKept DEF RemoveDisable, Leaking
<1>34. ASSUME RemoveCancelPending PROVE LabelInv'
    BY <1>34 DEF RemoveCancelPending, LabelInv, TlabelOwned, ListSent, Live, TypeInv, TypeOK,
                 LabelType, SendType
<1>35. ASSUME NEW t \in Txn, RemoveCallback(t) PROVE LabelInv'
    BY <1>0, <1>35, LabelsKept DEF RemoveCallback
<1>36. ASSUME RemoveDone PROVE LabelInv'
    BY <1>0, <1>36, LabelsKept DEF RemoveDone, Leaking
<1>37. CASE UNCHANGED vars
    BY <1>0, <1>37, LabelsKept DEF vars
<1>38. QED
    BY <1>1, <1>2, <1>3, <1>4, <1>5, <1>6, <1>7, <1>8, <1>9, <1>10, <1>11, <1>12, <1>13, <1>14, <1>15, <1>16, <1>17, <1>18, <1>19, <1>20, <1>21, <1>22, <1>23, <1>24, <1>25, <1>26, <1>27, <1>28, <1>29, <1>30, <1>31, <1>32, <1>33, <1>34, <1>35, <1>36, <1>37
       DEF Next, Sender, AtContext, ResponseContext, UserContext, Timer, ResetThread, Removal

\* THEOREM: labels are owned by exactly one live transaction and none leaks
\* before the card is removed, for any number of labels and transactions;
\* about allocate_tlabel(), remove_transaction_entry() and their callers.
THEOREM LabelsOwned == Spec => []LabelsExact
<1>1. Init => LabelInv
    BY DEF Init, LabelInv, TlabelOwned, ListSent, Live
<1>2. Spec => [](TypeInv /\ LabelInv)
    BY <1>1, TypeInit, TypeStep, LabelStep, PTL DEF Spec
<1>3. TypeInv /\ LabelInv => LabelsExact
    BY DEF TypeInv, LabelInv, LabelsExact
<1>4. QED
    BY <1>2, <1>3, PTL


-----------------------------------------------------------------------------
(* Who completes a transaction.  Every step hands the decision over from   *)
(* at most one role to another; SingleCompleter follows, and with it the   *)
(* bound on the number of callbacks.                                       *)

OnceInv == SingleCompleter /\ CallbackOnceUnlessTimerRuns

\* No step forgets that a completion met a running timeout handler.
HazardKept == \A u \in Txn : "timer" \in hazard[u] => "timer" \in hazard'[u]

\* Steps after which nobody decides who did not decide before.
LEMMA NoNewDecider ==
    ASSUME OnceInv, HazardKept, UNCHANGED calls,
           \A u \in Txn, h \in Role : Decides(u, h)' => Decides(u, h)
    PROVE  OnceInv'
BY DEF OnceInv, SingleCompleter, Deciders, CallbackOnceUnlessTimerRuns, HazardKept

\* Steps that take the decision over t from role h0 to role h1.
LEMMA HandOver ==
    ASSUME OnceInv, HazardKept, UNCHANGED calls, NEW t \in Txn, NEW h0 \in Role, NEW h1 \in Role,
           Decides(t, h0), "timer" \in hazard'[t] \/ ~Decides(t, h0)',
           \A u \in Txn, h \in Role : Decides(u, h)' => Decides(u, h) \/ (u = t /\ h = h1)
    PROVE  OnceInv'
BY DEF OnceInv, SingleCompleter, Deciders, CallbackOnceUnlessTimerRuns, HazardKept

\* Steps by which role h0 runs the callback of t.
LEMMA CalledBack ==
    ASSUME OnceInv, TypeInv, UNCHANGED hazard, NEW t \in Txn, NEW h0 \in Role, NEW rc, h0 # "done",
           Decides(t, h0), Callback(t, rc), ~Decides(t, h0)',
           \A u \in Txn, h \in Role : Decides(u, h)' => Decides(u, h) \/ (u = t /\ h = "done")
    PROVE  OnceInv'
<1>1. "done" \in Role /\ calls \in [Txn -> Nat]
    BY DEF Role, TypeInv, TypeOK, HistoryType
<1>2. "timer" \notin hazard[t] => calls[t] = 0
    BY <1>1 DEF OnceInv, SingleCompleter, Deciders, Decides
<1>3. SingleCompleter'
    BY DEF OnceInv, SingleCompleter, Deciders
<1>4. CallbackOnceUnlessTimerRuns'
    BY <1>1, <1>2 DEF OnceInv, CallbackOnceUnlessTimerRuns, Callback
<1>5. QED
    BY <1>3, <1>4 DEF OnceInv

\* What find_and_pop_transaction_entry() means for the decision over t.
LEMMA PopEffect ==
    ASSUME NEW t \in Txn, NEW more, FindAndPop(t, more),
           timer \in [Txn -> TimerState], hazard \in [Txn -> SUBSET Hazards]
    PROVE  /\ HazardKept
           /\ "timer" \in hazard'[t] \/ ~Decides(t, "list")'
           /\ list' \subseteq list
           /\ \A u \in Txn : timer'[u] = "callback" => timer[u] = "callback"
BY DEF FindAndPop, RemoveTransactionEntry, HazardKept, Decides, labelVars, Responder


LEMMA OnceStep == TypeInv /\ OnceInv /\ [Next]_vars => OnceInv'
<1> SUFFICES ASSUME TypeInv, OnceInv, [Next]_vars PROVE OnceInv'
    OBVIOUS
<1> USE DEF labelVars, timerVars, cardVars, callVars, HazardKept, Decides, Role, Responder
<1>0. /\ send_pc \in [Txn -> {"new", "labelled", "listed", "close", "callback", "returned"}]
      /\ timer \in [Txn -> TimerState] /\ list \subseteq Txn /\ rm_list \subseteq Txn
      /\ calls \in [Txn -> Nat] /\ hazard \in [Txn -> SUBSET Hazards]
    BY DEF TypeInv, TypeOK, LabelType, SendType, ContextType, HistoryType, TimerState
<1>R. /\ Responder \subseteq Role /\ "fresh" \in Role /\ "list" \in Role /\ "sender" \in Role
      /\ "at" \in Role /\ "user" \in Role /\ "timer" \in Role
    OBVIOUS
<1>a. at \in [pc : {"off", "loop", "fetched", "close", "callback"}, t : Txn \cup {NoTxn}]
      /\ (AtHolds => at.t \in Txn)
    BY DEF TypeInv, TypeOK, AtType, HoldersOK
<1>r. rsp \in [Responder -> [pc : {"idle", "cancel", "deliver"}, t : Txn \cup {NoTxn}]]
      /\ \A c \in Responder : rsp[c].pc # "idle" => rsp[c].t \in Txn
    BY DEF TypeInv, TypeOK, ContextType, HoldersOK
<1>u. user \in [pc : {"idle", "cancel", "close", "callback"}, t : Txn \cup {NoTxn}]
      /\ (user.pc # "idle" => user.t \in Txn)
    BY DEF TypeInv, TypeOK, ContextType, HoldersOK
<1>1. ASSUME NEW t \in Txn, SendAllocate(t) PROVE OnceInv'
    BY <1>0, <1>a, <1>r, <1>u, <1>1, NoNewDecider DEF SendAllocate
<1>2. ASSUME NEW t \in Txn, SendNoLabel(t) PROVE OnceInv'
  <2>1. Decides(t, "fresh") /\ UNCHANGED hazard /\ Callback(t, "send_error")
      BY <1>0, <1>a, <1>r, <1>u, <1>2 DEF SendNoLabel
  <2>2. ~Decides(t, "fresh")'
      BY <1>0, <1>a, <1>r, <1>u, <1>2, <2>1 DEF SendNoLabel, TimerState
  <2>3. \A u \in Txn, h \in Role : Decides(u, h)' => Decides(u, h) \/ (u = t /\ h = "done")
      BY <1>0, <1>a, <1>r, <1>u, <1>2, <2>1 DEF SendNoLabel, Callback, TimerState
  <2>4. "fresh" \in Role /\ "fresh" # "done"
      OBVIOUS
  <2>5. QED
    <3> HIDE DEF Decides, Role
    <3> QED
        BY <2>1, <2>2, <2>3, <2>4, CalledBack
<1>3. ASSUME NEW t \in Txn, SendListAdd(t) PROVE OnceInv'
  <2>1. HazardKept /\ UNCHANGED calls /\ Decides(t, "fresh") /\ ~Decides(t, "fresh")'
      BY <1>0, <1>3 DEF SendListAdd
  <2>2. \A u \in Txn, h \in Role : Decides(u, h)' => Decides(u, h) \/ (u = t /\ h = "list")
      BY <1>0, <1>3 DEF SendListAdd
  <2>3. QED
    <3> HIDE DEF Decides, Role, HazardKept
    <3> QED
        BY <1>R, <2>1, <2>2, HandOver
<1>4. ASSUME NEW t \in Txn, TransmitLocal(t) PROVE OnceInv'
    BY <1>0, <1>a, <1>r, <1>u, <1>4, NoNewDecider DEF TransmitLocal, StartSplitTransactionTimeout
<1>5. ASSUME NEW t \in Txn, TransmitQueue(t) PROVE OnceInv'
    BY <1>0, <1>a, <1>r, <1>u, <1>5, NoNewDecider DEF TransmitQueue
<1>6. ASSUME NEW t \in Txn, TransmitFail(t) PROVE OnceInv'
    BY <1>0, <1>a, <1>r, <1>u, <1>6, NoNewDecider DEF TransmitFail
<1>7. ASSUME NEW t \in Txn, TransmitDummy(t) PROVE OnceInv'
    BY <1>0, <1>a, <1>r, <1>u, <1>7, NoNewDecider DEF TransmitDummy
<1>8. ASSUME NEW t \in Txn, SendClose(t) PROVE OnceInv'
  <2>1. CASE t \in list /\ FindAndPop(t, {})
             /\ send_pc' = [send_pc EXCEPT ![t] = "callback"]
    <3>1. PICK w \in Txn : w = t
        BY <1>0, <2>1
    <3>2. UNCHANGED <<at, rsp, user, rm_list, calls>> /\ FindAndPop(w, {})
        BY <1>8, <2>1, <3>1 DEF SendClose
    <3>3. HazardKept /\ ("timer" \in hazard'[w] \/ ~Decides(w, "list")')
          /\ list' \subseteq list /\ \A u \in Txn : timer'[u] = "callback" => timer[u] = "callback"
        BY <1>0, <3>2, PopEffect
    <3>4. \A u \in Txn, h \in Role : Decides(u, h)' => Decides(u, h) \/ (u = w /\ h = "sender")
        BY <1>0, <1>a, <1>r, <1>u, <2>1, <3>1, <3>2, <3>3
    <3>5. Decides(w, "list")
        BY <2>1, <3>1
    <3>6. QED
      <4> HIDE DEF Decides, Role, HazardKept
      <4> QED
          BY <1>R, <3>2, <3>3, <3>4, <3>5, HandOver
  <2>2. CASE UNCHANGED <<labelVars, timer, hazard>> /\ send_pc' = [send_pc EXCEPT ![t] = "returned"]
      BY <1>0, <1>a, <1>r, <1>u, <1>8, <2>2, NoNewDecider DEF SendClose
  <2>3. QED
      BY <1>8, <2>1, <2>2 DEF SendClose
<1>9. ASSUME NEW t \in Txn, SendCallback(t) PROVE OnceInv'
  <2>1. Decides(t, "sender") /\ UNCHANGED hazard /\ Callback(t, AckToRcode(ack[t]))
      BY <1>0, <1>a, <1>r, <1>u, <1>9 DEF SendCallback
  <2>2. ~Decides(t, "sender")'
      BY <1>0, <1>a, <1>r, <1>u, <1>9, <2>1 DEF SendCallback, TimerState
  <2>3. \A u \in Txn, h \in Role : Decides(u, h)' => Decides(u, h) \/ (u = t /\ h = "done")
      BY <1>0, <1>a, <1>r, <1>u, <1>9, <2>1 DEF SendCallback, Callback, TimerState
  <2>4. "sender" \in Role /\ "sender" # "done"
      OBVIOUS
  <2>5. QED
    <3> HIDE DEF Decides, Role
    <3> QED
        BY <2>1, <2>2, <2>3, <2>4, CalledBack
<1>10. ASSUME NEW t \in Txn, NEW s \in HwStatus, HwTransmit(t, s) PROVE OnceInv'
    BY <1>0, <1>a, <1>r, <1>u, <1>10, NoNewDecider DEF HwTransmit
<1>11. ASSUME NEW t \in Txn, Respond(t) PROVE OnceInv'
    BY <1>0, <1>a, <1>r, <1>u, <1>11, NoNewDecider DEF Respond
<1>12. ASSUME AtStart PROVE OnceInv'
    BY <1>0, <1>a, <1>r, <1>u, <1>12, NoNewDecider DEF AtStart
<1>13. ASSUME AtFetch PROVE OnceInv'
    BY <1>0, <1>a, <1>r, <1>u, <1>13, NoNewDecider DEF AtFetch
<1>14. ASSUME AtAck PROVE OnceInv'
    BY <1>0, <1>a, <1>r, <1>u, <1>14, NoNewDecider DEF AtAck
<1>15. ASSUME AtPending PROVE OnceInv'
    BY <1>0, <1>a, <1>r, <1>u, <1>15, NoNewDecider DEF AtPending, StartSplitTransactionTimeout
<1>16. ASSUME AtClose PROVE OnceInv'
  <2>1. CASE at.t \in list /\ FindAndPop(at.t, {})
             /\ at' = [at EXCEPT !.pc = "callback"]
    <3>1. PICK w \in Txn : w = at.t
        BY <1>0, <2>1
    <3>2. UNCHANGED <<send_pc, rsp, user, rm_list, calls>> /\ FindAndPop(w, {})
        BY <1>16, <2>1, <3>1 DEF AtClose
    <3>3. HazardKept /\ ("timer" \in hazard'[w] \/ ~Decides(w, "list")')
          /\ list' \subseteq list /\ \A u \in Txn : timer'[u] = "callback" => timer[u] = "callback"
        BY <1>0, <3>2, PopEffect
    <3>4. \A u \in Txn, h \in Role : Decides(u, h)' => Decides(u, h) \/ (u = w /\ h = "at")
        BY <1>0, <1>a, <1>r, <1>u, <2>1, <3>1, <3>2, <3>3
    <3>5. Decides(w, "list")
        BY <2>1, <3>1
    <3>6. QED
      <4> HIDE DEF Decides, Role, HazardKept
      <4> QED
          BY <1>R, <3>2, <3>3, <3>4, <3>5, HandOver
  <2>2. CASE UNCHANGED <<labelVars, timer, hazard>> /\ at' = [pc |-> "loop", t |-> NoTxn]
      BY <1>0, <1>a, <1>r, <1>u, <1>16, <2>2, NoNewDecider DEF AtClose
  <2>3. QED
      BY <1>16, <2>1, <2>2 DEF AtClose
<1>17. ASSUME AtCallback PROVE OnceInv'
  <2>0. PICK w \in Txn : w = at.t
      BY <1>0, <1>a, <1>r, <1>u, <1>17 DEF AtCallback, AtHolds
  <2>1. Decides(w, "at") /\ UNCHANGED hazard /\ Callback(w, AckToRcode(ack[w]))
      BY <1>0, <1>a, <1>r, <1>u, <2>0, <1>17 DEF AtCallback
  <2>2. ~Decides(w, "at")'
      BY <1>0, <1>a, <1>r, <1>u, <1>17, <2>0, <2>1 DEF AtCallback, TimerState
  <2>3. \A u \in Txn, h \in Role : Decides(u, h)' => Decides(u, h) \/ (u = w /\ h = "done")
      BY <1>0, <1>a, <1>r, <1>u, <1>17, <2>0, <2>1 DEF AtCallback, Callback, TimerState
  <2>4. "at" \in Role /\ "at" # "done"
      OBVIOUS
  <2>5. QED
    <3> HIDE DEF Decides, Role
    <3> QED
        BY <2>1, <2>2, <2>3, <2>4, CalledBack
<1>18. ASSUME AtStop PROVE OnceInv'
    BY <1>0, <1>a, <1>r, <1>u, <1>18, NoNewDecider DEF AtStop
<1>19. ASSUME NEW c \in Responder, NEW r \in resps, HandleResponse(c, r) PROVE OnceInv'
  <2>1. CASE \E t \in list : /\ FindAndPop(t, IF t = r THEN {} ELSE {"stale"})
                          /\ rsp' = [rsp EXCEPT ![c] = [pc |-> "cancel", t |-> t]]
    <3>1. PICK t \in list : /\ FindAndPop(t, IF t = r THEN {} ELSE {"stale"})
                            /\ rsp' = [rsp EXCEPT ![c] = [pc |-> "cancel", t |-> t]]
        BY <2>1
    <3>0. Decides(t, "list")
        OBVIOUS
    <3>2. t \in Txn /\ rsp[c].pc = "idle" /\ UNCHANGED <<send_pc, at, user, rm_list, calls>>
        BY <1>0, <1>19 DEF HandleResponse
    <3>3. HazardKept /\ ("timer" \in hazard'[t] \/ ~Decides(t, "list")')
          /\ list' \subseteq list /\ \A u \in Txn : timer'[u] = "callback" => timer[u] = "callback"
        BY <1>0, <3>1, <3>2, PopEffect
    <3>4. \A u \in Txn, h \in Role : Decides(u, h)' => Decides(u, h) \/ (u = t /\ h = c)
        BY <1>r, <3>1, <3>2, <3>3
    <3>5. QED
      <4> HIDE DEF Decides, Role, HazardKept
      <4> QED
          BY <1>R, <3>0, <3>2, <3>3, <3>4, HandOver
  <2>2. CASE UNCHANGED <<labelVars, timer, hazard, rsp>>
      BY <1>19, <2>2, NoNewDecider DEF HandleResponse
  <2>3. QED
      BY <1>19, <2>1, <2>2 DEF HandleResponse
<1>20. ASSUME NEW c \in Responder, ResponseCancelPacket(c) PROVE OnceInv'
    BY <1>0, <1>a, <1>r, <1>u, <1>20, NoNewDecider DEF ResponseCancelPacket
<1>21. ASSUME NEW c \in Responder, ResponseDeliver(c) PROVE OnceInv'
  <2>0. PICK w \in Txn : w = rsp[c].t
      BY <1>0, <1>a, <1>r, <1>u, <1>21 DEF ResponseDeliver, AtHolds
  <2>1. Decides(w, c) /\ UNCHANGED hazard /\ Callback(w, "response")
      BY <1>0, <1>a, <1>r, <1>u, <2>0, <1>21 DEF ResponseDeliver
  <2>2. ~Decides(w, c)'
      BY <1>0, <1>a, <1>r, <1>u, <1>21, <2>0, <2>1 DEF ResponseDeliver, TimerState
  <2>3. \A u \in Txn, h \in Role : Decides(u, h)' => Decides(u, h) \/ (u = w /\ h = "done")
      BY <1>0, <1>a, <1>r, <1>u, <1>21, <2>0, <2>1 DEF ResponseDeliver, Callback, TimerState
  <2>4. c \in Role /\ c # "done"
      OBVIOUS
  <2>5. QED
    <3> HIDE DEF Decides, Role
    <3> QED
        BY <2>1, <2>2, <2>3, <2>4, CalledBack
<1>22. ASSUME NEW t \in Txn, UserCancel(t) PROVE OnceInv'
    BY <1>0, <1>a, <1>r, <1>u, <1>22, NoNewDecider DEF UserCancel
<1>23. ASSUME UserCancelPacket PROVE OnceInv'
  <2>1. CASE user.t \in list /\ FindAndPop(user.t, FlushRace(user.t))
             /\ user' = [user EXCEPT !.pc = "callback"]
    <3>1. PICK w \in Txn : w = user.t
        BY <1>0, <2>1
    <3>2. UNCHANGED <<send_pc, at, rsp, rm_list, calls>> /\ FindAndPop(w, FlushRace(w))
        BY <1>23, <2>1, <3>1 DEF UserCancelPacket
    <3>3. HazardKept /\ ("timer" \in hazard'[w] \/ ~Decides(w, "list")')
          /\ list' \subseteq list /\ \A u \in Txn : timer'[u] = "callback" => timer[u] = "callback"
        BY <1>0, <3>2, PopEffect
    <3>4. \A u \in Txn, h \in Role : Decides(u, h)' => Decides(u, h) \/ (u = w /\ h = "user")
        BY <1>0, <1>a, <1>r, <1>u, <2>1, <3>1, <3>2, <3>3
    <3>5. Decides(w, "list")
        BY <2>1, <3>1
    <3>6. QED
      <4> HIDE DEF Decides, Role, HazardKept
      <4> QED
          BY <1>R, <3>2, <3>3, <3>4, <3>5, HandOver
  <2>2. CASE UNCHANGED <<labelVars, timer>> /\ hazard' = [hazard EXCEPT ![user.t] = @ \cup FlushRace(user.t)]
             /\ user' = [pc |-> "idle", t |-> NoTxn]
      BY <1>0, <1>a, <1>r, <1>u, <1>23, <2>2, NoNewDecider DEF UserCancelPacket
  <2>3. CASE UNCHANGED <<labelVars, timer, hazard>> /\ user' = [user EXCEPT !.pc = "close"]
      BY <1>0, <1>a, <1>r, <1>u, <1>23, <2>3, NoNewDecider DEF UserCancelPacket
  <2>4. QED
      BY <1>23, <2>1, <2>2, <2>3 DEF UserCancelPacket
<1>24. ASSUME UserClose PROVE OnceInv'
  <2>1. CASE user.t \in list /\ FindAndPop(user.t, FlushRace(user.t) \cup (IF card # "up" THEN {"removal"} ELSE {}))
             /\ user' = [user EXCEPT !.pc = "callback"]
    <3>1. PICK w \in Txn : w = user.t
        BY <1>0, <2>1
    <3>2. UNCHANGED <<send_pc, at, rsp, rm_list, calls>> /\ FindAndPop(w, FlushRace(w) \cup (IF card # "up" THEN {"removal"} ELSE {}))
        BY <1>24, <2>1, <3>1 DEF UserClose
    <3>3. HazardKept /\ ("timer" \in hazard'[w] \/ ~Decides(w, "list")')
          /\ list' \subseteq list /\ \A u \in Txn : timer'[u] = "callback" => timer[u] = "callback"
        BY <1>0, <3>2, PopEffect
    <3>4. \A u \in Txn, h \in Role : Decides(u, h)' => Decides(u, h) \/ (u = w /\ h = "user")
        BY <1>0, <1>a, <1>r, <1>u, <2>1, <3>1, <3>2, <3>3
    <3>5. Decides(w, "list")
        BY <2>1, <3>1
    <3>6. QED
      <4> HIDE DEF Decides, Role, HazardKept
      <4> QED
          BY <1>R, <3>2, <3>3, <3>4, <3>5, HandOver
  <2>2. CASE UNCHANGED <<labelVars, timer, hazard>> /\ user' = [pc |-> "idle", t |-> NoTxn]
      BY <1>0, <1>a, <1>r, <1>u, <1>24, <2>2, NoNewDecider DEF UserClose
  <2>3. QED
      BY <1>24, <2>1, <2>2 DEF UserClose
<1>25. ASSUME UserCallback PROVE OnceInv'
  <2>0. PICK w \in Txn : w = user.t
      BY <1>0, <1>a, <1>r, <1>u, <1>25 DEF UserCallback, AtHolds
  <2>1. Decides(w, "user") /\ UNCHANGED hazard /\ Callback(w, "cancelled")
      BY <1>0, <1>a, <1>r, <1>u, <2>0, <1>25 DEF UserCallback
  <2>2. ~Decides(w, "user")'
      BY <1>0, <1>a, <1>r, <1>u, <1>25, <2>0, <2>1 DEF UserCallback, TimerState
  <2>3. \A u \in Txn, h \in Role : Decides(u, h)' => Decides(u, h) \/ (u = w /\ h = "done")
      BY <1>0, <1>a, <1>r, <1>u, <1>25, <2>0, <2>1 DEF UserCallback, Callback, TimerState
  <2>4. "user" \in Role /\ "user" # "done"
      OBVIOUS
  <2>5. QED
    <3> HIDE DEF Decides, Role
    <3> QED
        BY <2>1, <2>2, <2>3, <2>4, CalledBack
<1>26. ASSUME NEW t \in Txn, TimerFire(t) PROVE OnceInv'
    BY <1>0, <1>a, <1>r, <1>u, <1>26, NoNewDecider DEF TimerFire
<1>27. ASSUME NEW t \in Txn, TimerPop(t) PROVE OnceInv'
  <2>1. CASE t \in list /\ RemoveTransactionEntry(t) /\ timer' = [timer EXCEPT ![t] = "callback"]
    <3>1. HazardKept /\ UNCHANGED calls /\ ~Decides(t, "list")'
        BY <1>27, <2>1 DEF TimerPop, RemoveTransactionEntry
    <3>2. \A u \in Txn, h \in Role : Decides(u, h)' => Decides(u, h) \/ (u = t /\ h = "timer")
        BY <1>0, <1>27, <2>1 DEF TimerPop, RemoveTransactionEntry
    <3>3. Decides(t, "list")
        BY <2>1
    <3>4. QED
      <4> HIDE DEF Decides, Role, HazardKept
      <4> QED
          BY <1>R, <3>1, <3>2, <3>3, HandOver
  <2>2. CASE timer' = [timer EXCEPT ![t] = "off"] /\ UNCHANGED labelVars
      BY <1>0, <1>27, <2>2, NoNewDecider DEF TimerPop
  <2>3. QED
      BY <1>27, <2>1, <2>2 DEF TimerPop
<1>28. ASSUME NEW t \in Txn, TimerCallback(t) PROVE OnceInv'
  <2>1. Decides(t, "timer") /\ UNCHANGED hazard /\ Callback(t, "cancelled")
      BY <1>0, <1>a, <1>r, <1>u, <1>28 DEF TimerCallback
  <2>2. ~Decides(t, "timer")'
      BY <1>0, <1>a, <1>r, <1>u, <1>28, <2>1 DEF TimerCallback, TimerState
  <2>3. \A u \in Txn, h \in Role : Decides(u, h)' => Decides(u, h) \/ (u = t /\ h = "done")
      BY <1>0, <1>a, <1>r, <1>u, <1>28, <2>1 DEF TimerCallback, Callback, TimerState
  <2>4. "timer" \in Role /\ "timer" # "done"
      OBVIOUS
  <2>5. QED
    <3> HIDE DEF Decides, Role
    <3> QED
        BY <2>1, <2>2, <2>3, <2>4, CalledBack
<1>29. ASSUME ResetStop PROVE OnceInv'
    BY <1>0, <1>a, <1>r, <1>u, <1>29, NoNewDecider DEF ResetStop
<1>30. ASSUME FlushStart PROVE OnceInv'
    BY <1>0, <1>a, <1>r, <1>u, <1>30, NoNewDecider DEF FlushStart
<1>31. ASSUME ResetEnd PROVE OnceInv'
    BY <1>0, <1>a, <1>r, <1>u, <1>31, NoNewDecider DEF ResetEnd
<1>32. ASSUME RemoveStart PROVE OnceInv'
    BY <1>0, <1>a, <1>r, <1>u, <1>32, NoNewDecider DEF RemoveStart
<1>33. ASSUME RemoveDisable PROVE OnceInv'
    BY <1>0, <1>a, <1>r, <1>u, <1>33, NoNewDecider DEF RemoveDisable
<1>34. ASSUME RemoveCancelPending PROVE OnceInv'
  <2>1. HazardKept /\ UNCHANGED calls
      BY <1>0, <1>34 DEF RemoveCancelPending
  <2>2. \A u \in Txn, h \in Role : Decides(u, h)' =>
            \/ Decides(u, h)
            \/ h = "removal" /\ Decides(u, "list") /\ ~Decides(u, "list")'
      BY <1>0, <1>34 DEF RemoveCancelPending
  <2>3. SingleCompleter'
      BY <2>1, <2>2 DEF OnceInv, SingleCompleter, Deciders
  <2>4. QED
      BY <2>1, <2>3 DEF OnceInv, CallbackOnceUnlessTimerRuns
<1>35. ASSUME NEW t \in Txn, RemoveCallback(t) PROVE OnceInv'
  <2>1. Decides(t, "removal") /\ UNCHANGED hazard /\ Callback(t, "cancelled")
      BY <1>0, <1>a, <1>r, <1>u, <1>35 DEF RemoveCallback
  <2>2. ~Decides(t, "removal")'
      BY <1>0, <1>a, <1>r, <1>u, <1>35, <2>1 DEF RemoveCallback, TimerState
  <2>3. \A u \in Txn, h \in Role : Decides(u, h)' => Decides(u, h) \/ (u = t /\ h = "done")
      BY <1>0, <1>a, <1>r, <1>u, <1>35, <2>1 DEF RemoveCallback, Callback, TimerState
  <2>4. "removal" \in Role /\ "removal" # "done"
      OBVIOUS
  <2>5. QED
    <3> HIDE DEF Decides, Role
    <3> QED
        BY <2>1, <2>2, <2>3, <2>4, CalledBack
<1>36. ASSUME RemoveDone PROVE OnceInv'
    BY <1>0, <1>a, <1>r, <1>u, <1>36, NoNewDecider DEF RemoveDone
<1>37. CASE UNCHANGED vars
    BY <1>37, NoNewDecider DEF vars
<1>38. QED
    BY <1>1, <1>2, <1>3, <1>4, <1>5, <1>6, <1>7, <1>8, <1>9, <1>10, <1>11, <1>12, <1>13, <1>14, <1>15, <1>16, <1>17, <1>18, <1>19, <1>20, <1>21, <1>22, <1>23, <1>24, <1>25, <1>26, <1>27, <1>28, <1>29, <1>30, <1>31, <1>32, <1>33, <1>34, <1>35, <1>36, <1>37
       DEF Next, Sender, AtContext, ResponseContext, UserContext, Timer, ResetThread, Removal

\* THEOREM: at most one context completes a transaction and its callback runs
\* at most once, unless the completion met the split timeout handler running;
\* about find_and_pop_transaction_entry() and everyone who calls it.
THEOREM CallbackAtMostOnce == Spec => []CompletedOnce
<1>1. Init => OnceInv
    BY DEF Init, OnceInv, SingleCompleter, Deciders, CallbackOnceUnlessTimerRuns, Decides, Role, Responder
<1>2. Spec => [](TypeInv /\ OnceInv)
    BY <1>1, TypeInit, TypeStep, OnceStep, PTL DEF Spec
<1>3. QED
    BY <1>2, PTL DEF OnceInv, CompletedOnce

-----------------------------------------------------------------------------
(* The DMA program and its handler.                                        *)

\* None of the recorded races has met t.
Clean(t) == hazard[t] = {}

\* The packet of t waits in the DMA program of the AT context.
Queued(t) == \E i \in DOMAIN at_queue : at_queue[i] = t

\* A packet is queued at most once in the life of its transaction.
QueuedOnce ==
    /\ \A i, j \in DOMAIN at_queue : at_queue[i] = at_queue[j] => i = j
    /\ AtHolds => ~Queued(at.t)
    /\ \A t \in Txn : Clean(t) /\ ((Queued(t) /\ t \in linked) \/ send_pc[t] = "listed") =>
                         ack[t] = "none"

\* The handler of AT descriptors has t in hand, or will.
InAt(t) ==
    \/ Queued(t) /\ t \in linked
    \/ at.pc \in {"fetched", "close"} /\ at.t = t

\* fw_core_remove_card() stops the AT context for good before it cancels.
CardShape ==
    /\ at.pc = "off" => ~flushing
    /\ card \in {"disabling", "disabled", "cancelling", "removed"} => ~at_pending /\ rst = "idle"
    /\ card \in {"disabled", "cancelling", "removed"} => at.pc = "off" /\ at_queue = <<>>
    /\ card = "disabling" => at.pc = "off" \/ flushing
    /\ rm_list # {} => card = "cancelling"
    /\ card = "removed" =>
          \A t \in Txn : send_pc[t] = "new" \/ (send_pc[t] = "returned" /\ calls[t] > 0)

\* Contexts that have t in hand know that its sender has returned.
OthersAfterSender ==
    /\ \A c \in Responder : rsp[c].pc = "idle" => rsp[c].t = NoTxn
    /\ user.pc # "idle" => send_pc[user.t] = "returned"
    /\ user.pc = "close" /\ card = "up" => ack[user.t] # "none"
    /\ owed \cup resps \subseteq {t \in Txn : send_pc[t] = "returned"}

\* A context that takes a response has t in hand.
RspHas(t) == \E c \in Responder : rsp[c].pc # "idle" /\ rsp[c].t = t

\* The split timer of t runs only after the transmission of t, and only while t is listed.
TimerShape ==
    \A t \in Txn : timer[t] # "off" =>
        /\ t \in is_split /\ send_pc[t] = "returned" /\ ~InAt(t)
        /\ "timer" \notin hazard[t] /\ timer[t] # "callback" => t \in list

\* The contexts that decide over t, and the callback, come after its transmission.
Finished(t) ==
    \/ calls[t] > 0
    \/ user.pc = "callback" /\ user.t = t
    \/ \E c \in Responder : rsp[c].pc = "deliver" /\ rsp[c].t = t
    \/ t \in rm_list

\* Those that found t on the list, or its callback.
Touched(t) == calls[t] > 0 \/ RspHas(t) \/ t \in rm_list

\* Short of the recorded races, no two contexts own t at the same time.
NoRace ==
    \A t \in Txn : Clean(t) =>
        /\ Finished(t) => ~InAt(t)
        /\ Touched(t) => send_pc[t] = "returned"

\* The inductive invariant of GivenBackForGood, with TypeInv and the invariants it extends.
GivenInv == QueuedOnce /\ CardShape /\ OthersAfterSender /\ TimerShape /\ NoRace


LEMMA QueueAppended ==
    ASSUME NEW t \in Txn, at_queue \in Seq(Txn), at_queue' = Append(at_queue, t), QueuedOnce,
           ~Queued(t)
    PROVE  /\ \A u \in Txn : Queued(u)' <=> Queued(u) \/ u = t
           /\ \A i, j \in DOMAIN at_queue' : at_queue'[i] = at_queue'[j] => i = j
BY DEF Queued, QueuedOnce

LEMMA QueueTaken ==
    ASSUME at_queue \in Seq(Txn), at_queue # <<>>, at_queue' = Tail(at_queue), QueuedOnce
    PROVE  /\ Head(at_queue) \in Txn /\ Queued(Head(at_queue))
           /\ \A u \in Txn : Queued(u)' <=> Queued(u) /\ u # Head(at_queue)
           /\ \A i, j \in DOMAIN at_queue' : at_queue'[i] = at_queue'[j] => i = j
<1>1. /\ Len(at_queue) \in Nat \ {0} /\ DOMAIN at_queue = 1 .. Len(at_queue)
      /\ Head(at_queue) = at_queue[1] /\ at_queue[1] \in Txn
    OBVIOUS
<1>2. /\ DOMAIN at_queue' = 1 .. Len(at_queue) - 1
      /\ \A i \in 1 .. Len(at_queue) - 1 : at_queue'[i] = at_queue[i + 1]
    OBVIOUS
<1>3. \A i, j \in 1 .. Len(at_queue) : at_queue[i] = at_queue[j] => i = j
    BY <1>1 DEF QueuedOnce
<1>4. Queued(Head(at_queue))
    BY <1>1 DEF Queued
<1>5. ASSUME NEW u \in Txn, Queued(u)' PROVE Queued(u) /\ u # Head(at_queue)
  <2>1. PICK i \in 1 .. Len(at_queue) - 1 : at_queue'[i] = u
      BY <1>2, <1>5 DEF Queued
  <2>2. at_queue[i + 1] = u /\ i + 1 \in 1 .. Len(at_queue) /\ i + 1 # 1
      BY <1>1, <1>2, <2>1
  <2>3. QED
      BY <1>1, <1>3, <2>2 DEF Queued
<1>6. ASSUME NEW u \in Txn, Queued(u), u # Head(at_queue) PROVE Queued(u)'
  <2>1. PICK i \in 1 .. Len(at_queue) : at_queue[i] = u
      BY <1>1, <1>6 DEF Queued
  <2>2. i - 1 \in 1 .. Len(at_queue) - 1 /\ at_queue'[i - 1] = u
      BY <1>1, <1>2, <1>6, <2>1
  <2>3. QED
      BY <1>2, <2>2 DEF Queued
<1>7. \A i, j \in DOMAIN at_queue' : at_queue'[i] = at_queue'[j] => i = j
    BY <1>1, <1>2, <1>3
<1>8. QED
    BY <1>1, <1>4, <1>5, <1>6, <1>7

LEMMA QueuedSent ==
    TypeInv => \A t \in Txn : Queued(t) \/ (AtHolds /\ at.t = t) => send_pc[t] = "returned"
BY DEF TypeInv, QueueSent, Queued

LEMMA QueuedSame == ASSUME NEW t, UNCHANGED at_queue PROVE Queued(t)' <=> Queued(t)
BY DEF Queued

LEMMA QueuedOnceKept ==
    ASSUME QueuedOnce, UNCHANGED at_queue,
           \A t \in Txn : Clean(t)' => Clean(t),
           \A t \in Txn : send_pc'[t] = "listed" => send_pc[t] = "listed",
           \A t \in Txn : Clean(t)' /\ ((Queued(t) /\ t \in linked') \/ send_pc'[t] = "listed") =>
                (t \in linked' => t \in linked) /\ ack'[t] = ack[t],
           AtHolds' => AtHolds /\ at'.t = at.t
    PROVE  QueuedOnce'
BY DEF QueuedOnce, Queued

LEMMA PacketAckSome ==
    \A s \in AllHwStatus \cup {"none"}, f \in BOOLEAN : PacketAck(s, f) # "none"
BY DEF AllHwStatus, PacketAck

LEMMA NoRaceKept ==
    ASSUME NoRace,
           \A t \in Txn : Clean(t)' => Clean(t),
           \A t \in Txn : Clean(t)' /\ InAt(t)' => InAt(t) /\ (Finished(t)' => Finished(t)),
           \A t \in Txn : Clean(t)' /\ Touched(t)' => Touched(t) \/ send_pc'[t] = "returned",
           \A t \in Txn : send_pc[t] = "returned" => send_pc'[t] = "returned"
    PROVE  NoRace'
BY DEF NoRace

LEMMA CleanSame == UNCHANGED hazard => \A t \in Txn : Clean(t)' => Clean(t)
BY DEF Clean

LEMMA CleanAfter ==
    ASSUME NEW t \in Txn, NEW more \in SUBSET Hazards, hazard \in [Txn -> SUBSET Hazards],
           hazard' = [hazard EXCEPT ![t] = @ \cup more]
    PROVE  /\ \A u \in Txn : Clean(u)' => Clean(u)
           /\ Clean(t)' => more = {}
<1>1. hazard'[t] = hazard[t] \cup more /\ \A u \in Txn : u # t => hazard'[u] = hazard[u]
    OBVIOUS
<1>2. QED
    BY <1>1, Zenon DEF Clean

LEMMA CleanPopped ==
    ASSUME NEW t \in Txn, NEW more \in SUBSET Hazards, hazard \in [Txn -> SUBSET Hazards],
           FindAndPop(t, more)
    PROVE  /\ \A u \in Txn : Clean(u)' => Clean(u)
           /\ Clean(t)' => more = {} /\ TryCancelSplitTimeout(t)
<1>0. {"timer"} \in SUBSET Hazards
    BY DEF Hazards
<1>1. CASE TryCancelSplitTimeout(t)
    BY <1>1, CleanAfter DEF FindAndPop
<1>2. CASE ~TryCancelSplitTimeout(t)
  <2>1. hazard' = [hazard EXCEPT ![t] = @ \cup (more \cup {"timer"})]
      BY <1>2 DEF FindAndPop
  <2>2. QED
    <3>1. more \cup {"timer"} \in SUBSET Hazards /\ more \cup {"timer"} # {}
        BY <1>0
    <3>2. QED
        BY <2>1, <3>1, CleanAfter
<1>3. QED
    BY <1>1, <1>2

\* What the history records when fw_cancel_transaction() closes a transaction.
\* The races UserClose records.
UserRaces == FlushRace(user.t) \cup (IF card # "up" THEN {"removal"} ELSE {})

LEMMA GivenStep ==
    TypeInv /\ LabelInv /\ OnceInv /\ GivenInv /\ [Next]_vars => GivenInv'
<1> SUFFICES ASSUME TypeInv, LabelInv, OnceInv, GivenInv, [Next]_vars PROVE GivenInv'
    OBVIOUS
<1> USE DEF GivenInv, TypeInv, TypeOK, LabelType, SendType, AtType, ContextType, BusType,
            HistoryType, HoldersOK, AtHolds, ListSent, LabelInv, labelVars,
            fieldVars, timerVars, queueVars, busVars, wireVars, cardVars, callVars
<1>1. ASSUME NEW t \in Txn, SendAllocate(t) PROVE GivenInv'
    BY <1>1, CleanSame, QueuedSame, QueuedSent, QueuedOnceKept, NoRaceKept
       DEF SendAllocate, CardShape, OthersAfterSender, TimerShape, InAt, Finished, Touched,
           RspHas
<1>2. ASSUME NEW t \in Txn, SendNoLabel(t) PROVE GivenInv'
    BY SMTT(30), <1>2, CleanSame, QueuedSame, QueuedSent, QueuedOnceKept, NoRaceKept
       DEF SendNoLabel, Callback, CardShape, OthersAfterSender, TimerShape, InAt, Finished,
           Touched, RspHas
<1>3. ASSUME NEW t \in Txn, SendListAdd(t) PROVE GivenInv'
  <2>0. \A u \in Txn : Clean(u)' => Clean(u)
      BY <1>3, CleanSame DEF SendListAdd
  <2>1. QueuedOnce'
      BY <1>3, <2>0, QueuedSent, QueuedSame DEF SendListAdd, QueuedOnce
  <2>2. CardShape'
      BY <1>3 DEF SendListAdd, CardShape
  <2>3. OthersAfterSender'
      BY <1>3 DEF SendListAdd, OthersAfterSender
  <2>4. TimerShape'
      BY <1>3, QueuedSame, QueuedSent DEF SendListAdd, TimerShape, InAt
  <2>5. NoRace'
      BY <1>3, <2>0, QueuedSame, QueuedSent, NoRaceKept DEF SendListAdd, InAt, Finished,
         Touched, RspHas
  <2>6. QED
      BY <2>1, <2>2, <2>3, <2>4, <2>5
<1>4. ASSUME NEW t \in Txn, TransmitLocal(t) PROVE GivenInv'
    BY SMTT(30), <1>4, CleanSame, QueuedSame, QueuedSent, QueuedOnceKept, NoRaceKept
       DEF TransmitLocal, StartSplitTransactionTimeout, CardShape, OthersAfterSender,
           TimerShape, InAt, Finished, Touched, RspHas
<1>5. ASSUME NEW t \in Txn, TransmitQueue(t) PROVE GivenInv'
  <2>0. \A u \in Txn : Clean(u)' => Clean(u)
      BY <1>5, CleanSame DEF TransmitQueue
  <2>1. QueuedOnce'
    <3>1. ~Queued(t) /\ ~(AtHolds /\ at.t = t)
        BY <1>5, QueuedSent DEF TransmitQueue
    <3>2. /\ \A u \in Txn : Queued(u)' <=> Queued(u) \/ u = t
          /\ \A i, j \in DOMAIN at_queue' : at_queue'[i] = at_queue'[j] => i = j
        BY <1>5, <3>1, QueueAppended DEF TransmitQueue
    <3>3. QED
        BY <1>5, <2>0, <3>1, <3>2 DEF TransmitQueue, QueuedOnce
  <2>2. CardShape'
      BY <1>5 DEF TransmitQueue, CardShape
  <2>3. OthersAfterSender'
      BY <1>5 DEF TransmitQueue, OthersAfterSender
  <2>4. TimerShape'
    <3>1. \A u \in Txn : Queued(u)' <=> Queued(u) \/ u = t
        BY <1>5, QueuedSent, QueueAppended DEF TransmitQueue
    <3>2. QED
        BY <1>5, <3>1 DEF TransmitQueue, TimerShape, InAt
  <2>5. NoRace'
    <3>1. \A u \in Txn : Queued(u)' <=> Queued(u) \/ u = t
        BY <1>5, QueuedSent, QueueAppended DEF TransmitQueue
    <3>2. Clean(t) => ~Finished(t)
        BY <1>5 DEF TransmitQueue, NoRace, Finished, Touched, RspHas, OthersAfterSender
    <3>3. QED
        BY <1>5, <2>0, <3>1, <3>2 DEF TransmitQueue, NoRace, InAt, Finished, Touched, RspHas
  <2>6. QED
      BY <2>1, <2>2, <2>3, <2>4, <2>5
<1>6. ASSUME NEW t \in Txn, TransmitFail(t) PROVE GivenInv'
    BY <1>6, CleanSame, QueuedSame, QueuedSent, QueuedOnceKept, NoRaceKept
       DEF TransmitFail, CardShape, OthersAfterSender, TimerShape, InAt, Finished, Touched,
           RspHas
<1>7. ASSUME NEW t \in Txn, TransmitDummy(t) PROVE GivenInv'
    BY <1>7, CleanSame, QueuedSame, QueuedSent, QueuedOnceKept, NoRaceKept
       DEF TransmitDummy, CardShape, OthersAfterSender, TimerShape, InAt, Finished, Touched,
           RspHas
<1>8. ASSUME NEW t \in Txn, SendClose(t) PROVE GivenInv'
  <2>0. \A u \in Txn : Clean(u)' => Clean(u)
    <3>1. {} \in SUBSET Hazards
        OBVIOUS
    <3>2. CASE UNCHANGED hazard
        BY <3>2, CleanSame
    <3>3. CASE t \in list /\ FindAndPop(t, {})
        BY <3>1, <3>3, CleanPopped
    <3>4. QED
        BY <1>8, <3>2, <3>3 DEF SendClose
  <2>1. QueuedOnce'
      BY <1>8, <2>0, QueuedOnceKept, QueuedSent DEF SendClose, FindAndPop,
         RemoveTransactionEntry
  <2>2. CardShape'
      BY <1>8 DEF SendClose, FindAndPop, RemoveTransactionEntry, CardShape
  <2>3. OthersAfterSender'
      BY <1>8 DEF SendClose, FindAndPop, RemoveTransactionEntry, OthersAfterSender
  <2>4. TimerShape'
      BY <1>8, QueuedSame, QueuedSent DEF SendClose, FindAndPop, RemoveTransactionEntry,
         TimerShape, InAt
  <2>5. NoRace'
      BY <1>8, <2>0, QueuedSame, QueuedSent, NoRaceKept DEF SendClose, FindAndPop,
         RemoveTransactionEntry, InAt, Finished, Touched, RspHas
  <2>6. QED
      BY <2>1, <2>2, <2>3, <2>4, <2>5
<1>9. ASSUME NEW t \in Txn, SendCallback(t) PROVE GivenInv'
    BY SMTT(30), <1>9, CleanSame, QueuedSame, QueuedSent, QueuedOnceKept, NoRaceKept
       DEF SendCallback, Callback, CardShape, OthersAfterSender, TimerShape, InAt, Finished,
           Touched, RspHas
<1>10. ASSUME NEW t \in Txn, NEW s \in HwStatus, HwTransmit(t, s) PROVE GivenInv'
  <2>0. \A u \in Txn : Clean(u)' => Clean(u)
      BY <1>10, CleanSame DEF HwTransmit
  <2>1. QueuedOnce'
      BY <1>10, <2>0, QueuedOnceKept, QueuedSent DEF HwTransmit
  <2>2. CardShape'
      BY <1>10 DEF HwTransmit, CardShape
  <2>3. OthersAfterSender'
    <3>1. send_pc[t] = "returned"
        BY <1>10, QueuedSent DEF HwTransmit, Queued
    <3>2. QED
        BY <1>10, <3>1 DEF HwTransmit, OthersAfterSender
  <2>4. TimerShape'
      BY <1>10, QueuedSame, QueuedSent DEF HwTransmit, TimerShape, InAt
  <2>5. NoRace'
      BY <1>10, <2>0, QueuedSame, QueuedSent, NoRaceKept DEF HwTransmit, InAt, Finished,
         Touched, RspHas
  <2>6. QED
      BY <2>1, <2>2, <2>3, <2>4, <2>5
<1>11. ASSUME NEW t \in Txn, Respond(t) PROVE GivenInv'
    BY <1>11, CleanSame, QueuedSame, QueuedSent, QueuedOnceKept, NoRaceKept
       DEF Respond, CardShape, OthersAfterSender, TimerShape, InAt, Finished, Touched, RspHas
<1>12. ASSUME AtStart PROVE GivenInv'
    BY <1>12, CleanSame, QueuedSame, QueuedSent, QueuedOnceKept, NoRaceKept
       DEF AtStart, CardShape, OthersAfterSender, TimerShape, InAt, Finished, Touched, RspHas
<1>13. ASSUME AtFetch PROVE GivenInv'
  <2>0. \A u \in Txn : Clean(u)' => Clean(u)
      BY <1>13, CleanSame DEF AtFetch
  <2>1. QueuedOnce'
    <3> DEFINE h == Head(at_queue)
    <3>1. /\ h \in Txn /\ Queued(h)
          /\ \A u \in Txn : Queued(u)' <=> Queued(u) /\ u # h
          /\ \A i, j \in DOMAIN at_queue' : at_queue'[i] = at_queue'[j] => i = j
        BY <1>13, QueueTaken DEF AtFetch
    <3>2. UNCHANGED <<linked, ack, send_pc>> /\ (AtHolds' => at'.t = h)
        BY <1>13 DEF AtFetch
    <3>3. QED
        BY <2>0, <3>1, <3>2 DEF QueuedOnce
  <2>2. CardShape'
      BY <1>13 DEF AtFetch, CardShape
  <2>3. OthersAfterSender'
      BY <1>13 DEF AtFetch, OthersAfterSender
  <2>4. TimerShape'
    <3> DEFINE h == Head(at_queue)
    <3>1. h \in Txn /\ Queued(h) /\ \A u \in Txn : Queued(u)' <=> Queued(u) /\ u # h
        BY <1>13, QueueTaken DEF AtFetch
    <3>2. \A u \in Txn : InAt(u)' => InAt(u)
        BY <1>13, <3>1 DEF AtFetch, InAt
    <3>3. QED
        BY <1>13, <3>2 DEF AtFetch, TimerShape
  <2>5. NoRace'
    <3> DEFINE h == Head(at_queue)
    <3>1. h \in Txn /\ Queued(h) /\ \A u \in Txn : Queued(u)' <=> Queued(u) /\ u # h
        BY <1>13, QueueTaken DEF AtFetch
    <3>2. \A u \in Txn : InAt(u)' => InAt(u)
        BY <1>13, <3>1 DEF AtFetch, InAt
    <3>3. QED
        BY <1>13, <2>0, <3>2, NoRaceKept DEF AtFetch, Finished, Touched, RspHas
  <2>6. QED
      BY <2>1, <2>2, <2>3, <2>4, <2>5
<1>14. ASSUME AtAck PROVE GivenInv'
  <2>0. \A u \in Txn : Clean(u)' => Clean(u)
      BY <1>14, CleanSame DEF AtAck
  <2>1. QueuedOnce'
    <3>1. ~Queued(at.t) /\ send_pc[at.t] = "returned"
        BY <1>14, QueuedSent DEF AtAck, QueuedOnce
    <3>2. QED
        BY <1>14, <2>0, <3>1, QueuedOnceKept DEF AtAck
  <2>2. CardShape'
      BY <1>14 DEF AtAck, CardShape
  <2>3. OthersAfterSender'
      BY ZenonT(30), <1>14, PacketAckSome DEF AtAck, OthersAfterSender
  <2>4. TimerShape'
      BY <1>14, QueuedSame, QueuedSent DEF AtAck, TimerShape, InAt
  <2>5. NoRace'
      BY <1>14, <2>0, QueuedSame, QueuedSent, NoRaceKept DEF AtAck, InAt, Finished, Touched,
         RspHas
  <2>6. QED
      BY <2>1, <2>2, <2>3, <2>4, <2>5
<1>15. ASSUME AtPending PROVE GivenInv'
  <2>0. \A u \in Txn : Clean(u)' => Clean(u)
      BY <1>15, CleanSame DEF AtPending
  <2>1. QueuedOnce'
      BY <1>15, <2>0, QueuedOnceKept, QueuedSent DEF AtPending, StartSplitTransactionTimeout
  <2>2. CardShape'
      BY <1>15 DEF AtPending, StartSplitTransactionTimeout, CardShape
  <2>3. OthersAfterSender'
      BY <1>15 DEF AtPending, StartSplitTransactionTimeout, OthersAfterSender
  <2>4. TimerShape'
    <3>1. ~Queued(at.t) /\ send_pc[at.t] = "returned"
        BY <1>15, QueuedSent DEF AtPending, QueuedOnce
    <3>2. QED
        BY <1>15, <3>1, QueuedSame DEF AtPending, StartSplitTransactionTimeout, TimerShape,
           InAt
  <2>5. NoRace'
      BY <1>15, <2>0, QueuedSame, QueuedSent, NoRaceKept DEF AtPending,
         StartSplitTransactionTimeout, InAt, Finished, Touched, RspHas
  <2>6. QED
      BY <2>1, <2>2, <2>3, <2>4, <2>5
<1>16. ASSUME AtClose PROVE GivenInv'
  <2>0. \A u \in Txn : Clean(u)' => Clean(u)
    <3>1. {} \in SUBSET Hazards
        OBVIOUS
    <3>2. CASE UNCHANGED hazard
        BY <3>2, CleanSame
    <3>3. CASE at.t \in list /\ FindAndPop(at.t, {})
        BY <3>1, <3>3, CleanPopped
    <3>4. QED
        BY <1>16, <3>2, <3>3 DEF AtClose
  <2>1. QueuedOnce'
      BY <1>16, <2>0, QueuedOnceKept, QueuedSent DEF AtClose, FindAndPop,
         RemoveTransactionEntry
  <2>2. CardShape'
      BY <1>16 DEF AtClose, FindAndPop, RemoveTransactionEntry, CardShape
  <2>3. OthersAfterSender'
      BY <1>16 DEF AtClose, FindAndPop, RemoveTransactionEntry, OthersAfterSender
  <2>4. TimerShape'
      BY <1>16, QueuedSame, QueuedSent DEF AtClose, FindAndPop, RemoveTransactionEntry,
         TimerShape, InAt
  <2>5. NoRace'
      BY <1>16, <2>0, QueuedSame, QueuedSent, NoRaceKept DEF AtClose, FindAndPop,
         RemoveTransactionEntry, InAt, Finished, Touched, RspHas
  <2>6. QED
      BY <2>1, <2>2, <2>3, <2>4, <2>5
<1>17. ASSUME AtCallback PROVE GivenInv'
  <2>0. \A u \in Txn : Clean(u)' => Clean(u)
      BY <1>17, CleanSame DEF AtCallback
  <2>1. QueuedOnce'
      BY <1>17, <2>0, QueuedOnceKept, QueuedSent DEF AtCallback, Callback
  <2>2. CardShape'
      BY <1>17 DEF AtCallback, Callback, CardShape
  <2>3. OthersAfterSender'
      BY <1>17 DEF AtCallback, Callback, OthersAfterSender
  <2>4. TimerShape'
      BY <1>17, QueuedSame, QueuedSent DEF AtCallback, Callback, TimerShape, InAt
  <2>5. NoRace'
    <3>1. ~Queued(at.t) /\ send_pc[at.t] = "returned"
        BY <1>17, QueuedSent DEF AtCallback, QueuedOnce
    <3>2. QED
        BY <1>17, <2>0, <3>1, QueuedSame, NoRaceKept
           DEF AtCallback, Callback, InAt, Finished, Touched, RspHas
  <2>6. QED
      BY <2>1, <2>2, <2>3, <2>4, <2>5
<1>18. ASSUME AtStop PROVE GivenInv'
  <2>0. \A u \in Txn : Clean(u)' => Clean(u)
      BY <1>18, CleanSame DEF AtStop
  <2>1. QueuedOnce'
      BY <1>18, <2>0, QueuedOnceKept, QueuedSent DEF AtStop
  <2>2. CardShape'
    <3>1. flushing => at_queue = <<>>
        BY <1>18 DEF AtStop, DescriptorDone
    <3>2. ~flushing' /\ at'.pc = "off"
        BY <1>18 DEF AtStop
    <3>3. QED
        BY <1>18, <3>1, <3>2 DEF AtStop, CardShape
  <2>3. OthersAfterSender'
      BY <1>18 DEF AtStop, OthersAfterSender
  <2>4. TimerShape'
      BY <1>18, QueuedSame, QueuedSent DEF AtStop, TimerShape, InAt
  <2>5. NoRace'
      BY <1>18, <2>0, QueuedSame, QueuedSent, NoRaceKept DEF AtStop, InAt, Finished,
         Touched, RspHas
  <2>6. QED
      BY <2>1, <2>2, <2>3, <2>4, <2>5
<1>19. ASSUME NEW c \in Responder, NEW r \in resps, HandleResponse(c, r) PROVE GivenInv'
  <2>0. \A u \in Txn : Clean(u)' => Clean(u)
    <3>1. CASE UNCHANGED hazard
        BY <3>1, CleanSame
    <3>2. CASE \E t \in list : FindAndPop(t, IF t = r THEN {} ELSE {"stale"})
        BY <3>2, CleanPopped DEF Hazards
    <3>3. QED
        BY <1>19, <3>1, <3>2 DEF HandleResponse
  <2>1. QueuedOnce'
      BY <1>19, <2>0, QueuedOnceKept, QueuedSent DEF HandleResponse, FindAndPop,
         RemoveTransactionEntry
  <2>2. CardShape'
      BY <1>19 DEF HandleResponse, FindAndPop, RemoveTransactionEntry, CardShape
  <2>3. OthersAfterSender'
    <3>0. UNCHANGED <<user, send_pc, card, ack, owed>> /\ resps' \subseteq resps
        BY <1>19 DEF HandleResponse
    <3>1. CASE UNCHANGED rsp
        BY <3>0, <3>1 DEF OthersAfterSender
    <3>2. CASE \E t \in list : rsp' = [rsp EXCEPT ![c] = [pc |-> "cancel", t |-> t]]
      <4>1. \A d \in Responder : rsp'[d].pc = "idle" => rsp'[d].t = NoTxn
          BY <3>2 DEF OthersAfterSender
      <4>2. QED
          BY <3>0, <4>1 DEF OthersAfterSender
    <3>3. QED
        BY <1>19, <3>1, <3>2 DEF HandleResponse
  <2>4. TimerShape'
      BY <1>19, QueuedSame, QueuedSent DEF HandleResponse, FindAndPop,
         RemoveTransactionEntry, TimerShape, InAt
  <2>5. NoRace'
    <3>0. UNCHANGED <<send_pc, at, at_queue, linked, calls, user, rm_list>>
        BY <1>19 DEF HandleResponse
    <3>1. CASE UNCHANGED <<hazard, rsp>>
        BY <2>0, <3>0, <3>1, QueuedSame, NoRaceKept DEF InAt, Finished, Touched, RspHas
    <3>2. ASSUME NEW t \in list, FindAndPop(t, IF t = r THEN {} ELSE {"stale"}),
                 rsp' = [rsp EXCEPT ![c] = [pc |-> "cancel", t |-> t]]
          PROVE  NoRace'
      <4>1. Clean(t)' => t = r
          BY <3>2, CleanPopped DEF Hazards
      <4>2. send_pc[r] = "returned"
          BY DEF OthersAfterSender
      <4>3. \A u \in Txn : /\ Finished(u)' => Finished(u)
                           /\ Touched(u)' => Touched(u) \/ u = t
                           /\ InAt(u)' => InAt(u)
          BY <3>0, <3>2, QueuedSame DEF InAt, Finished, Touched, RspHas
      <4>4. QED
          BY <2>0, <3>0, <4>1, <4>2, <4>3, NoRaceKept
    <3>3. QED
        BY <1>19, <3>1, <3>2 DEF HandleResponse
  <2>6. QED
      BY <2>1, <2>2, <2>3, <2>4, <2>5
<1>20. ASSUME NEW c \in Responder, ResponseCancelPacket(c) PROVE GivenInv'
  <2>0. \A u \in Txn : Clean(u)' => Clean(u)
    <3>1. PICK w \in Txn, more \in SUBSET Hazards : hazard' = [hazard EXCEPT ![w] = @ \cup more]
        BY ZenonT(30), <1>20, FlushRaceType DEF ResponseCancelPacket, Hazards
    <3>2. QED
        BY <3>1, CleanAfter
  <2>1. QueuedOnce'
    <3>1. PICK w \in Txn : w = rsp[c].t
        BY <1>20 DEF ResponseCancelPacket
    <3>2. Clean(w) => send_pc[w] = "returned"
        BY <1>20, <3>1 DEF ResponseCancelPacket, NoRace, Touched, RspHas
    <3>3. /\ UNCHANGED <<at_queue, at, send_pc>>
          /\ \/ UNCHANGED <<linked, ack>>
             \/ linked' = linked \ {w} /\ ack' = [ack EXCEPT ![w] = "cancelled"]
        BY <1>20, <3>1 DEF ResponseCancelPacket, Withdraw
    <3>4. QED
        BY <2>0, <3>2, <3>3, QueuedOnceKept
  <2>2. CardShape'
      BY <1>20 DEF ResponseCancelPacket, Withdraw, DropPendingAtWork, AtWorkIdle, CardShape
  <2>3. OthersAfterSender'
      BY <1>20 DEF ResponseCancelPacket, Withdraw, DropPendingAtWork, AtWorkIdle,
         OthersAfterSender
  <2>4. TimerShape'
    <3>1. UNCHANGED <<timer, is_split, send_pc, at, at_queue, list>>
          /\ linked' \subseteq linked
        BY <1>20 DEF ResponseCancelPacket, Withdraw
    <3>2. PICK more : hazard' = [hazard EXCEPT ![rsp[c].t] = @ \cup more]
        BY <1>20 DEF ResponseCancelPacket
    <3>3. \A u \in Txn : "timer" \in hazard[u] => "timer" \in hazard'[u]
        BY <3>2
    <3>4. QED
        BY <3>1, <3>3, QueuedSame DEF TimerShape, InAt
  <2>5. NoRace'
    <3>1. PICK w \in Txn : w = rsp[c].t
        BY <1>20 DEF ResponseCancelPacket
    <3>2. UNCHANGED <<send_pc, at, at_queue, calls, user, rm_list>>
          /\ linked' \subseteq linked
        BY <1>20 DEF ResponseCancelPacket, Withdraw
    <3>3. rsp' = [rsp EXCEPT ![c] = [pc |-> "deliver", t |-> w]] /\ rsp[c].pc = "cancel"
        BY <1>20, <3>1 DEF ResponseCancelPacket
    <3>4. Clean(w)' => ~InAt(w)'
      <4>1. CASE card # "up"
        <5>1. hazard' = [hazard EXCEPT ![w] = @ \cup {"removal"}] /\ {"removal"} \in SUBSET Hazards
            BY <1>20, <3>1, <4>1 DEF ResponseCancelPacket, Hazards
        <5>2. ~Clean(w)'
          <6>1. Clean(w)' => {"removal"} = {}
              BY <5>1, CleanAfter, ZenonT(30)
          <6>2. QED
              BY <6>1
        <5>3. QED
            BY <5>2
      <4>2. CASE card = "up"
        <5>1. hazard' = [hazard EXCEPT ![w] = @ \cup FlushRace(w)]
            BY <1>20, <3>1, <4>2 DEF ResponseCancelPacket
        <5>2. Clean(w)' => FlushRace(w) = {}
            BY <5>1, FlushRaceType, CleanAfter
        <5>3. Clean(w)' => ~(at.pc \in {"fetched", "close"} /\ at.t = w)
            BY <5>2 DEF FlushRace
        <5>4. Clean(w)' /\ Queued(w) => w \notin linked'
            BY <1>20, <2>0, <3>1, <4>2 DEF ResponseCancelPacket, Withdraw, QueuedOnce
        <5>5. QED
            BY <3>2, <5>3, <5>4, QueuedSame DEF InAt
      <4>3. QED
          BY <4>1, <4>2
    <3>5. \A u \in Txn : /\ Finished(u)' => Finished(u) \/ u = w
                         /\ Touched(u)' => Touched(u)
                         /\ InAt(u)' => InAt(u)
        BY <3>1, <3>2, <3>3, QueuedSame DEF InAt, Finished, Touched, RspHas
    <3>6. QED
        BY <2>0, <3>2, <3>4, <3>5, NoRaceKept
  <2>6. QED
      BY <2>1, <2>2, <2>3, <2>4, <2>5
<1>21. ASSUME NEW c \in Responder, ResponseDeliver(c) PROVE GivenInv'
    BY SMTT(30), <1>21, CleanSame, QueuedSame, QueuedSent, QueuedOnceKept, NoRaceKept
       DEF ResponseDeliver, Callback, CardShape, OthersAfterSender, TimerShape, InAt,
           Finished, Touched, RspHas
<1>22. ASSUME NEW t \in Txn, UserCancel(t) PROVE GivenInv'
    BY <1>22, CleanSame, QueuedSame, QueuedSent, QueuedOnceKept, NoRaceKept
       DEF UserCancel, CardShape, OthersAfterSender, TimerShape, InAt, Finished, Touched,
           RspHas
<1>23. ASSUME UserCancelPacket PROVE GivenInv'
  <2>0. \A u \in Txn : Clean(u)' => Clean(u)
    <3>1. CASE UNCHANGED hazard
        BY <3>1, CleanSame
    <3>2. CASE user.t \in list /\ FindAndPop(user.t, FlushRace(user.t))
        BY <3>2, FlushRaceType, CleanPopped
    <3>3. CASE user.t \in Txn /\ hazard' = [hazard EXCEPT ![user.t] = @ \cup FlushRace(user.t)]
        BY <3>3, FlushRaceType, CleanAfter
    <3>4. QED
        BY <1>23, <3>1, <3>2, <3>3 DEF UserCancelPacket
  <2>1. QueuedOnce'
    <3>1. PICK w \in Txn : w = user.t
        BY <1>23 DEF UserCancelPacket
    <3>2. send_pc[w] = "returned"
        BY <1>23, <3>1 DEF UserCancelPacket, OthersAfterSender
    <3>3. /\ UNCHANGED <<at_queue, at, send_pc>>
          /\ \/ UNCHANGED <<linked, ack>>
             \/ linked' = linked \ {w} /\ ack' = [ack EXCEPT ![w] = "cancelled"]
        BY <1>23, <3>1 DEF UserCancelPacket, Withdraw
    <3>4. QED
        BY <2>0, <3>2, <3>3, QueuedOnceKept
  <2>2. CardShape'
      BY <1>23 DEF UserCancelPacket, FindAndPop, RemoveTransactionEntry, Withdraw,
         DropPendingAtWork, AtWorkIdle, CardShape
  <2>3. OthersAfterSender'
    <3>1. UNCHANGED <<rsp, owed, resps, send_pc, card>>
          /\ user'.pc \in {"idle", "close", "callback"}
        BY <1>23 DEF UserCancelPacket
    <3>2. user'.pc # "idle" => user'.t = user.t /\ user.pc # "idle"
        BY <1>23 DEF UserCancelPacket
    <3>3. user'.pc = "close" /\ card = "up" => UNCHANGED ack /\ ack[user.t] # "none"
        BY <1>23 DEF UserCancelPacket
    <3>4. QED
        BY <3>1, <3>2, <3>3 DEF OthersAfterSender
  <2>4. TimerShape'
      BY <1>23, QueuedSame, QueuedSent DEF UserCancelPacket, FindAndPop,
         RemoveTransactionEntry, Withdraw, DropPendingAtWork, AtWorkIdle, TimerShape, InAt
  <2>5. NoRace'
    <3>1. PICK w \in Txn : w = user.t
        BY <1>23 DEF UserCancelPacket
    <3>2. UNCHANGED <<send_pc, at, at_queue, calls, rsp, rm_list>> /\ linked' \subseteq linked
        BY <1>23 DEF UserCancelPacket, Withdraw
    <3>3. user'.pc = "callback" => w \notin linked' /\ w \in list /\ FindAndPop(w, FlushRace(w))
        BY <1>23, <3>1 DEF UserCancelPacket, Withdraw
    <3>4. user'.pc = "callback" => user'.t = w
        BY <1>23, <3>1 DEF UserCancelPacket
    <3>5. user'.pc = "callback" /\ Clean(w)' => ~InAt(w)'
      <4>1. user'.pc = "callback" /\ Clean(w)' => FlushRace(w) = {}
          BY <3>3, FlushRaceType, CleanPopped
      <4>2. QED
          BY <3>2, <3>3, <4>1 DEF InAt, FlushRace
    <3>6. \A u \in Txn : /\ Finished(u)' => Finished(u) \/ (u = w /\ user'.pc = "callback")
                         /\ Touched(u)' => Touched(u)
                         /\ InAt(u)' => InAt(u)
        BY <3>1, <3>2, <3>4, QueuedSame DEF InAt, Finished, Touched, RspHas
    <3>7. QED
        BY <2>0, <3>2, <3>5, <3>6, NoRaceKept
  <2>6. QED
      BY <2>1, <2>2, <2>3, <2>4, <2>5
<1>24. ASSUME UserClose PROVE GivenInv'
  <2>0. \A u \in Txn : Clean(u)' => Clean(u)
    <3> DEFINE more == UserRaces
    <3>1. CASE UNCHANGED hazard
        BY <3>1, CleanSame
    <3>2. CASE user.t \in list /\ FindAndPop(user.t, more)
      <4>1. more \in SUBSET Hazards
          BY <3>2, FlushRaceType DEF Hazards, UserRaces
      <4>2. QED
          BY <3>2, <4>1, CleanPopped
    <3>3. QED
        BY <1>24, <3>1, <3>2 DEF UserClose, UserRaces
  <2>1. QueuedOnce'
      BY <1>24, <2>0, QueuedOnceKept, QueuedSent DEF UserClose, UserRaces, FindAndPop,
         RemoveTransactionEntry
  <2>2. CardShape'
      BY <1>24 DEF UserClose, UserRaces, FindAndPop, RemoveTransactionEntry, CardShape
  <2>3. OthersAfterSender'
    <3>1. UNCHANGED <<rsp, owed, resps, send_pc, card>> /\ user'.pc \in {"idle", "callback"}
        BY <1>24 DEF UserClose, UserRaces
    <3>2. user'.pc # "idle" => user'.t = user.t /\ user.pc # "idle"
        BY <1>24 DEF UserClose, UserRaces
    <3>3. QED
        BY <3>1, <3>2 DEF OthersAfterSender
  <2>4. TimerShape'
    <3>0. UNCHANGED <<is_split, send_pc, at, at_queue, linked>>
        BY <1>24 DEF UserClose, UserRaces
    <3>1. CASE UNCHANGED <<timer, hazard, list>>
        BY <3>0, <3>1, QueuedSame DEF TimerShape, InAt
    <3>2. CASE user.t \in list /\ FindAndPop(user.t, UserRaces)
        BY <3>0, <3>2, QueuedSame DEF TimerShape, InAt, FindAndPop, RemoveTransactionEntry
    <3>3. QED
        BY <1>24, <3>1, <3>2 DEF UserClose, UserRaces
  <2>5. NoRace'
    <3> DEFINE more == UserRaces
    <3>1. PICK w \in Txn : w = user.t
        BY <1>24 DEF UserClose, UserRaces
    <3>2. UNCHANGED <<send_pc, at, at_queue, linked, calls, rsp, rm_list>>
        BY <1>24 DEF UserClose, UserRaces
    <3>3. user'.pc = "callback" => w \in list /\ FindAndPop(w, more) /\ user'.t = w
        BY <1>24, <3>1 DEF UserClose, UserRaces
    <3>4. user'.pc = "callback" /\ Clean(w)' => ~InAt(w)'
      <4>1. more \in SUBSET Hazards
          BY <3>1, FlushRaceType DEF Hazards, UserRaces
      <4>2. user'.pc = "callback" /\ Clean(w)' => more = {} /\ Clean(w)
          BY <3>3, <4>1, CleanPopped
      <4>3. more = {} => FlushRace(w) = {} /\ card = "up"
          BY <3>1, Zenon DEF UserRaces
      <4>4. card = "up" => ack[w] # "none"
          BY <1>24, <3>1 DEF UserClose, UserRaces, OthersAfterSender
      <4>5. card = "up" /\ Clean(w) => ~(Queued(w) /\ w \in linked)
          BY <4>4 DEF QueuedOnce
      <4>6. QED
          BY <3>2, <4>2, <4>3, <4>5, QueuedSame DEF InAt, FlushRace, UserRaces
    <3>5. \A u \in Txn : /\ Finished(u)' => Finished(u) \/ (u = w /\ user'.pc = "callback")
                         /\ Touched(u)' => Touched(u)
                         /\ InAt(u)' => InAt(u)
        BY <3>1, <3>2, <3>3, QueuedSame DEF InAt, Finished, Touched, RspHas
    <3>6. QED
        BY <2>0, <3>2, <3>4, <3>5, NoRaceKept
  <2>6. QED
      BY <2>1, <2>2, <2>3, <2>4, <2>5
<1>25. ASSUME UserCallback PROVE GivenInv'
  <2>0. \A u \in Txn : Clean(u)' => Clean(u)
      BY <1>25, CleanSame DEF UserCallback
  <2>1. QueuedOnce'
      BY <1>25, <2>0, QueuedOnceKept, QueuedSent DEF UserCallback, Callback
  <2>2. CardShape'
      BY <1>25 DEF UserCallback, Callback, CardShape
  <2>3. OthersAfterSender'
      BY <1>25 DEF UserCallback, Callback, OthersAfterSender
  <2>4. TimerShape'
      BY <1>25, QueuedSame, QueuedSent DEF UserCallback, Callback, TimerShape, InAt
  <2>5. NoRace'
    <3>1. PICK w \in Txn : w = user.t
        BY <1>25 DEF UserCallback
    <3>2. send_pc[w] = "returned" /\ Finished(w)
        BY <1>25, <3>1 DEF UserCallback, OthersAfterSender, Finished
    <3>3. UNCHANGED <<send_pc, at, at_queue, linked, rsp, rm_list>>
        BY <1>25 DEF UserCallback
    <3>4. \A u \in Txn : /\ Finished(u)' => Finished(u) \/ u = w
                         /\ Touched(u)' => Touched(u) \/ u = w
                         /\ InAt(u)' => InAt(u)
        BY <1>25, <3>1, <3>3, QueuedSame DEF UserCallback, Callback, InAt, Finished,
           Touched, RspHas
    <3>5. QED
        BY <2>0, <3>2, <3>3, <3>4, NoRaceKept
  <2>6. QED
      BY <2>1, <2>2, <2>3, <2>4, <2>5
<1>26. ASSUME NEW t \in Txn, TimerFire(t) PROVE GivenInv'
    BY <1>26, CleanSame, QueuedSame, QueuedSent, QueuedOnceKept, NoRaceKept
       DEF TimerFire, CardShape, OthersAfterSender, TimerShape, InAt, Finished, Touched,
           RspHas
<1>27. ASSUME NEW t \in Txn, TimerPop(t) PROVE GivenInv'
    BY <1>27, CleanSame, QueuedSame, QueuedSent, QueuedOnceKept, NoRaceKept
       DEF TimerPop, RemoveTransactionEntry, CardShape, OthersAfterSender, TimerShape, InAt,
           Finished, Touched, RspHas
<1>28. ASSUME NEW t \in Txn, TimerCallback(t) PROVE GivenInv'
  <2>0. \A u \in Txn : Clean(u)' => Clean(u)
      BY <1>28, CleanSame DEF TimerCallback
  <2>1. QueuedOnce'
      BY <1>28, <2>0, QueuedOnceKept, QueuedSent DEF TimerCallback, Callback
  <2>2. CardShape'
      BY <1>28 DEF TimerCallback, Callback, CardShape
  <2>3. OthersAfterSender'
      BY <1>28 DEF TimerCallback, Callback, OthersAfterSender
  <2>4. TimerShape'
      BY <1>28, QueuedSame, QueuedSent DEF TimerCallback, Callback, TimerShape, InAt
  <2>5. NoRace'
    <3>1. send_pc[t] = "returned" /\ ~InAt(t)
        BY <1>28 DEF TimerCallback, TimerShape
    <3>2. UNCHANGED <<send_pc, at, at_queue, linked, rsp, rm_list, user>>
        BY <1>28 DEF TimerCallback
    <3>3. \A u \in Txn : /\ Finished(u)' => Finished(u) \/ u = t
                         /\ Touched(u)' => Touched(u) \/ u = t
                         /\ InAt(u)' => InAt(u)
        BY <1>28, <3>2, QueuedSame DEF TimerCallback, Callback, InAt, Finished, Touched,
           RspHas
    <3>4. QED
        BY <2>0, <3>1, <3>2, <3>3, NoRaceKept
  <2>6. QED
      BY <2>1, <2>2, <2>3, <2>4, <2>5
<1>29. ASSUME ResetStop PROVE GivenInv'
    BY <1>29, CleanSame, QueuedSame, QueuedSent, QueuedOnceKept, NoRaceKept
       DEF ResetStop, CardShape, OthersAfterSender, TimerShape, InAt, Finished, Touched,
           RspHas
<1>30. ASSUME FlushStart PROVE GivenInv'
    BY <1>30, CleanSame, QueuedSame, QueuedSent, QueuedOnceKept, NoRaceKept
       DEF FlushStart, CardShape, OthersAfterSender, TimerShape, InAt, Finished, Touched,
           RspHas
<1>31. ASSUME ResetEnd PROVE GivenInv'
    BY <1>31, CleanSame, QueuedSame, QueuedSent, QueuedOnceKept, NoRaceKept
       DEF ResetEnd, CardShape, OthersAfterSender, TimerShape, InAt, Finished, Touched, RspHas
<1>32. ASSUME RemoveStart PROVE GivenInv'
    BY <1>32, CleanSame, QueuedSame, QueuedSent, QueuedOnceKept, NoRaceKept
       DEF RemoveStart, CardShape, OthersAfterSender, TimerShape, InAt, Finished, Touched,
           RspHas
<1>33. ASSUME RemoveDisable PROVE GivenInv'
    BY <1>33, CleanSame, QueuedSame, QueuedSent, QueuedOnceKept, NoRaceKept
       DEF RemoveDisable, CardShape, OthersAfterSender, TimerShape, InAt, Finished, Touched,
           RspHas
<1>34. ASSUME RemoveCancelPending PROVE GivenInv'
  <2>0. \A u \in Txn : Clean(u)' => Clean(u)
    <3>1. \A u \in Txn : hazard'[u] = hazard[u] \/ hazard'[u] = hazard[u] \cup {"removal"}
        BY <1>34 DEF RemoveCancelPending
    <3>2. QED
        BY <3>1, ZenonT(30) DEF Clean
  <2>1. QueuedOnce'
      BY <1>34, <2>0, QueuedOnceKept, QueuedSent DEF RemoveCancelPending
  <2>2. CardShape'
      BY <1>34 DEF RemoveCancelPending, CardShape
  <2>3. OthersAfterSender'
      BY <1>34 DEF RemoveCancelPending, OthersAfterSender
  <2>4. TimerShape'
      BY <1>34, QueuedSame, QueuedSent DEF RemoveCancelPending, TimerShape, InAt
  <2>5. NoRace'
    <3>1. \A u \in Txn : u \in rm_list' /\ send_pc[u] # "returned" =>
                            hazard'[u] = hazard[u] \cup {"removal"}
        BY <1>34 DEF RemoveCancelPending
    <3>2. \A u \in Txn : Clean(u)' /\ u \in rm_list' => send_pc[u] = "returned"
        BY <3>1, ZenonT(30) DEF Clean
    <3>3. UNCHANGED <<send_pc, at, at_queue, linked, rsp, calls, user>>
        BY <1>34 DEF RemoveCancelPending
    <3>4. \A u \in Txn : ~InAt(u)'
        BY <1>34 DEF RemoveCancelPending, CardShape, InAt, Queued
    <3>5. \A u \in Txn : Touched(u)' => Touched(u) \/ u \in rm_list'
        BY <3>3 DEF Touched, RspHas
    <3>6. QED
        BY <2>0, <3>2, <3>3, <3>4, <3>5, NoRaceKept
  <2>6. QED
      BY <2>1, <2>2, <2>3, <2>4, <2>5
<1>35. ASSUME NEW t \in Txn, RemoveCallback(t) PROVE GivenInv'
    BY <1>35, CleanSame, QueuedSame, QueuedSent, QueuedOnceKept, NoRaceKept
       DEF RemoveCallback, Callback, CardShape, OthersAfterSender, TimerShape, InAt,
           Finished, Touched, RspHas
<1>36. ASSUME RemoveDone PROVE GivenInv'
    BY <1>36, CleanSame, QueuedSame, QueuedSent, QueuedOnceKept, NoRaceKept
       DEF RemoveDone, CardShape, OthersAfterSender, TimerShape, InAt, Finished, Touched,
           RspHas
<1>37. CASE UNCHANGED vars
  <2>1. UNCHANGED <<hazard, at_queue, linked, ack, at, calls, rsp, rm_list, send_pc, user>>
      BY <1>37 DEF vars
  <2>2. QueuedOnce' /\ NoRace'
      BY <2>1, CleanSame, QueuedSame, QueuedOnceKept, NoRaceKept DEF InAt, Finished,
         Touched, RspHas
  <2>3. CardShape' /\ OthersAfterSender' /\ TimerShape'
      BY <1>37, QueuedSame DEF vars, CardShape, OthersAfterSender, TimerShape, InAt
  <2>4. QED
      BY <2>2, <2>3
<1>38. QED
    BY <1>1, <1>2, <1>3, <1>4, <1>5, <1>6, <1>7, <1>8, <1>9, <1>10, <1>11, <1>12, <1>13,
       <1>14, <1>15, <1>16, <1>17, <1>18, <1>19, <1>20, <1>21, <1>22, <1>23, <1>24, <1>25,
       <1>26, <1>27, <1>28, <1>29, <1>30, <1>31, <1>32, <1>33, <1>34, <1>35, <1>36, <1>37
       DEF Next, Sender, AtContext, ResponseContext, UserContext, Timer, ResetThread, Removal
LEMMA CompletionInit == Init => LabelInv /\ OnceInv /\ GivenInv
<1> SUFFICES ASSUME Init PROVE LabelInv /\ OnceInv /\ GivenInv
    OBVIOUS
<1>1. LabelInv
    BY DEF Init, LabelInv, TlabelOwned, ListSent, Live
<1>2. OnceInv
    BY DEF Init, OnceInv, SingleCompleter, Deciders, CallbackOnceUnlessTimerRuns, Decides,
           Role, Responder
<1>3. QueuedOnce /\ CardShape /\ OthersAfterSender
    BY DEF Init, QueuedOnce, CardShape, OthersAfterSender, AtHolds, Queued
<1>4. TimerShape /\ NoRace
    BY DEF Init, TimerShape, NoRace, Finished, Touched, RspHas
<1>5. QED
    BY <1>1, <1>2, <1>3, <1>4 DEF GivenInv

\* THEOREM: once its callback has run, no context has a transaction in its hands, unless one
\* of the four recorded races met it, and a removed card has no transaction on its list
\* except such with the timeout race; about close_transaction(), fw_core_handle_response(),
\* fw_cancel_transaction() and fw_core_remove_card().
THEOREM GivenBack == Spec => []GivenBackForGood
<1>2. Spec => [](TypeInv /\ LabelInv /\ OnceInv /\ GivenInv)
    BY CompletionInit, TypeInit, TypeStep, LabelStep, OnceStep, GivenStep, PTL DEF Spec
<1>3. TypeInv /\ LabelInv /\ OnceInv /\ GivenInv => GivenBackForGood
  <2> SUFFICES ASSUME TypeInv, LabelInv, OnceInv, GivenInv PROVE GivenBackForGood
      OBVIOUS
  <2>0. calls \in [Txn -> Nat] /\ rm_list \subseteq Txn /\ list \subseteq Txn
        /\ timer \in [Txn -> TimerState]
      BY DEF TypeInv, TypeOK, HistoryType, ContextType, LabelType, SendType, TimerState
  <2>1. ASSUME NEW t \in Txn, calls[t] > 0, Clean(t)
        PROVE  /\ t \notin list
               /\ at.pc \in {"fetched", "close", "callback"} => at.t # t
               /\ \A c \in Responder : rsp[c].t # t
               /\ timer[t] = "off"
               /\ t \notin rm_list
               /\ send_pc[t] = "returned"
    <3>1. "timer" \notin hazard[t]
        BY <2>1 DEF Clean
    <3>2. \A h \in Role : Decides(t, h) => h = "done"
        BY <2>1, <3>1 DEF OnceInv, SingleCompleter, Deciders, Decides, Role
    <3>3. t \notin list /\ t \notin rm_list /\ timer[t] # "callback"
          /\ ~(at.pc = "callback" /\ at.t = t)
        BY <3>2 DEF Decides, Role
    <3>4. \A c \in Responder : rsp[c].t # t
      <4>1. \A c \in Responder : c \in Role /\ c # "done"
          BY DEF Role, Responder
      <4>2. \A c \in Responder : ~(rsp[c].pc # "idle" /\ rsp[c].t = t)
          BY <3>2, <4>1 DEF Decides
      <4>3. t # NoTxn
          BY TxnAssumption
      <4>4. QED
          BY <4>2, <4>3 DEF GivenInv, OthersAfterSender
    <3>5. send_pc[t] = "returned" /\ ~InAt(t)
        BY <2>1 DEF GivenInv, NoRace, Touched, Finished
    <3>6. timer[t] = "off"
        BY <2>0, <3>1, <3>3 DEF GivenInv, TimerShape, TimerState
    <3>7. QED
        BY <3>3, <3>4, <3>5, <3>6 DEF InAt
  <2>2. NoTouchAfterCallback
      BY <2>1 DEF NoTouchAfterCallback, Clean
  <2>3. ASSUME card = "removed", NEW t \in list, "timer" \notin hazard[t] PROVE FALSE
    <3>1. calls[t] > 0
        BY <2>0, <2>3 DEF GivenInv, CardShape, LabelInv, ListSent
    <3>2. QED
        BY <2>0, <2>3, <3>1 DEF OnceInv, SingleCompleter, Deciders, Decides, Role
  <2>4. QED
      BY <2>2, <2>3 DEF GivenBackForGood, RemovedCardHasNoTransactions
<1>4. QED
    BY <1>2, <1>3, PTL

-----------------------------------------------------------------------------
(* What the callback is told.                                              *)

\* What an ack, and an rcode, say when the request failed on its way.
BadAck == {"generation", "ack_busy", "no_ack", "send_error"}
BadRcode == {"generation", "busy", "send_error", "no_ack"}

\* What the controller reports is what the responder did.
AckTrue ==
    /\ \A t \in Txn : t \in acked => send_pc[t] = "returned"
    /\ \A t \in Txn : Queued(t) \/ (at.pc = "fetched" /\ at.t = t) =>
          (t \in acked <=> status[t] \in {"complete", "pending"})
    /\ at.pc \in {"close", "callback"} =>
          /\ ack[at.t] \in BadAck => at.t \notin acked
          /\ ack[at.t] = "ack_complete" => at.t \in acked
          /\ ack[at.t] # "none"
    /\ \A t \in Txn : send_pc[t] \in {"listed", "close", "callback"} =>
          ack[t] \in {"none", "generation", "send_error", "cancelled"}

\* What the callback is told agrees with what the responder did.
TruthShape ==
    \A t \in Txn :
        /\ rcode[t] \in BadRcode => t \notin acked /\ send_pc[t] = "returned" /\ ~Queued(t)
        /\ rcode[t] = "complete" => t \in acked

\* The inductive invariant of the first half of AnswersAreTrue.
TruthInv == AckTrue /\ TruthShape

LEMMA PacketAckTrue ==
    \A s \in AllHwStatus \cup {"none"}, f \in BOOLEAN :
        /\ PacketAck(s, f) \in BadAck => s \notin {"complete", "pending"}
        /\ PacketAck(s, f) = "ack_complete" <=> s = "complete"
        /\ PacketAck(s, f) = "ack_pending" <=> s = "pending"
BY DEF AllHwStatus, PacketAck, BadAck

LEMMA AckToRcodeTrue ==
    \A a \in Ack :
        /\ AckToRcode(a) \in BadRcode => a \in BadAck
        /\ AckToRcode(a) = "complete" <=> a = "ack_complete"
        /\ AckToRcode(a) = "cancelled" <=> a \in {"none", "cancelled"}
BY DEF Ack, AckToRcode, BadAck, BadRcode

LEMMA TruthStep == TypeInv /\ GivenInv /\ TruthInv /\ [Next]_vars => TruthInv'
<1> SUFFICES ASSUME TypeInv, GivenInv, TruthInv, [Next]_vars PROVE TruthInv'
    OBVIOUS
<1> USE DEF TruthInv, TypeInv, TypeOK, LabelType, SendType, AtType, ContextType, BusType,
            HistoryType, HoldersOK, AtHolds, labelVars,
            fieldVars, timerVars, queueVars, busVars, wireVars, cardVars, callVars
<1>1. ASSUME NEW t \in Txn, SendAllocate(t) PROVE TruthInv'
    BY <1>1, QueuedSame, QueuedSent DEF SendAllocate, AckTrue, TruthShape, BadRcode
<1>2. ASSUME NEW t \in Txn, SendNoLabel(t) PROVE TruthInv'
  <2>1. AckTrue'
      BY <1>2, QueuedSame, QueuedSent DEF SendNoLabel, Callback, AckTrue
  <2>2. TruthShape'
    <3>1. t \notin acked /\ ~Queued(t)
        BY <1>2, QueuedSent DEF SendNoLabel, AckTrue
    <3>2. QED
        BY <1>2, <3>1, QueuedSame DEF SendNoLabel, Callback, TruthShape, BadRcode
  <2>3. QED
      BY <2>1, <2>2
<1>3. ASSUME NEW t \in Txn, SendListAdd(t) PROVE TruthInv'
    BY <1>3, QueuedSame, QueuedSent DEF SendListAdd, AckTrue, TruthShape, BadRcode
<1>4. ASSUME NEW t \in Txn, TransmitLocal(t) PROVE TruthInv'
    BY <1>4, QueuedSame, QueuedSent DEF TransmitLocal, AckTrue, TruthShape, BadRcode
<1>5. ASSUME NEW t \in Txn, TransmitQueue(t) PROVE TruthInv'
  <2>1. AckTrue'
    <3>1. \A u \in Txn : Queued(u)' <=> Queued(u) \/ u = t
        BY <1>5, QueuedSent, QueueAppended DEF TransmitQueue, GivenInv
    <3>2. t \notin acked /\ ~(AtHolds /\ at.t = t)
        BY <1>5, QueuedSent DEF TransmitQueue, AckTrue
    <3>3. QED
        BY <1>5, <3>1, <3>2 DEF TransmitQueue, AckTrue
  <2>2. TruthShape'
    <3>1. \A u \in Txn : Queued(u)' <=> Queued(u) \/ u = t
        BY <1>5, QueuedSent, QueueAppended DEF TransmitQueue, GivenInv
    <3>2. QED
        BY <1>5, <3>1 DEF TransmitQueue, TruthShape, BadRcode
  <2>3. QED
      BY <2>1, <2>2
<1>6. ASSUME NEW t \in Txn, TransmitFail(t) PROVE TruthInv'
    BY <1>6, QueuedSame, QueuedSent DEF TransmitFail, AckTrue, TruthShape, BadRcode
<1>7. ASSUME NEW t \in Txn, TransmitDummy(t) PROVE TruthInv'
    BY <1>7, QueuedSame, QueuedSent DEF TransmitDummy, AckTrue, TruthShape, BadRcode
<1>8. ASSUME NEW t \in Txn, SendClose(t) PROVE TruthInv'
    BY <1>8, QueuedSame, QueuedSent DEF SendClose, AckTrue, TruthShape, BadRcode
<1>9. ASSUME NEW t \in Txn, SendCallback(t) PROVE TruthInv'
  <2>1. AckTrue'
      BY <1>9, QueuedSame, QueuedSent DEF SendCallback, Callback, AckTrue
  <2>2. TruthShape'
    <3>1. t \notin acked /\ ~Queued(t) /\ ack[t] # "ack_complete"
        BY <1>9, QueuedSent DEF SendCallback, AckTrue
    <3>2. AckToRcode(ack[t]) # "complete"
        BY <3>1, AckToRcodeTrue
    <3>3. QED
        BY <1>9, <3>1, <3>2, QueuedSame DEF SendCallback, Callback, TruthShape
  <2>3. QED
      BY <2>1, <2>2
<1>10. ASSUME NEW t \in Txn, NEW s \in HwStatus, HwTransmit(t, s) PROVE TruthInv'
  <2>1. AckTrue'
    <3>1. Queued(t) /\ status[t] = "none"
        BY <1>10 DEF HwTransmit, Queued
    <3>2. send_pc[t] = "returned" /\ ~(AtHolds /\ at.t = t)
        BY <3>1, QueuedSent DEF GivenInv, QueuedOnce
    <3>3. t \notin acked
        BY <3>1 DEF AckTrue
    <3>4. QED
        BY SMTT(30), <1>10, <3>1, <3>2, <3>3, QueuedSame DEF HwTransmit, AckTrue
  <2>2. TruthShape'
    <3>1. Queued(t)
        BY <1>10 DEF HwTransmit, Queued
    <3>2. QED
        BY <1>10, <3>1, QueuedSame DEF HwTransmit, TruthShape
  <2>3. QED
      BY <2>1, <2>2
<1>11. ASSUME NEW t \in Txn, Respond(t) PROVE TruthInv'
    BY <1>11, QueuedSame, QueuedSent DEF Respond, AckTrue, TruthShape, BadRcode
<1>12. ASSUME AtStart PROVE TruthInv'
    BY <1>12, QueuedSame, QueuedSent DEF AtStart, AckTrue, TruthShape, BadRcode
<1>13. ASSUME AtFetch PROVE TruthInv'
  <2>1. AckTrue'
    <3>1. /\ Head(at_queue) \in Txn /\ Queued(Head(at_queue))
          /\ \A u \in Txn : Queued(u)' <=> Queued(u) /\ u # Head(at_queue)
        BY <1>13, QueueTaken DEF AtFetch, GivenInv
    <3>2. QED
        BY <1>13, <3>1 DEF AtFetch, AckTrue
  <2>2. TruthShape'
    <3>1. /\ Head(at_queue) \in Txn /\ Queued(Head(at_queue))
          /\ \A u \in Txn : Queued(u)' <=> Queued(u) /\ u # Head(at_queue)
        BY <1>13, QueueTaken DEF AtFetch, GivenInv
    <3>2. QED
        BY <1>13, <3>1 DEF AtFetch, TruthShape
  <2>3. QED
      BY <2>1, <2>2
<1>14. ASSUME AtAck PROVE TruthInv'
  <2>1. AckTrue'
    <3>1. PICK w \in Txn : w = at.t
        BY <1>14 DEF AtAck
    <3>2. /\ ~Queued(w) /\ send_pc[w] = "returned"
          /\ w \in acked <=> status[w] \in {"complete", "pending"}
        BY <1>14, <3>1, QueuedSent DEF AtAck, AckTrue, GivenInv, QueuedOnce
    <3>3. ack' = [ack EXCEPT ![w] = PacketAck(status[w], flushing)]
          /\ at'.t = w /\ at'.pc = "close" /\ UNCHANGED <<acked, send_pc, at_queue, status>>
        BY <1>14, <3>1 DEF AtAck
    <3>4. /\ ack'[w] \in BadAck => w \notin acked
          /\ ack'[w] = "ack_complete" => w \in acked
          /\ ack'[w] # "none"
      <4>1. ack'[w] = PacketAck(status[w], flushing)
          BY <1>14, <3>3 DEF GivenInv
      <4>2. QED
          BY <3>2, <3>3, <4>1, PacketAckTrue, PacketAckSome, ZenonT(30)
    <3>5. QED
        BY <1>14, <3>2, <3>3, <3>4, QueuedSame DEF AckTrue
  <2>2. TruthShape'
      BY <1>14, QueuedSame, QueuedSent DEF AtAck, TruthShape, BadRcode
  <2>3. QED
      BY <2>1, <2>2
<1>15. ASSUME AtPending PROVE TruthInv'
    BY <1>15, QueuedSame, QueuedSent DEF AtPending, AckTrue, TruthShape, BadRcode
<1>16. ASSUME AtClose PROVE TruthInv'
  <2>1. AckTrue'
    <3>1. UNCHANGED <<acked, send_pc, at_queue, status, ack>>
        BY <1>16 DEF AtClose
    <3>2. at'.pc = "loop" \/ (at'.pc = "callback" /\ at'.t = at.t)
        BY <1>16 DEF AtClose
    <3>3. QED
        BY <1>16, <3>1, <3>2, QueuedSame DEF AtClose, AckTrue
  <2>2. TruthShape'
      BY <1>16, QueuedSame, QueuedSent DEF AtClose, TruthShape, BadRcode
  <2>3. QED
      BY <2>1, <2>2
<1>17. ASSUME AtCallback PROVE TruthInv'
  <2>1. AckTrue'
      BY <1>17, QueuedSame, QueuedSent DEF AtCallback, Callback, AckTrue
  <2>2. TruthShape'
    <3>1. PICK w \in Txn : w = at.t
        BY <1>17 DEF AtCallback
    <3>2. ~Queued(w) /\ send_pc[w] = "returned"
        BY <1>17, <3>1, QueuedSent DEF AtCallback, GivenInv, QueuedOnce
    <3>3. /\ ack[w] \in BadAck => w \notin acked
          /\ ack[w] = "ack_complete" => w \in acked
        BY <1>17, <3>1 DEF AtCallback, AckTrue
    <3>4. /\ AckToRcode(ack[w]) \in BadRcode => w \notin acked
          /\ AckToRcode(ack[w]) = "complete" => w \in acked
        BY <3>3, AckToRcodeTrue
    <3>5. UNCHANGED <<acked, send_pc, at_queue>> /\ Callback(w, AckToRcode(ack[w]))
        BY <1>17, <3>1 DEF AtCallback
    <3>6. QED
        BY <3>2, <3>4, <3>5, QueuedSame DEF Callback, TruthShape
  <2>3. QED
      BY <2>1, <2>2
<1>18. ASSUME AtStop PROVE TruthInv'
    BY <1>18, QueuedSame, QueuedSent DEF AtStop, AckTrue, TruthShape, BadRcode
<1>19. ASSUME NEW c \in Responder, NEW r \in resps, HandleResponse(c, r) PROVE TruthInv'
    BY <1>19, QueuedSame, QueuedSent DEF HandleResponse, AckTrue, TruthShape, BadRcode
<1>20. ASSUME NEW c \in Responder, ResponseCancelPacket(c) PROVE TruthInv'
  <2>1. AckTrue'
    <3>1. PICK w \in Txn : w = rsp[c].t
        BY <1>20 DEF ResponseCancelPacket
    <3>2. UNCHANGED <<acked, send_pc, at_queue, status, at>>
        BY <1>20 DEF ResponseCancelPacket
    <3>3. CASE UNCHANGED ack
        BY <3>2, <3>3, QueuedSame DEF AckTrue
    <3>4. CASE ack[w] = "none" /\ ack' = [ack EXCEPT ![w] = "cancelled"]
      <4>1. at.pc \in {"close", "callback"} => ack'[at.t] = ack[at.t]
          BY <3>4 DEF AckTrue
      <4>2. \A u \in Txn : ack'[u] = ack[u] \/ ack'[u] = "cancelled"
          BY <3>4
      <4>3. QED
          BY <3>2, <4>1, <4>2, QueuedSame DEF AckTrue
    <3>5. QED
        BY <1>20, <3>1, <3>3, <3>4 DEF ResponseCancelPacket, Withdraw
  <2>2. TruthShape'
      BY <1>20, QueuedSame, QueuedSent DEF ResponseCancelPacket, Withdraw, TruthShape,
         BadRcode
  <2>3. QED
      BY <2>1, <2>2
<1>21. ASSUME NEW c \in Responder, ResponseDeliver(c) PROVE TruthInv'
    BY <1>21, QueuedSame, QueuedSent DEF ResponseDeliver, Callback, AckTrue, TruthShape,
       BadRcode
<1>22. ASSUME NEW t \in Txn, UserCancel(t) PROVE TruthInv'
    BY <1>22, QueuedSame, QueuedSent DEF UserCancel, AckTrue, TruthShape, BadRcode
<1>23. ASSUME UserCancelPacket PROVE TruthInv'
  <2>1. AckTrue'
    <3>1. PICK w \in Txn : w = user.t
        BY <1>23 DEF UserCancelPacket
    <3>2. UNCHANGED <<acked, send_pc, at_queue, status, at>>
        BY <1>23 DEF UserCancelPacket
    <3>3. CASE UNCHANGED ack
        BY <3>2, <3>3, QueuedSame DEF AckTrue
    <3>4. CASE ack[w] = "none" /\ ack' = [ack EXCEPT ![w] = "cancelled"]
      <4>1. at.pc \in {"close", "callback"} => ack'[at.t] = ack[at.t]
          BY <3>4 DEF AckTrue
      <4>2. \A u \in Txn : ack'[u] = ack[u] \/ ack'[u] = "cancelled"
          BY <3>4
      <4>3. QED
          BY <3>2, <4>1, <4>2, QueuedSame DEF AckTrue
    <3>5. QED
        BY <1>23, <3>1, <3>3, <3>4 DEF UserCancelPacket, Withdraw
  <2>2. TruthShape'
      BY <1>23, QueuedSame, QueuedSent DEF UserCancelPacket, Withdraw, TruthShape, BadRcode
  <2>3. QED
      BY <2>1, <2>2
<1>24. ASSUME UserClose PROVE TruthInv'
    BY <1>24, QueuedSame, QueuedSent DEF UserClose, AckTrue, TruthShape, BadRcode
<1>25. ASSUME UserCallback PROVE TruthInv'
    BY <1>25, QueuedSame, QueuedSent DEF UserCallback, Callback, AckTrue, TruthShape,
       BadRcode
<1>26. ASSUME NEW t \in Txn, TimerFire(t) PROVE TruthInv'
    BY <1>26, QueuedSame, QueuedSent DEF TimerFire, AckTrue, TruthShape, BadRcode
<1>27. ASSUME NEW t \in Txn, TimerPop(t) PROVE TruthInv'
    BY <1>27, QueuedSame, QueuedSent DEF TimerPop, AckTrue, TruthShape, BadRcode
<1>28. ASSUME NEW t \in Txn, TimerCallback(t) PROVE TruthInv'
    BY <1>28, QueuedSame, QueuedSent DEF TimerCallback, Callback, AckTrue, TruthShape,
       BadRcode
<1>29. ASSUME ResetStop PROVE TruthInv'
    BY <1>29, QueuedSame, QueuedSent DEF ResetStop, AckTrue, TruthShape, BadRcode
<1>30. ASSUME FlushStart PROVE TruthInv'
    BY <1>30, QueuedSame, QueuedSent DEF FlushStart, AckTrue, TruthShape, BadRcode
<1>31. ASSUME ResetEnd PROVE TruthInv'
    BY <1>31, QueuedSame, QueuedSent DEF ResetEnd, AckTrue, TruthShape, BadRcode
<1>32. ASSUME RemoveStart PROVE TruthInv'
    BY <1>32, QueuedSame, QueuedSent DEF RemoveStart, AckTrue, TruthShape, BadRcode
<1>33. ASSUME RemoveDisable PROVE TruthInv'
    BY <1>33, QueuedSame, QueuedSent DEF RemoveDisable, AckTrue, TruthShape, BadRcode
<1>34. ASSUME RemoveCancelPending PROVE TruthInv'
    BY <1>34, QueuedSame, QueuedSent DEF RemoveCancelPending, AckTrue, TruthShape, BadRcode
<1>35. ASSUME NEW t \in Txn, RemoveCallback(t) PROVE TruthInv'
    BY <1>35, QueuedSame, QueuedSent DEF RemoveCallback, Callback, AckTrue, TruthShape,
       BadRcode
<1>36. ASSUME RemoveDone PROVE TruthInv'
    BY <1>36, QueuedSame, QueuedSent DEF RemoveDone, AckTrue, TruthShape, BadRcode
<1>37. CASE UNCHANGED vars
    BY <1>37, QueuedSame DEF vars, AckTrue, TruthShape
<1>38. QED
    BY <1>1, <1>2, <1>3, <1>4, <1>5, <1>6, <1>7, <1>8, <1>9, <1>10, <1>11, <1>12, <1>13,
       <1>14, <1>15, <1>16, <1>17, <1>18, <1>19, <1>20, <1>21, <1>22, <1>23, <1>24, <1>25,
       <1>26, <1>27, <1>28, <1>29, <1>30, <1>31, <1>32, <1>33, <1>34, <1>35, <1>36, <1>37
       DEF Next, Sender, AtContext, ResponseContext, UserContext, Timer, ResetThread, Removal
-----------------------------------------------------------------------------
(* Whose response the callback is given.                                   *)

\* t was taken from the list by its timer, by fw_cancel_transaction() or by the removal.
GaveUp(t) ==
    \/ rcode[t] = "cancelled"
    \/ rcode[t] = "none" /\ \/ timer[t] = "callback"
                            \/ user.pc = "callback" /\ user.t = t
                            \/ t \in rm_list

\* No context is about to hand t a response.
NotAnswered(t) == ~RspHas(t) /\ ~(at.pc = "callback" /\ at.t = t) /\ send_pc[t] # "callback"

\* t has ended, or is about to, without a response.
Gone(t) == send_pc[t] = "returned" /\ t \notin list /\ GaveUp(t) /\ NotAnswered(t)

\* Nothing has happened to a transaction that is not yet on the list.
Fresh ==
    \A t \in Txn : send_pc[t] \in {"new", "labelled"} =>
        rcode[t] = "none" /\ Clean(t) /\ ~RspHas(t) /\ ~(AtHolds /\ at.t = t)
        /\ t \notin rm_list

\* t may still be answered.
Pend(t) ==
    \/ send_pc[t] = "listed" /\ card = "up"
    \/ Queued(t) /\ status[t] = "none"
    \/ t \in owed \cup resps

\* Nobody has taken a response for t, and it waits on the list or was given up.
Waiting(t) ==
    rcode[t] \in {"none", "cancelled"} /\ NotAnswered(t) /\ (t \in list \/ GaveUp(t))

\* A response to t finds t still on the list, or t has already taken another one's.
Expected(t) == "stale" \in hazard[t] \/ Waiting(t)

\* A responder that owes a response has acknowledged the request with ack_pending.
AnswerOnce ==
    /\ owed \cap resps = {}
    /\ \A t \in owed \cup resps :
         /\ Queued(t) \/ (at.pc = "fetched" /\ at.t = t) => status[t] = "pending"
         /\ at.pc \in {"close", "callback"} /\ at.t = t => ack[t] = "ack_pending"

\* Whoever took a response meant for another took it for a transaction that has gone.
StaleShape ==
    \A t \in Txn : "stale" \in hazard[t] =>
        \E r \in Txn \ {t} : Answers(r, t) /\ Gone(r)

\* The inductive invariant of the second half of AnswersAreTrue.
StaleInv == Fresh /\ AnswerOnce /\ StaleShape /\ \A t \in Txn : Pend(t) => Expected(t)

\* Steps that take no transaction in hand whose sender has not listed it.
LEMMA FreshKept ==
    ASSUME Fresh,
           \A t \in Txn : send_pc'[t] \in {"new", "labelled"} =>
               /\ send_pc[t] \in {"new", "labelled"}
               /\ rcode'[t] = rcode[t] /\ hazard'[t] = hazard[t]
               /\ RspHas(t)' => RspHas(t)
               /\ AtHolds' /\ at'.t = t => AtHolds /\ at.t = t
               /\ t \in rm_list' => t \in rm_list
    PROVE  Fresh'
BY DEF Fresh, Clean

\* Steps after which nobody has a stale response who had none, and who was given up
\* still is.
LEMMA StaleKept ==
    ASSUME StaleShape, Fresh,
           \A t \in Txn : "stale" \in hazard'[t] => "stale" \in hazard[t],
           \A t \in Txn : Gone(t) => Gone(t)',
           \A t \in Txn : send_pc[t] \notin {"new", "labelled"} =>
                             tlabel'[t] = tlabel[t] /\ node_id'[t] = node_id[t]
    PROVE  StaleShape'
<1> SUFFICES ASSUME NEW t \in Txn, "stale" \in hazard'[t]
             PROVE  \E r \in Txn \ {t} : Answers(r, t)' /\ Gone(r)'
    BY DEF StaleShape
<1>1. PICK r \in Txn \ {t} : Answers(r, t) /\ Gone(r)
    BY DEF StaleShape
<1>2. send_pc[r] = "returned" /\ send_pc[t] \notin {"new", "labelled"}
    BY <1>1 DEF Gone, Fresh, Clean
<1>3. QED
    BY <1>1, <1>2 DEF Answers

\* Steps that keep what is known of a transaction that may still be answered.
LEMMA ExpectedKept ==
    ASSUME StaleInv, NEW u \in Txn, Pend(u),
           "stale" \in hazard[u] => "stale" \in hazard'[u],
           Waiting(u) => Waiting(u)'
    PROVE  Expected(u)'
BY DEF StaleInv, Expected

\* What find_and_pop_transaction_entry() changes, outside fw_core_handle_response().
LEMMA PopFrame ==
    ASSUME TypeInv, LabelInv, GivenInv, NEW w \in list, NEW more, FindAndPop(w, more)
    PROVE  /\ w \in Txn /\ send_pc[w] \notin {"new", "labelled"}
           /\ list' \subseteq list /\ list \subseteq list' \cup {w}
           /\ \A u \in Txn : timer[u] = "callback" <=> timer'[u] = "callback"
           /\ \A u \in Txn : u # w => hazard'[u] = hazard[u]
           /\ "stale" \in hazard'[w] <=> "stale" \in hazard[w] \cup more
<1>1. w \in Txn /\ send_pc[w] \notin {"new", "labelled"}
    BY DEF LabelInv, ListSent, TypeInv, TypeOK, LabelType
<1>2. timer \in [Txn -> TimerState] /\ hazard \in [Txn -> SUBSET Hazards]
    BY DEF TypeInv, TypeOK, SendType, HistoryType, TimerState
<1>3. timer[w] = "callback" => w \in is_split
    BY <1>1 DEF GivenInv, TimerShape
<1>4. CASE TryCancelSplitTimeout(w)
    BY <1>1, <1>2, <1>3, <1>4 DEF FindAndPop, RemoveTransactionEntry, TryCancelSplitTimeout
<1>5. CASE ~TryCancelSplitTimeout(w)
    BY <1>1, <1>2, <1>5 DEF FindAndPop, labelVars
<1>6. QED
    BY <1>4, <1>5

\* A step that changes nothing that GaveUp and NotAnswered speak of, but for w.
OthersKept(w) ==
    /\ \A u \in Txn : u # w =>
          /\ rcode'[u] = rcode[u] /\ (u \in list' <=> u \in list)
          /\ timer[u] = "callback" => timer'[u] = "callback"
          /\ send_pc'[u] = send_pc[u] /\ (u \in rm_list => u \in rm_list')
    /\ user.pc = "callback" => (user'.pc = "callback" /\ user'.t = user.t) \/ user.t = w
    /\ at'.pc = "callback" => (at.pc = "callback" /\ at'.t = at.t) \/ at'.t = w
    /\ \A c \in Responder :
          rsp'[c].pc # "idle" => (rsp[c].pc # "idle" /\ rsp'[c].t = rsp[c].t) \/ rsp'[c].t = w

LEMMA GoneKept ==
    ASSUME NEW w, OthersKept(w)
    PROVE  \A u \in Txn : u # w => (Gone(u) => Gone(u)') /\ (Waiting(u) => Waiting(u)')
<1> SUFFICES ASSUME NEW u \in Txn, u # w
             PROVE  (Gone(u) => Gone(u)') /\ (Waiting(u) => Waiting(u)')
    OBVIOUS
<1>1. NotAnswered(u) => NotAnswered(u)'
    BY DEF OthersKept, NotAnswered, RspHas
<1>2. GaveUp(u) => GaveUp(u)'
    BY DEF OthersKept, GaveUp
<1>3. QED
    BY <1>1, <1>2 DEF OthersKept, Gone, Waiting

LEMMA StaleStep ==
    TypeInv /\ LabelInv /\ GivenInv /\ TruthInv /\ StaleInv /\ [Next]_vars => StaleInv'
<1> SUFFICES ASSUME TypeInv, LabelInv, GivenInv, TruthInv, StaleInv, [Next]_vars PROVE StaleInv'
    OBVIOUS
<1> USE DEF StaleInv, TypeInv, TypeOK, LabelType, SendType, AtType, ContextType, BusType,
            HistoryType, HoldersOK, AtHolds, labelVars, LabelInv, ListSent,
            fieldVars, timerVars, queueVars, busVars, wireVars, cardVars, callVars
<1>1. ASSUME NEW t \in Txn, SendAllocate(t) PROVE StaleInv'
    BY SMTT(30), <1>1, QueuedSame, QueuedSent, FreshKept, StaleKept, ExpectedKept
       DEF SendAllocate, AnswerOnce, Pend, Waiting, Gone, GaveUp, NotAnswered, RspHas
<1>2. ASSUME NEW t \in Txn, SendNoLabel(t) PROVE StaleInv'
  <2>1. Fresh'
      BY <1>2, FreshKept, CleanSame, QueuedSent DEF SendNoLabel, Callback, RspHas
  <2>2. AnswerOnce'
      BY <1>2, QueuedSame, QueuedSent DEF SendNoLabel, Callback, AnswerOnce
  <2>3. StaleShape'
      BY <1>2, StaleKept DEF SendNoLabel, Callback, Gone, GaveUp, NotAnswered, RspHas
  <2>4. \A u \in Txn : Pend(u)' => Expected(u)'
    <3>1. PICK w \in Txn : w = t
        BY <1>2 DEF SendNoLabel
    <3>2. UNCHANGED <<hazard, list, timer, at_queue, status, owed, resps, card, rsp, at,
                      user, rm_list>>
          /\ \A u \in Txn : u # w => rcode'[u] = rcode[u]
        BY <1>2, <3>1 DEF SendNoLabel, Callback
    <3>3. ~Pend(w)
        BY <1>2, <3>1, QueuedSent DEF SendNoLabel, Pend, GivenInv, OthersAfterSender
    <3>x. OthersKept(w)
        BY <1>2, <3>1, <3>2 DEF SendNoLabel, OthersKept
    <3>4. \A u \in Txn : u # w => (Gone(u) => Gone(u)') /\ (Waiting(u) => Waiting(u)')
        BY <3>x, GoneKept
    <3>5. \A u \in Txn : Pend(u)' => Pend(u)
        BY <1>2, <3>2, QueuedSame DEF Pend, SendNoLabel
    <3>6. QED
        BY <3>2, <3>3, <3>4, <3>5, ExpectedKept
  <2>5. QED
      BY <2>1, <2>2, <2>3, <2>4
<1>3. ASSUME NEW t \in Txn, SendListAdd(t) PROVE StaleInv'
  <2>1. Fresh'
      BY <1>3, FreshKept, CleanSame, QueuedSent DEF SendListAdd, RspHas
  <2>2. AnswerOnce'
      BY <1>3, QueuedSame, QueuedSent DEF SendListAdd, AnswerOnce
  <2>3. StaleShape'
      BY <1>3, StaleKept DEF SendListAdd, Gone, GaveUp, NotAnswered, RspHas
  <2>4. \A u \in Txn : Pend(u)' => Expected(u)'
    <3>1. UNCHANGED <<rcode, hazard, timer, rsp, at, user, rm_list, at_queue, status, owed,
                      resps, card>>
          /\ list' = list \cup {t} /\ send_pc' = [send_pc EXCEPT ![t] = "listed"]
        BY <1>3 DEF SendListAdd
    <3>2. Waiting(t)'
        BY <1>3, <3>1 DEF SendListAdd, Fresh, Waiting, NotAnswered, RspHas
    <3>3. \A u \in Txn : u # t => (Gone(u) => Gone(u)') /\ (Waiting(u) => Waiting(u)')
        BY <3>1, GoneKept DEF OthersKept
    <3>4. \A u \in Txn : Pend(u)' => Pend(u) \/ u = t
        BY <3>1, QueuedSame DEF Pend
    <3>5. QED
        BY <3>1, <3>2, <3>3, <3>4, ExpectedKept DEF Expected
  <2>5. QED
      BY <2>1, <2>2, <2>3, <2>4
<1>4. ASSUME NEW t \in Txn, TransmitLocal(t) PROVE StaleInv'
  <2>1. Fresh'
      BY <1>4, FreshKept, CleanSame, QueuedSent DEF TransmitLocal,
         StartSplitTransactionTimeout, RspHas
  <2>2. AnswerOnce'
    <3>1. ~Queued(t) /\ ~(AtHolds /\ at.t = t) /\ t \notin resps
        BY <1>4, QueuedSent DEF TransmitLocal, GivenInv, OthersAfterSender
    <3>2. UNCHANGED <<at_queue, at, status, resps>> /\ owed' = owed \cup {t}
          /\ \A u \in Txn : u # t => ack'[u] = ack[u]
        BY <1>4 DEF TransmitLocal
    <3>3. QED
        BY <3>1, <3>2, QueuedSame DEF AnswerOnce
  <2>3. StaleShape'
      BY <1>4, StaleKept DEF TransmitLocal, StartSplitTransactionTimeout, Gone, GaveUp,
         NotAnswered, RspHas
  <2>4. \A u \in Txn : Pend(u)' => Expected(u)'
    <3>1. UNCHANGED <<rcode, hazard, rsp, at, user, rm_list, at_queue, status, resps, card,
                      list>>
          /\ owed' = owed \cup {t} /\ send_pc' = [send_pc EXCEPT ![t] = "returned"]
          /\ send_pc[t] = "listed" /\ card = "up"
        BY <1>4 DEF TransmitLocal
    <3>2. \A u \in Txn : timer[u] = "callback" => timer'[u] = "callback"
        BY <1>4 DEF TransmitLocal, StartSplitTransactionTimeout, GivenInv, TimerShape
    <3>3. \A u \in Txn : Pend(u)' => Pend(u)
        BY <3>1, QueuedSame DEF Pend
    <3>4. QED
        BY <3>1, <3>2, <3>3, ExpectedKept DEF Waiting, GaveUp, NotAnswered, RspHas
  <2>5. QED
      BY <2>1, <2>2, <2>3, <2>4
<1>5. ASSUME NEW t \in Txn, TransmitQueue(t) PROVE StaleInv'
  <2>1. Fresh'
      BY <1>5, FreshKept, CleanSame, QueuedSent DEF TransmitQueue, RspHas
  <2>2. AnswerOnce'
    <3>1. t \notin owed \cup resps
        BY <1>5 DEF TransmitQueue, GivenInv, OthersAfterSender
    <3>2. \A u \in Txn : Queued(u)' <=> Queued(u) \/ u = t
        BY <1>5, QueuedSent, QueueAppended DEF TransmitQueue, GivenInv
    <3>3. QED
        BY <1>5, <3>1, <3>2 DEF TransmitQueue, AnswerOnce
  <2>3. StaleShape'
      BY <1>5, StaleKept DEF TransmitQueue, Gone, GaveUp, NotAnswered, RspHas
  <2>4. \A u \in Txn : Pend(u)' => Expected(u)'
    <3>1. UNCHANGED <<rcode, hazard, rsp, at, user, rm_list, owed, resps, card, list, timer>>
          /\ send_pc' = [send_pc EXCEPT ![t] = "returned"] /\ send_pc[t] = "listed" /\ card = "up"
          /\ \A u \in Txn : u # t => status'[u] = status[u]
        BY <1>5 DEF TransmitQueue
    <3>2. \A u \in Txn : Queued(u)' <=> Queued(u) \/ u = t
        BY <1>5, QueuedSent, QueueAppended DEF TransmitQueue, GivenInv
    <3>3. \A u \in Txn : Pend(u)' => Pend(u)
        BY <3>1, <3>2 DEF Pend
    <3>4. QED
        BY <3>1, <3>3, ExpectedKept DEF Waiting, GaveUp, NotAnswered, RspHas
  <2>5. QED
      BY <2>1, <2>2, <2>3, <2>4
<1>6. ASSUME NEW t \in Txn, TransmitFail(t) PROVE StaleInv'
    BY SMTT(30), <1>6, QueuedSame, QueuedSent, FreshKept, StaleKept, ExpectedKept
       DEF TransmitFail, AnswerOnce, Pend, Waiting, Gone, GaveUp, NotAnswered, RspHas
<1>7. ASSUME NEW t \in Txn, TransmitDummy(t) PROVE StaleInv'
    BY SMTT(30), <1>7, QueuedSame, QueuedSent, FreshKept, StaleKept, ExpectedKept
       DEF TransmitDummy, AnswerOnce, Pend, Waiting, Gone, GaveUp, NotAnswered, RspHas
<1>8. ASSUME NEW t \in Txn, SendClose(t) PROVE StaleInv'
  <2>0. UNCHANGED <<rcode, rsp, at, user, rm_list, tlabel, node_id, at_queue, status, owed,
                    resps, card>>
      BY <1>8 DEF SendClose
  <2>1. AnswerOnce'
      BY <1>8, QueuedSame, QueuedSent DEF SendClose, AnswerOnce, Withdraw
  <2>2. \A u \in Txn : Pend(u)' => Pend(u)
      BY <1>8, <2>0, QueuedSame DEF Pend, SendClose
  <2>3. CASE t \in list /\ FindAndPop(t, {})
             /\ send_pc' = [send_pc EXCEPT ![t] = "callback"]
    <3>1. PICK w \in list : w = t
        BY <2>3
    <3>2. FindAndPop(w, {})
        BY <2>3, <3>1
    <3>3. /\ w \in Txn /\ send_pc[w] \notin {"new", "labelled"}
          /\ list' \subseteq list /\ list \subseteq list' \cup {w}
          /\ \A u \in Txn : timer[u] = "callback" <=> timer'[u] = "callback"
          /\ \A u \in Txn : u # w => hazard'[u] = hazard[u]
          /\ "stale" \in hazard'[w] <=> "stale" \in hazard[w] \cup ({})
        BY <3>2, PopFrame
    <3>4. Fresh'
        BY <1>8, <2>0, <2>3, <3>1, <3>3, FreshKept DEF RspHas
    <3>5. OthersKept(w)
        BY <1>8, <2>0, <2>3, <3>1, <3>3 DEF OthersKept, SendClose
    <3>6. \A u \in Txn : u # w => (Gone(u) => Gone(u)') /\ (Waiting(u) => Waiting(u)')
        BY <3>5, GoneKept
    <3>7. StaleShape'
      <4>1. \A u \in Txn : "stale" \in hazard'[u] => "stale" \in hazard[u]
          BY <3>1, <3>3
      <4>2. ~Gone(w)
          BY DEF Gone
      <4>3. QED
          BY <2>0, <3>6, <4>1, <4>2, StaleKept
    <3>8. ~Pend(w)
        BY <1>8, <3>1, <3>3, QueuedSent DEF SendClose, Pend, GivenInv, OthersAfterSender
    <3>9. \A u \in Txn : Pend(u)' => Expected(u)'
        BY ZenonT(30), <2>2, <3>3, <3>6, <3>8, ExpectedKept
    <3>10. QED
        BY <2>1, <3>4, <3>7, <3>9
  <2>4. CASE UNCHANGED <<list, timer, hazard>> /\ send_pc' = [send_pc EXCEPT ![t] = "returned"]
    <3>1. \A u \in Txn : (Gone(u) => Gone(u)') /\ (Waiting(u) => Waiting(u)')
        BY <1>8, <2>0, <2>4 DEF Gone, Waiting, GaveUp, NotAnswered, RspHas, SendClose
    <3>2. Fresh'
        BY <1>8, <2>0, <2>4, FreshKept DEF RspHas, SendClose
    <3>3. StaleShape'
        BY <2>0, <2>4, <3>1, StaleKept
    <3>4. \A u \in Txn : Pend(u)' => Expected(u)'
        BY <2>2, <2>4, <3>1, ExpectedKept
    <3>5. QED
        BY <2>1, <3>2, <3>3, <3>4
  <2>5. QED
      BY <1>8, <2>3, <2>4 DEF SendClose
<1>9. ASSUME NEW t \in Txn, SendCallback(t) PROVE StaleInv'
  <2>1. Fresh'
      BY <1>9, FreshKept, CleanSame, QueuedSent DEF SendCallback, Callback, RspHas
  <2>2. AnswerOnce'
      BY <1>9, QueuedSame, QueuedSent DEF SendCallback, Callback, AnswerOnce
  <2>3. StaleShape'
      BY <1>9, StaleKept DEF SendCallback, Callback, Gone, GaveUp, NotAnswered, RspHas
  <2>4. \A u \in Txn : Pend(u)' => Expected(u)'
    <3>1. PICK w \in Txn : w = t
        BY <1>9 DEF SendCallback
    <3>2. UNCHANGED <<hazard, list, timer, at_queue, status, owed, resps, card, rsp, at,
                      user, rm_list>>
          /\ \A u \in Txn : u # w => rcode'[u] = rcode[u]
        BY <1>9, <3>1 DEF SendCallback, Callback
    <3>3. ~Pend(w)
        BY <1>9, <3>1, QueuedSent DEF SendCallback, Pend, GivenInv, OthersAfterSender
    <3>x. OthersKept(w)
        BY <1>9, <3>1, <3>2 DEF SendCallback, OthersKept
    <3>4. \A u \in Txn : u # w => (Gone(u) => Gone(u)') /\ (Waiting(u) => Waiting(u)')
        BY <3>x, GoneKept
    <3>5. \A u \in Txn : Pend(u)' => Pend(u)
        BY <1>9, <3>2, QueuedSame DEF Pend, SendCallback
    <3>6. QED
        BY <3>2, <3>3, <3>4, <3>5, ExpectedKept
  <2>5. QED
      BY <2>1, <2>2, <2>3, <2>4
<1>10. ASSUME NEW t \in Txn, NEW s \in HwStatus, HwTransmit(t, s) PROVE StaleInv'
  <2>1. Fresh'
      BY <1>10, FreshKept, CleanSame, QueuedSent DEF HwTransmit, RspHas
  <2>2. AnswerOnce'
    <3>1. Queued(t) /\ status[t] = "none"
        BY <1>10 DEF HwTransmit, Queued
    <3>2. ~(AtHolds /\ at.t = t) /\ t \notin owed \cup resps
        BY <3>1 DEF GivenInv, QueuedOnce, AnswerOnce
    <3>3. QED
        BY SMTT(30), <1>10, <3>1, <3>2, QueuedSame DEF HwTransmit, AnswerOnce
  <2>3. StaleShape'
      BY <1>10, StaleKept DEF HwTransmit, Gone, GaveUp, NotAnswered, RspHas
  <2>4. \A u \in Txn : Pend(u)' => Expected(u)'
    <3>1. Queued(t) /\ status[t] = "none"
        BY <1>10 DEF HwTransmit, Queued
    <3>2. UNCHANGED <<rcode, hazard, rsp, at, user, rm_list, resps, card, list, timer,
                      send_pc, at_queue>>
          /\ owed' \subseteq owed \cup {t} /\ \A u \in Txn : u # t => status'[u] = status[u]
        BY <1>10 DEF HwTransmit
    <3>3. \A u \in Txn : Pend(u)' => Pend(u)
        BY <3>1, <3>2, QueuedSame DEF Pend
    <3>4. QED
        BY <3>2, <3>3, ExpectedKept DEF Waiting, GaveUp, NotAnswered, RspHas
  <2>5. QED
      BY <2>1, <2>2, <2>3, <2>4
<1>11. ASSUME NEW t \in Txn, Respond(t) PROVE StaleInv'
  <2>1. Fresh'
      BY <1>11, FreshKept, CleanSame, QueuedSent DEF Respond, RspHas
  <2>2. AnswerOnce'
      BY <1>11, QueuedSame, QueuedSent DEF Respond, AnswerOnce
  <2>3. StaleShape'
      BY <1>11, StaleKept DEF Respond, Gone, GaveUp, NotAnswered, RspHas
  <2>4. \A u \in Txn : Pend(u)' => Expected(u)'
      BY <1>11, QueuedSame, ExpectedKept DEF Respond, Pend, Waiting, GaveUp, NotAnswered,
         RspHas
  <2>5. QED
      BY <2>1, <2>2, <2>3, <2>4
<1>12. ASSUME AtStart PROVE StaleInv'
    BY <1>12, QueuedSame, QueuedSent, FreshKept, StaleKept, ExpectedKept
       DEF AtStart, AnswerOnce, Pend, Waiting, Gone, GaveUp, NotAnswered, RspHas
<1>13. ASSUME AtFetch PROVE StaleInv'
  <2>1. Fresh'
    <3>1. Head(at_queue) \in Txn /\ send_pc[Head(at_queue)] = "returned"
        BY <1>13, QueueTaken, QueuedSent DEF AtFetch, GivenInv
    <3>2. UNCHANGED <<send_pc, rcode, hazard, rsp, rm_list>>
          /\ \A u \in Txn : AtHolds' /\ at'.t = u => u = Head(at_queue)
        BY <1>13 DEF AtFetch
    <3>3. QED
        BY <3>1, <3>2, FreshKept DEF RspHas
  <2>2. AnswerOnce'
    <3>1. Head(at_queue) \in Txn /\ Queued(Head(at_queue))
          /\ \A u \in Txn : Queued(u)' => Queued(u)
        BY <1>13, QueueTaken DEF AtFetch, GivenInv
    <3>2. QED
        BY SMTT(30), <1>13, <3>1 DEF AtFetch, AnswerOnce
  <2>3. StaleShape'
      BY <1>13, StaleKept DEF AtFetch, Gone, GaveUp, NotAnswered, RspHas
  <2>4. \A u \in Txn : Pend(u)' => Expected(u)'
    <3>1. \A u \in Txn : Queued(u)' => Queued(u)
        BY <1>13, QueueTaken DEF AtFetch, GivenInv
    <3>2. UNCHANGED <<rcode, hazard, rsp, user, rm_list, owed, resps, card, list, timer,
                      send_pc, status>>
          /\ at'.pc # "callback"
        BY <1>13 DEF AtFetch
    <3>3. \A u \in Txn : Pend(u)' => Pend(u)
        BY <3>1, <3>2 DEF Pend
    <3>4. QED
        BY <3>2, <3>3, ExpectedKept DEF Waiting, GaveUp, NotAnswered, RspHas
  <2>5. QED
      BY <2>1, <2>2, <2>3, <2>4
<1>14. ASSUME AtAck PROVE StaleInv'
  <2>1. Fresh'
      BY <1>14, FreshKept, CleanSame, QueuedSent DEF AtAck, RspHas
  <2>2. AnswerOnce'
    <3>1. PICK w \in Txn : w = at.t
        BY <1>14 DEF AtAck
    <3>2. w \in owed \cup resps => PacketAck(status[w], flushing) = "ack_pending"
      <4>1. w \in owed \cup resps => status[w] = "pending"
          BY <1>14, <3>1 DEF AtAck, AnswerOnce
      <4>2. status[w] \in AllHwStatus \cup {"none"} /\ flushing \in BOOLEAN
          OBVIOUS
      <4>3. QED
          BY <4>1, <4>2, PacketAckTrue
    <3>3. QED
        BY <1>14, <3>1, <3>2, QueuedSame DEF AtAck, AnswerOnce
  <2>3. StaleShape'
      BY <1>14, StaleKept DEF AtAck, Gone, GaveUp, NotAnswered, RspHas
  <2>4. \A u \in Txn : Pend(u)' => Expected(u)'
      BY <1>14, QueuedSame, ExpectedKept DEF AtAck, Pend, Waiting, GaveUp, NotAnswered,
         RspHas
  <2>5. QED
      BY <2>1, <2>2, <2>3, <2>4
<1>15. ASSUME AtPending PROVE StaleInv'
  <2>1. Fresh'
      BY <1>15, FreshKept, CleanSame, QueuedSent DEF AtPending,
         StartSplitTransactionTimeout, RspHas
  <2>2. AnswerOnce'
      BY <1>15, QueuedSame, QueuedSent DEF AtPending, StartSplitTransactionTimeout,
         AnswerOnce
  <2>3. StaleShape'
      BY <1>15, StaleKept DEF AtPending, StartSplitTransactionTimeout, Gone, GaveUp,
         NotAnswered, RspHas
  <2>4. \A u \in Txn : Pend(u)' => Expected(u)'
    <3>1. UNCHANGED <<rcode, hazard, rsp, user, rm_list, at_queue, status, owed, resps,
                      card, list, send_pc>>
          /\ at'.pc = "loop"
        BY <1>15 DEF AtPending
    <3>2. \A u \in Txn : timer[u] = "callback" => timer'[u] = "callback"
        BY <1>15 DEF AtPending, StartSplitTransactionTimeout, GivenInv, TimerShape
    <3>3. \A u \in Txn : Pend(u)' => Pend(u)
        BY <3>1, QueuedSame DEF Pend
    <3>4. QED
        BY <3>1, <3>2, <3>3, ExpectedKept DEF Waiting, GaveUp, NotAnswered, RspHas
  <2>5. QED
      BY <2>1, <2>2, <2>3, <2>4
<1>16. ASSUME AtClose PROVE StaleInv'
  <2>0. UNCHANGED <<rcode, rsp, send_pc, user, rm_list, tlabel, node_id, at_queue, status,
                    owed, resps, card>>
      BY <1>16 DEF AtClose
  <2>1. AnswerOnce'
      BY <1>16, QueuedSame, QueuedSent DEF AtClose, AnswerOnce, Withdraw
  <2>2. \A u \in Txn : Pend(u)' => Pend(u)
      BY <1>16, <2>0, QueuedSame DEF Pend, AtClose
  <2>3. CASE at.t \in list /\ FindAndPop(at.t, {})
             /\ at' = [at EXCEPT !.pc = "callback"]
    <3>1. PICK w \in list : w = at.t
        BY <2>3
    <3>2. FindAndPop(w, {})
        BY <2>3, <3>1
    <3>3. /\ w \in Txn /\ send_pc[w] \notin {"new", "labelled"}
          /\ list' \subseteq list /\ list \subseteq list' \cup {w}
          /\ \A u \in Txn : timer[u] = "callback" <=> timer'[u] = "callback"
          /\ \A u \in Txn : u # w => hazard'[u] = hazard[u]
          /\ "stale" \in hazard'[w] <=> "stale" \in hazard[w] \cup ({})
        BY <3>2, PopFrame
    <3>4. Fresh'
        BY <1>16, <2>0, <2>3, <3>1, <3>3, FreshKept DEF RspHas
    <3>5. OthersKept(w)
        BY <1>16, <2>0, <2>3, <3>1, <3>3 DEF OthersKept, AtClose
    <3>6. \A u \in Txn : u # w => (Gone(u) => Gone(u)') /\ (Waiting(u) => Waiting(u)')
        BY <3>5, GoneKept
    <3>7. StaleShape'
      <4>1. \A u \in Txn : "stale" \in hazard'[u] => "stale" \in hazard[u]
          BY <3>1, <3>3
      <4>2. ~Gone(w)
          BY DEF Gone
      <4>3. QED
          BY <2>0, <3>6, <4>1, <4>2, StaleKept
    <3>8. ~Pend(w)
        BY <1>16, <3>1, <3>3, QueuedSent DEF AtClose, Pend, GivenInv, QueuedOnce, AnswerOnce
    <3>9. \A u \in Txn : Pend(u)' => Expected(u)'
        BY <2>2, <3>3, <3>6, <3>8, ExpectedKept
    <3>10. QED
        BY <2>1, <3>4, <3>7, <3>9
  <2>4. CASE UNCHANGED <<list, timer, hazard>> /\ at' = [pc |-> "loop", t |-> NoTxn]
    <3>1. \A u \in Txn : (Gone(u) => Gone(u)') /\ (Waiting(u) => Waiting(u)')
        BY <1>16, <2>0, <2>4 DEF Gone, Waiting, GaveUp, NotAnswered, RspHas, AtClose
    <3>2. Fresh'
        BY <1>16, <2>0, <2>4, FreshKept DEF RspHas, AtClose
    <3>3. StaleShape'
        BY <2>0, <2>4, <3>1, StaleKept
    <3>4. \A u \in Txn : Pend(u)' => Expected(u)'
        BY <2>2, <2>4, <3>1, ExpectedKept
    <3>5. QED
        BY <2>1, <3>2, <3>3, <3>4
  <2>5. QED
      BY <1>16, <2>3, <2>4 DEF AtClose
<1>17. ASSUME AtCallback PROVE StaleInv'
  <2>1. Fresh'
      BY <1>17, FreshKept, CleanSame, QueuedSent DEF AtCallback, Callback, RspHas
  <2>2. AnswerOnce'
      BY <1>17, QueuedSame, QueuedSent DEF AtCallback, Callback, AnswerOnce
  <2>3. StaleShape'
      BY <1>17, StaleKept DEF AtCallback, Callback, Gone, GaveUp, NotAnswered, RspHas
  <2>4. \A u \in Txn : Pend(u)' => Expected(u)'
    <3>1. PICK w \in Txn : w = at.t
        BY <1>17 DEF AtCallback
    <3>2. UNCHANGED <<hazard, list, timer, at_queue, status, owed, resps, card, rsp,
                      send_pc, user, rm_list>>
          /\ \A u \in Txn : u # w => rcode'[u] = rcode[u]
        BY <1>17, <3>1 DEF AtCallback, Callback
    <3>3. ~Pend(w)
        BY <1>17, <3>1, QueuedSent DEF AtCallback, Pend, GivenInv, QueuedOnce, AnswerOnce,
           AckFinal
    <3>x. OthersKept(w)
        BY <1>17, <3>1, <3>2 DEF AtCallback, OthersKept
    <3>4. \A u \in Txn : u # w => (Gone(u) => Gone(u)') /\ (Waiting(u) => Waiting(u)')
        BY <3>x, GoneKept
    <3>5. \A u \in Txn : Pend(u)' => Pend(u)
        BY <1>17, <3>2, QueuedSame DEF Pend, AtCallback
    <3>6. QED
        BY <3>2, <3>3, <3>4, <3>5, ExpectedKept
  <2>5. QED
      BY <2>1, <2>2, <2>3, <2>4
<1>18. ASSUME AtStop PROVE StaleInv'
    BY <1>18, QueuedSame, QueuedSent, FreshKept, StaleKept, ExpectedKept
       DEF AtStop, AnswerOnce, Pend, Waiting, Gone, GaveUp, NotAnswered, RspHas
<1>19. ASSUME NEW c \in Responder, NEW r \in resps, HandleResponse(c, r) PROVE StaleInv'
  <2>0. UNCHANGED <<rcode, send_pc, at, user, rm_list, tlabel, node_id, at_queue, status, owed,
                   card>> /\ resps' = resps \ {r}
      BY <1>19 DEF HandleResponse
  <2>1. AnswerOnce'
      BY <1>19, QueuedSame, QueuedSent DEF HandleResponse, AnswerOnce
  <2>2. \A u \in Txn : Pend(u)' => Pend(u)
      BY <2>0, QueuedSame DEF Pend
  <2>3. ASSUME NEW w \in list, Answers(r, w), FindAndPop(w, IF w = r THEN {} ELSE {"stale"}),
               rsp' = [rsp EXCEPT ![c] = [pc |-> "cancel", t |-> w]]
        PROVE  StaleInv'
    <3>1. /\ w \in Txn /\ send_pc[w] \notin {"new", "labelled"}
          /\ list' \subseteq list /\ list \subseteq list' \cup {w}
          /\ \A u \in Txn : timer[u] = "callback" <=> timer'[u] = "callback"
          /\ \A u \in Txn : u # w => hazard'[u] = hazard[u]
          /\ "stale" \in hazard'[w] <=> "stale" \in hazard[w] \cup (IF w = r THEN {} ELSE {"stale"})
        BY <2>3, PopFrame
    <3>2. OthersKept(w)
        BY <2>0, <2>3, <3>1 DEF OthersKept
    <3>3. \A u \in Txn : u # w => (Gone(u) => Gone(u)') /\ (Waiting(u) => Waiting(u)')
        BY <3>2, GoneKept
    <3>4. \A u \in Txn : Gone(u) => u # w
        BY DEF Gone
    <3>5. Fresh'
        BY <2>0, <2>3, <3>1, FreshKept DEF RspHas
    <3>6. ASSUME NEW u \in Txn, "stale" \in hazard'[u]
          PROVE  \E x \in Txn \ {u} : Answers(x, u)' /\ Gone(x)'
      <4>1. CASE "stale" \in hazard[u]
        <5>1. PICK x \in Txn \ {u} : Answers(x, u) /\ Gone(x)
            BY <4>1 DEF StaleShape
        <5>2. QED
            BY <2>0, <3>3, <3>4, <5>1 DEF Answers
      <4>2. CASE "stale" \notin hazard[u]
        <5>1. u = w /\ w # r /\ r \in Txn
            BY <3>1, <3>6, <4>2
        <5>2. r \notin list
            BY <2>3, <3>1, <5>1 DEF TlabelOwned, Live, Answers
        <5>3. Expected(r) /\ send_pc[r] = "returned"
            BY <5>1 DEF Pend, GivenInv, OthersAfterSender
        <5>4. CASE "stale" \in hazard[r]
          <6>1. PICK x \in Txn \ {r} : Answers(x, r) /\ Gone(x)
              BY <5>1, <5>4 DEF StaleShape
          <6>2. Answers(x, w) /\ x # w
              BY <2>3, <3>4, <6>1 DEF Answers
          <6>3. QED
              BY <2>0, <3>3, <5>1, <6>1, <6>2 DEF Answers
        <5>5. CASE Waiting(r)
          <6>1. Gone(r)
              BY <5>2, <5>3, <5>5 DEF Waiting, Gone
          <6>2. QED
              BY <2>0, <2>3, <3>3, <5>1, <6>1 DEF Answers
        <5>6. QED
            BY <5>3, <5>4, <5>5 DEF Expected
      <4>3. QED
          BY <4>1, <4>2
    <3>7. StaleShape'
        BY <3>6 DEF StaleShape
    <3>8. \A u \in Txn : u # w /\ Pend(u)' => Expected(u)'
        BY <2>2, <3>1, <3>3, ExpectedKept
    <3>9. Pend(w)' => Expected(w)'
      <4>1. CASE w # r
          BY <3>1, <4>1 DEF Expected
      <4>2. CASE w = r
        <5>1. r \notin owed /\ send_pc[r] = "returned" /\ (Queued(r) => status[r] # "none")
            BY DEF AnswerOnce, GivenInv, OthersAfterSender
        <5>2. QED
            BY <2>0, <4>2, <5>1, QueuedSame DEF Pend
      <4>3. QED
          BY <4>1, <4>2
    <3>10. QED
        BY <2>1, <3>5, <3>7, <3>8, <3>9
  <2>4. CASE UNCHANGED <<list, timer, hazard, rsp>>
    <3>1. \A u \in Txn : (Gone(u) => Gone(u)') /\ (Waiting(u) => Waiting(u)')
        BY <2>0, <2>4 DEF Gone, Waiting, GaveUp, NotAnswered, RspHas
    <3>2. Fresh'
        BY <2>0, <2>4, FreshKept DEF RspHas
    <3>3. StaleShape'
        BY <2>0, <2>4, <3>1, StaleKept
    <3>4. \A u \in Txn : Pend(u)' => Expected(u)'
        BY <2>2, <2>4, <3>1, ExpectedKept
    <3>5. QED
        BY <2>1, <3>2, <3>3, <3>4
  <2>5. QED
      BY <1>19, <2>3, <2>4 DEF HandleResponse
<1>20. ASSUME NEW c \in Responder, ResponseCancelPacket(c) PROVE StaleInv'
  <2>1. PICK w \in Txn : w = rsp[c].t
      BY <1>20 DEF ResponseCancelPacket
  <2>2. PICK more : "stale" \notin more /\ hazard' = [hazard EXCEPT ![w] = @ \cup more]
    <3>1. "stale" \notin FlushRace(w)
        BY DEF FlushRace
    <3>2. CASE hazard' = [hazard EXCEPT ![w] = @ \cup FlushRace(w)]
        BY <3>1, <3>2
    <3>3. CASE hazard' = [hazard EXCEPT ![w] = @ \cup {"removal"}]
        BY <3>3
    <3>4. QED
        BY <1>20, <2>1, <3>2, <3>3 DEF ResponseCancelPacket
  <2>3. UNCHANGED <<rcode, send_pc, at, user, rm_list, tlabel, node_id, at_queue, status, owed,
                   resps, card, list, timer>>
      BY <1>20 DEF ResponseCancelPacket
  <2>4. \A u \in Txn : RspHas(u)' <=> RspHas(u)
      BY <1>20, <2>1 DEF ResponseCancelPacket, RspHas
  <2>5. \A u \in Txn : "stale" \in hazard'[u] <=> "stale" \in hazard[u]
      BY <2>2
  <2>6. Fresh'
    <3>1. send_pc[w] \notin {"new", "labelled"}
        BY <1>20, <2>1 DEF ResponseCancelPacket, Fresh, RspHas
    <3>2. \A u \in Txn : u # w => hazard'[u] = hazard[u]
        BY <2>2
    <3>3. QED
        BY <2>3, <2>4, <3>1, <3>2, FreshKept
  <2>7. AnswerOnce'
      BY <1>20, QueuedSame, QueuedSent DEF ResponseCancelPacket, Withdraw, AnswerOnce
  <2>8. StaleShape'
      BY <2>3, <2>4, <2>5, StaleKept DEF Gone, GaveUp, NotAnswered
  <2>9. \A u \in Txn : Pend(u)' => Expected(u)'
      BY <2>3, <2>4, <2>5, QueuedSame, ExpectedKept DEF Pend, Waiting, GaveUp, NotAnswered
  <2>10. QED
      BY <2>6, <2>7, <2>8, <2>9
<1>21. ASSUME NEW c \in Responder, ResponseDeliver(c) PROVE StaleInv'
  <2>1. Fresh'
    <3>1. PICK w \in Txn : w = rsp[c].t
        BY <1>21 DEF ResponseDeliver
    <3>2. send_pc[w] \notin {"new", "labelled"}
        BY <1>21, <3>1 DEF ResponseDeliver, Fresh, RspHas
    <3>3. \A u \in Txn : u # w => rcode'[u] = rcode[u]
        BY <1>21, <3>1 DEF ResponseDeliver, Callback
    <3>4. UNCHANGED <<send_pc, hazard, at>> /\ rm_list' \subseteq rm_list
          /\ \A u \in Txn : RspHas(u)' => RspHas(u)
        BY <1>21 DEF ResponseDeliver, RspHas
    <3>5. QED
        BY <3>2, <3>3, <3>4, FreshKept
  <2>2. AnswerOnce'
      BY <1>21, QueuedSame, QueuedSent DEF ResponseDeliver, Callback, AnswerOnce
  <2>3. StaleShape'
      BY <1>21, StaleKept DEF ResponseDeliver, Callback, Gone, GaveUp, NotAnswered, RspHas
  <2>4. \A u \in Txn : Pend(u)' => Expected(u)'
    <3>1. PICK w \in Txn : w = rsp[c].t
        BY <1>21 DEF ResponseDeliver
    <3>2. UNCHANGED <<hazard, list, timer, at_queue, status, owed, resps, card, at, send_pc,
                      user, rm_list>>
          /\ \A u \in Txn : u # w => rcode'[u] = rcode[u]
        BY <1>21, <3>1 DEF ResponseDeliver, Callback
    <3>3. ~Waiting(w)
        BY <1>21, <3>1 DEF ResponseDeliver, Waiting, NotAnswered, RspHas
    <3>x. OthersKept(w)
        BY <1>21, <3>1, <3>2 DEF ResponseDeliver, OthersKept
    <3>4. \A u \in Txn : u # w => (Gone(u) => Gone(u)') /\ (Waiting(u) => Waiting(u)')
        BY <3>x, GoneKept
    <3>5. \A u \in Txn : Pend(u)' => Pend(u)
        BY <1>21, <3>2, QueuedSame DEF Pend, ResponseDeliver
    <3>6. QED
        BY <3>2, <3>3, <3>4, <3>5, ExpectedKept
  <2>5. QED
      BY <2>1, <2>2, <2>3, <2>4
<1>22. ASSUME NEW t \in Txn, UserCancel(t) PROVE StaleInv'
    BY <1>22, QueuedSame, QueuedSent, FreshKept, StaleKept, ExpectedKept
       DEF UserCancel, AnswerOnce, Pend, Waiting, Gone, GaveUp, NotAnswered, RspHas
<1>23. ASSUME UserCancelPacket PROVE StaleInv'
  <2>0. UNCHANGED <<rcode, rsp, send_pc, at, rm_list, tlabel, node_id, at_queue, status,
                    owed, resps, card>>
      BY <1>23 DEF UserCancelPacket
  <2>1. AnswerOnce'
      BY <1>23, QueuedSame, QueuedSent DEF UserCancelPacket, AnswerOnce, Withdraw
  <2>2. \A u \in Txn : Pend(u)' => Pend(u)
      BY <1>23, <2>0, QueuedSame DEF Pend, UserCancelPacket
  <2>3. CASE user.t \in list /\ FindAndPop(user.t, FlushRace(user.t))
             /\ user' = [user EXCEPT !.pc = "callback"]
    <3>1. PICK w \in list : w = user.t
        BY <2>3
    <3>2. FindAndPop(w, FlushRace(user.t))
        BY <2>3, <3>1
    <3>3. /\ w \in Txn /\ send_pc[w] \notin {"new", "labelled"}
          /\ list' \subseteq list /\ list \subseteq list' \cup {w}
          /\ \A u \in Txn : timer[u] = "callback" <=> timer'[u] = "callback"
          /\ \A u \in Txn : u # w => hazard'[u] = hazard[u]
          /\ "stale" \in hazard'[w] <=> "stale" \in hazard[w] \cup FlushRace(user.t)
        BY <3>2, PopFrame
    <3>4. Fresh'
        BY <1>23, <2>0, <2>3, <3>1, <3>3, FreshKept DEF RspHas
    <3>5. OthersKept(w)
        BY <1>23, <2>0, <2>3, <3>1, <3>3 DEF OthersKept, UserCancelPacket
    <3>6. \A u \in Txn : u # w => (Gone(u) => Gone(u)') /\ (Waiting(u) => Waiting(u)')
        BY <3>5, GoneKept
    <3>7. StaleShape'
      <4>1. \A u \in Txn : "stale" \in hazard'[u] => "stale" \in hazard[u]
          BY <3>1, <3>3 DEF FlushRace
      <4>2. ~Gone(w)
          BY DEF Gone
      <4>3. QED
          BY <2>0, <3>6, <4>1, <4>2, StaleKept
    <3>8. Waiting(w) => Waiting(w)'
        BY <1>23, <2>0, <2>3, <3>1, <3>3 DEF UserCancelPacket, Waiting, GaveUp, NotAnswered,
           RspHas
    <3>9. \A u \in Txn : Pend(u)' => Expected(u)'
        BY <2>2, <3>3, <3>6, <3>8, ExpectedKept
    <3>10. QED
        BY <2>1, <3>4, <3>7, <3>9
  <2>4. CASE UNCHANGED <<list, timer, hazard>> /\ user'.pc # "callback"
    <3>1. \A u \in Txn : (Gone(u) => Gone(u)') /\ (Waiting(u) => Waiting(u)')
        BY <1>23, <2>0, <2>4 DEF Gone, Waiting, GaveUp, NotAnswered, RspHas,
           UserCancelPacket
    <3>2. Fresh'
        BY <1>23, <2>0, <2>4, FreshKept DEF RspHas, UserCancelPacket
    <3>3. StaleShape'
        BY <2>0, <2>4, <3>1, StaleKept
    <3>4. \A u \in Txn : Pend(u)' => Expected(u)'
        BY <2>2, <2>4, <3>1, ExpectedKept
    <3>5. QED
        BY <2>1, <3>2, <3>3, <3>4
  <2>5. CASE UNCHANGED <<list, timer>> /\ user' = [pc |-> "idle", t |-> NoTxn]
             /\ hazard' = [hazard EXCEPT ![user.t] = @ \cup FlushRace(user.t)]
    <3>1. user.t \in Txn /\ send_pc[user.t] = "returned"
        BY <1>23 DEF UserCancelPacket, GivenInv, OthersAfterSender
    <3>2. Fresh'
        BY <2>0, <2>5, <3>1, FreshKept DEF RspHas
    <3>3. \A u \in Txn : (Gone(u) => Gone(u)') /\ (Waiting(u) => Waiting(u)')
        BY <1>23, <2>0, <2>5 DEF Gone, Waiting, GaveUp, NotAnswered, RspHas,
           UserCancelPacket
    <3>4. \A u \in Txn : "stale" \in hazard'[u] <=> "stale" \in hazard[u]
        BY <2>5 DEF FlushRace
    <3>5. StaleShape'
        BY <2>0, <3>3, <3>4, StaleKept
    <3>6. \A u \in Txn : Pend(u)' => Expected(u)'
        BY <2>2, <3>3, <3>4, ExpectedKept
    <3>7. QED
        BY <2>1, <3>2, <3>5, <3>6
  <2>6. QED
      BY <1>23, <2>3, <2>4, <2>5 DEF UserCancelPacket
<1>24. ASSUME UserClose PROVE StaleInv'
  <2>0. UNCHANGED <<rcode, rsp, send_pc, at, rm_list, tlabel, node_id, at_queue, status,
                    owed, resps, card>>
      BY <1>24 DEF UserClose, UserRaces
  <2>1. AnswerOnce'
      BY <1>24, QueuedSame, QueuedSent DEF UserClose, UserRaces, AnswerOnce, Withdraw
  <2>2. \A u \in Txn : Pend(u)' => Pend(u)
      BY <1>24, <2>0, QueuedSame DEF Pend, UserClose, UserRaces
  <2>3. CASE user.t \in list /\ FindAndPop(user.t, UserRaces)
             /\ user' = [user EXCEPT !.pc = "callback"]
    <3>1. PICK w \in list : w = user.t
        BY <2>3
    <3>2. FindAndPop(w, UserRaces)
        BY <2>3, <3>1
    <3>3. /\ w \in Txn /\ send_pc[w] \notin {"new", "labelled"}
          /\ list' \subseteq list /\ list \subseteq list' \cup {w}
          /\ \A u \in Txn : timer[u] = "callback" <=> timer'[u] = "callback"
          /\ \A u \in Txn : u # w => hazard'[u] = hazard[u]
          /\ "stale" \in hazard'[w] <=> "stale" \in hazard[w] \cup UserRaces
        BY <3>2, PopFrame
    <3>4. Fresh'
        BY <1>24, <2>0, <2>3, <3>1, <3>3, FreshKept DEF RspHas
    <3>5. OthersKept(w)
        BY <1>24, <2>0, <2>3, <3>1, <3>3 DEF OthersKept, UserClose, UserRaces
    <3>6. \A u \in Txn : u # w => (Gone(u) => Gone(u)') /\ (Waiting(u) => Waiting(u)')
        BY <3>5, GoneKept
    <3>7. StaleShape'
      <4>1. \A u \in Txn : "stale" \in hazard'[u] => "stale" \in hazard[u]
          BY <3>1, <3>3 DEF FlushRace, UserRaces
      <4>2. ~Gone(w)
          BY DEF Gone
      <4>3. QED
          BY <2>0, <3>6, <4>1, <4>2, StaleKept
    <3>8. Waiting(w) => Waiting(w)'
        BY <1>24, <2>0, <2>3, <3>1, <3>3 DEF UserClose, UserRaces, Waiting, GaveUp,
           NotAnswered, RspHas
    <3>9. \A u \in Txn : Pend(u)' => Expected(u)'
        BY ZenonT(30), <2>2, <3>3, <3>6, <3>8, ExpectedKept
    <3>10. QED
        BY <2>1, <3>4, <3>7, <3>9
  <2>4. CASE UNCHANGED <<list, timer, hazard>> /\ user' = [pc |-> "idle", t |-> NoTxn]
    <3>1. \A u \in Txn : (Gone(u) => Gone(u)') /\ (Waiting(u) => Waiting(u)')
        BY <1>24, <2>0, <2>4 DEF Gone, Waiting, GaveUp, NotAnswered, RspHas, UserClose
    <3>2. Fresh'
        BY <1>24, <2>0, <2>4, FreshKept DEF RspHas, UserClose
    <3>3. StaleShape'
        BY <2>0, <2>4, <3>1, StaleKept
    <3>4. \A u \in Txn : Pend(u)' => Expected(u)'
        BY <2>2, <2>4, <3>1, ExpectedKept
    <3>5. QED
        BY <2>1, <3>2, <3>3, <3>4
  <2>5. QED
      BY <1>24, <2>3, <2>4 DEF UserClose, UserRaces
<1>25. ASSUME UserCallback PROVE StaleInv'
  <2>1. Fresh'
    <3>1. PICK w \in Txn : w = user.t
        BY <1>25 DEF UserCallback
    <3>2. send_pc[w] \notin {"new", "labelled"}
        BY <1>25, <3>1 DEF UserCallback, GivenInv, OthersAfterSender
    <3>3. \A u \in Txn : u # w => rcode'[u] = rcode[u]
        BY <1>25, <3>1 DEF UserCallback, Callback
    <3>4. UNCHANGED <<send_pc, hazard, at>> /\ rm_list' \subseteq rm_list
          /\ \A u \in Txn : RspHas(u)' => RspHas(u)
        BY <1>25 DEF UserCallback, RspHas
    <3>5. QED
        BY <3>2, <3>3, <3>4, FreshKept
  <2>2. AnswerOnce'
      BY <1>25, QueuedSame, QueuedSent DEF UserCallback, Callback, AnswerOnce
  <2>3. StaleShape'
      BY <1>25, StaleKept DEF UserCallback, Callback, Gone, GaveUp, NotAnswered, RspHas
  <2>4. \A u \in Txn : Pend(u)' => Expected(u)'
    <3>1. PICK w \in Txn : w = user.t
        BY <1>25 DEF UserCallback
    <3>2. UNCHANGED <<hazard, list, timer, at_queue, status, owed, resps, card, at, send_pc,
                      rsp, rm_list>>
          /\ \A u \in Txn : u # w => rcode'[u] = rcode[u]
        BY <1>25, <3>1 DEF UserCallback, Callback
    <3>3. Waiting(w) => Waiting(w)'
        BY <1>25, <3>1, <3>2 DEF UserCallback, Callback, Waiting, GaveUp, NotAnswered,
           RspHas
    <3>x. OthersKept(w)
        BY <1>25, <3>1, <3>2 DEF UserCallback, OthersKept
    <3>4. \A u \in Txn : u # w => (Gone(u) => Gone(u)') /\ (Waiting(u) => Waiting(u)')
        BY <3>x, GoneKept
    <3>5. \A u \in Txn : Pend(u)' => Pend(u)
        BY <1>25, <3>2, QueuedSame DEF Pend, UserCallback
    <3>6. QED
        BY <3>2, <3>3, <3>4, <3>5, ExpectedKept
  <2>5. QED
      BY <2>1, <2>2, <2>3, <2>4
<1>26. ASSUME NEW t \in Txn, TimerFire(t) PROVE StaleInv'
    BY ZenonT(30), <1>26, QueuedSame, QueuedSent, FreshKept, StaleKept, ExpectedKept
       DEF TimerFire, AnswerOnce, Pend, Waiting, Gone, GaveUp, NotAnswered, RspHas
<1>27. ASSUME NEW t \in Txn, TimerPop(t) PROVE StaleInv'
  <2>1. Fresh'
      BY <1>27, FreshKept, CleanSame, QueuedSent DEF TimerPop, RemoveTransactionEntry,
         RspHas
  <2>2. AnswerOnce'
      BY <1>27, QueuedSame, QueuedSent DEF TimerPop, RemoveTransactionEntry, AnswerOnce
  <2>3. StaleShape'
      BY <1>27, StaleKept DEF TimerPop, RemoveTransactionEntry, Gone, GaveUp, NotAnswered,
         RspHas
  <2>4. \A u \in Txn : Pend(u)' => Expected(u)'
    <3>1. UNCHANGED <<rcode, hazard, rsp, at, user, rm_list, at_queue, status, owed, resps,
                      card, send_pc>>
          /\ \A u \in Txn : u # t => timer'[u] = timer[u] /\ (u \in list' <=> u \in list)
        BY <1>27 DEF TimerPop, RemoveTransactionEntry
    <3>2. \A u \in Txn : u # t => (Gone(u) => Gone(u)') /\ (Waiting(u) => Waiting(u)')
        BY <3>1, GoneKept DEF OthersKept
    <3>3. Waiting(t) => Waiting(t)'
        BY <1>27, <3>1 DEF TimerPop, RemoveTransactionEntry, Waiting, GaveUp, NotAnswered,
           RspHas
    <3>4. \A u \in Txn : Pend(u)' => Pend(u)
        BY <3>1, QueuedSame DEF Pend
    <3>5. QED
        BY <3>1, <3>2, <3>3, <3>4, ExpectedKept
  <2>5. QED
      BY <2>1, <2>2, <2>3, <2>4
<1>28. ASSUME NEW t \in Txn, TimerCallback(t) PROVE StaleInv'
  <2>1. Fresh'
    <3>1. PICK w \in Txn : w = t
        BY <1>28 DEF TimerCallback
    <3>2. send_pc[w] \notin {"new", "labelled"}
        BY <1>28, <3>1 DEF TimerCallback, GivenInv, TimerShape
    <3>3. \A u \in Txn : u # w => rcode'[u] = rcode[u]
        BY <1>28, <3>1 DEF TimerCallback, Callback
    <3>4. UNCHANGED <<send_pc, hazard, at>> /\ rm_list' \subseteq rm_list
          /\ \A u \in Txn : RspHas(u)' => RspHas(u)
        BY <1>28 DEF TimerCallback, RspHas
    <3>5. QED
        BY <3>2, <3>3, <3>4, FreshKept
  <2>2. AnswerOnce'
      BY <1>28, QueuedSame, QueuedSent DEF TimerCallback, Callback, AnswerOnce
  <2>3. StaleShape'
      BY <1>28, StaleKept DEF TimerCallback, Callback, Gone, GaveUp, NotAnswered, RspHas
  <2>4. \A u \in Txn : Pend(u)' => Expected(u)'
    <3>1. PICK w \in Txn : w = t
        BY <1>28 DEF TimerCallback
    <3>2. UNCHANGED <<hazard, list, user, at_queue, status, owed, resps, card, at, send_pc,
                      rsp, rm_list>>
          /\ \A u \in Txn : u # w => rcode'[u] = rcode[u]
        BY <1>28, <3>1 DEF TimerCallback, Callback
    <3>3. Waiting(w) => Waiting(w)'
        BY <1>28, <3>1, <3>2 DEF TimerCallback, Callback, Waiting, GaveUp, NotAnswered,
           RspHas
    <3>x. OthersKept(w)
        BY <1>28, <3>1, <3>2 DEF TimerCallback, OthersKept
    <3>4. \A u \in Txn : u # w => (Gone(u) => Gone(u)') /\ (Waiting(u) => Waiting(u)')
        BY <3>x, GoneKept
    <3>5. \A u \in Txn : Pend(u)' => Pend(u)
        BY <1>28, <3>2, QueuedSame DEF Pend, TimerCallback
    <3>6. QED
        BY <3>2, <3>3, <3>4, <3>5, ExpectedKept
  <2>5. QED
      BY <2>1, <2>2, <2>3, <2>4
<1>29. ASSUME ResetStop PROVE StaleInv'
    BY SMTT(30), <1>29, QueuedSame, QueuedSent, FreshKept, StaleKept, ExpectedKept
       DEF ResetStop, AnswerOnce, Pend, Waiting, Gone, GaveUp, NotAnswered, RspHas
<1>30. ASSUME FlushStart PROVE StaleInv'
    BY <1>30, QueuedSame, QueuedSent, FreshKept, StaleKept, ExpectedKept
       DEF FlushStart, AnswerOnce, Pend, Waiting, Gone, GaveUp, NotAnswered, RspHas
<1>31. ASSUME ResetEnd PROVE StaleInv'
    BY <1>31, QueuedSame, QueuedSent, FreshKept, StaleKept, ExpectedKept
       DEF ResetEnd, AnswerOnce, Pend, Waiting, Gone, GaveUp, NotAnswered, RspHas
<1>32. ASSUME RemoveStart PROVE StaleInv'
    BY <1>32, QueuedSame, QueuedSent, FreshKept, StaleKept, ExpectedKept
       DEF RemoveStart, AnswerOnce, Pend, Waiting, Gone, GaveUp, NotAnswered, RspHas
<1>33. ASSUME RemoveDisable PROVE StaleInv'
    BY <1>33, QueuedSame, QueuedSent, FreshKept, StaleKept, ExpectedKept
       DEF RemoveDisable, AnswerOnce, Pend, Waiting, Gone, GaveUp, NotAnswered, RspHas
<1>34. ASSUME RemoveCancelPending PROVE StaleInv'
  <2>1. UNCHANGED <<rcode, rsp, at, user, at_queue, status, owed, resps, send_pc, tlabel,
                    node_id>> /\ rm_list = {} /\ card' = "cancelling"
      BY <1>34 DEF RemoveCancelPending, GivenInv, CardShape
  <2>2. list' \subseteq list /\ list \subseteq list' \cup rm_list'
      BY <1>34 DEF RemoveCancelPending
  <2>3. \A u \in Txn : timer[u] = "callback" => timer'[u] = "callback"
      BY <1>34 DEF RemoveCancelPending, TryCancelSplitTimeout, GivenInv, TimerShape
  <2>4. \A u \in Txn : "stale" \in hazard'[u] <=> "stale" \in hazard[u]
      BY <1>34 DEF RemoveCancelPending
  <2>5. \A u \in Txn : (Gone(u) => Gone(u)') /\ (Waiting(u) => Waiting(u)')
      BY <2>1, <2>2, <2>3 DEF Gone, Waiting, GaveUp, NotAnswered, RspHas
  <2>6. \A u \in Txn : Pend(u)' => Pend(u)
      BY <2>1, QueuedSame DEF Pend
  <2>7. Fresh' /\ AnswerOnce'
    <3>1. Fresh'
        BY <1>34, FreshKept, CleanSame, QueuedSent DEF RemoveCancelPending, RspHas
    <3>2. AnswerOnce'
        BY <1>34, QueuedSame DEF RemoveCancelPending, AnswerOnce
    <3>3. QED
        BY <3>1, <3>2
  <2>8. StaleShape'
      BY <2>1, <2>4, <2>5, StaleKept
  <2>9. QED
      BY <2>4, <2>5, <2>6, <2>7, <2>8, ExpectedKept
<1>35. ASSUME NEW t \in Txn, RemoveCallback(t) PROVE StaleInv'
  <2>1. Fresh'
    <3>1. PICK w \in Txn : w = t
        BY <1>35 DEF RemoveCallback
    <3>2. send_pc[w] \notin {"new", "labelled"}
        BY <1>35, <3>1 DEF RemoveCallback, Fresh
    <3>3. \A u \in Txn : u # w => rcode'[u] = rcode[u]
        BY <1>35, <3>1 DEF RemoveCallback, Callback
    <3>4. UNCHANGED <<send_pc, hazard, at>> /\ rm_list' \subseteq rm_list
          /\ \A u \in Txn : RspHas(u)' => RspHas(u)
        BY <1>35 DEF RemoveCallback, RspHas
    <3>5. QED
        BY <3>2, <3>3, <3>4, FreshKept
  <2>2. AnswerOnce'
      BY <1>35, QueuedSame, QueuedSent DEF RemoveCallback, Callback, AnswerOnce
  <2>3. StaleShape'
      BY <1>35, StaleKept DEF RemoveCallback, Callback, Gone, GaveUp, NotAnswered, RspHas
  <2>4. \A u \in Txn : Pend(u)' => Expected(u)'
    <3>1. PICK w \in Txn : w = t
        BY <1>35 DEF RemoveCallback
    <3>2. UNCHANGED <<hazard, list, user, timer, at_queue, status, owed, resps, card, at,
                      send_pc, rsp>>
          /\ \A u \in Txn : u # w => rcode'[u] = rcode[u]
        BY <1>35, <3>1 DEF RemoveCallback, Callback
    <3>3. Waiting(w) => Waiting(w)'
        BY <1>35, <3>1, <3>2 DEF RemoveCallback, Callback, Waiting, GaveUp, NotAnswered,
           RspHas
    <3>x. OthersKept(w)
        BY <1>35, <3>1, <3>2 DEF RemoveCallback, OthersKept
    <3>4. \A u \in Txn : u # w => (Gone(u) => Gone(u)') /\ (Waiting(u) => Waiting(u)')
        BY <3>x, GoneKept
    <3>5. \A u \in Txn : Pend(u)' => Pend(u)
        BY <1>35, <3>2, QueuedSame DEF Pend, RemoveCallback
    <3>6. QED
        BY <3>2, <3>3, <3>4, <3>5, ExpectedKept
  <2>5. QED
      BY <2>1, <2>2, <2>3, <2>4
<1>36. ASSUME RemoveDone PROVE StaleInv'
    BY <1>36, QueuedSame, QueuedSent, FreshKept, StaleKept, ExpectedKept
       DEF RemoveDone, AnswerOnce, Pend, Waiting, Gone, GaveUp, NotAnswered, RspHas
<1>37. CASE UNCHANGED vars
    BY <1>37, QueuedSame, FreshKept, CleanSame, StaleKept, ExpectedKept
       DEF vars, AnswerOnce, Pend, Waiting, Gone, GaveUp, NotAnswered, RspHas
<1>38. QED
    BY <1>1, <1>2, <1>3, <1>4, <1>5, <1>6, <1>7, <1>8, <1>9, <1>10, <1>11, <1>12, <1>13,
       <1>14, <1>15, <1>16, <1>17, <1>18, <1>19, <1>20, <1>21, <1>22, <1>23, <1>24, <1>25,
       <1>26, <1>27, <1>28, <1>29, <1>30, <1>31, <1>32, <1>33, <1>34, <1>35, <1>36, <1>37
       DEF Next, Sender, AtContext, ResponseContext, UserContext, Timer, ResetThread, Removal

\* THEOREM: a caller who is told that a request did not go through, or that it completed,
\* can rely on it, and a response is given to another transaction than the one it answers
\* only after one with the same node and label was given up; about
\* transmit_complete_callback(), handle_at_packet() and fw_core_handle_response().
THEOREM AnswersTrue == Spec => []AnswersAreTrue
<1>1. Init => LabelInv /\ OnceInv /\ GivenInv /\ TruthInv /\ StaleInv
  <2> SUFFICES ASSUME Init PROVE TruthInv /\ StaleInv
      BY CompletionInit
  <2>1. TruthInv
      BY DEF Init, TruthInv, AckTrue, TruthShape, BadRcode, Queued, AtHolds
  <2>2. Fresh /\ AnswerOnce /\ StaleShape
    <3>1. AnswerOnce /\ StaleShape
        BY DEF Init, AnswerOnce, StaleShape
    <3>2. \A t \in Txn : ~RspHas(t) /\ hazard[t] = {}
        BY DEF Init, RspHas
    <3>3. QED
        BY <3>1, <3>2 DEF Init, Fresh, Clean, AtHolds
  <2>3. \A t \in Txn : ~Pend(t)
      BY DEF Init, Pend, Queued
  <2>4. QED
      BY <2>1, <2>2, <2>3 DEF StaleInv
<1>2. Spec => [](TypeInv /\ LabelInv /\ OnceInv /\ GivenInv /\ TruthInv /\ StaleInv)
    BY <1>1, TypeInit, TypeStep, LabelStep, OnceStep, GivenStep, TruthStep, StaleStep, PTL
       DEF Spec
<1>3. TruthInv /\ StaleInv => AnswersAreTrue
  <2> SUFFICES ASSUME TruthInv, StaleInv PROVE AnswersAreTrue
      OBVIOUS
  <2>1. RcodeTellsTheTruth
      BY DEF TruthInv, TruthShape, RcodeTellsTheTruth, BadRcode
  <2>2. StaleResponseOnlyAfterCancel
      BY DEF StaleInv, StaleShape, StaleResponseOnlyAfterCancel, Gone, GaveUp, Abandoned,
         Answers
  <2>3. QED
      BY <2>1, <2>2 DEF AnswersAreTrue
<1>4. QED
    BY <1>2, <1>3, PTL
=============================================================================
