----------------------------- MODULE OhciProofs -----------------------------
(* Proofs of the safety properties of OhciBusReset, for any number of self *)
(* IDs, bus resets, buffers and updates of the configuration ROM, and of   *)
(* OhciIsoAlloc, for any number of contexts and channels.                  *)
EXTENDS OhciBusReset, OhciIsoAlloc, FiniteSetTheorems, SequenceTheorems, TLAPS

-----------------------------------------------------------------------------
(* Bus reset: the inductive invariant.                                     *)

\* The thread has as many self IDs as its place in the program says.
ThreadShape ==
    /\ thread.pc \in {"idle", "count", "header"} => thread.ids = <<>>
    /\ thread.pc = "ids" => Len(thread.ids) < SelfIds

\* What the controller has written of the last self ID phase: everything, when the
\* quadlet with the generation is written; that quadlet is never ahead of the bus.
BufferShape ==
    /\ DOMAIN buffer.ids = 1 .. SelfIds
    /\ buffer.header <= hw.gen
    /\ hw.phase = "reset" => buffer.header < hw.gen
    /\ hw.phase # "reset" => /\ buffer.header = hw.gen
                             /\ \A i \in 1 .. SelfIds : buffer.ids[i] = hw.gen

\* What the thread has read is of one bus reset, unless the generation went on, and is
\* all of it, unless something was received badly.
ReadSoFar ==
    /\ thread.pc \in {"ids", "check"} =>
          /\ thread.gen <= buffer.header
          /\ thread.gen = hw.gen => \A i \in DOMAIN thread.ids : thread.ids[i] = thread.gen
    /\ thread.pc = "check" /\ thread.gen = hw.gen =>
          Len(thread.ids) = SelfIds \/ thread.gen \in Broken
    /\ thread.pc \in {"stop", "commit", "free", "core"} =>
          /\ \A i \in DOMAIN thread.ids : thread.ids[i] = thread.gen
          /\ Len(thread.ids) = SelfIds \/ thread.gen \in Broken

CoreConsistent == \A i \in DOMAIN core.ids : core.ids[i] = core.gen

\* The ROM to be used next is what the controller takes at the next bus reset.
RomShape ==
    /\ NoRomLeaked
    /\ ohci.next_rom = NoRom => ohci.rom # NoRom
    /\ ohci.next_rom # NoRom => ohci.next_rom # ohci.rom
    /\ hw.next = IF ohci.next_rom = NoRom THEN ohci.rom ELSE ohci.next_rom
    /\ thread.free # NoRom => thread.pc = "free" /\ thread.free \notin {ohci.rom, ohci.next_rom}

\* The ROM that the controller uses: the next one, as soon as there was a bus reset; before,
\* the one in use then, which the driver has replaced only if it was early.
RomTaken ==
    /\ hw.map # NoRom
    /\ ~hw.armed => hw.map = hw.next
    /\ hw.armed /\ ohci.next_rom = NoRom => early = "waits"
    /\ early # "waits" => hw.map \in {hw.next, ohci.rom}

ResetInv ==
    /\ ResetTypeOK /\ ThreadShape /\ BufferShape /\ ReadSoFar /\ CoreConsistent
    /\ RomShape /\ RomTaken

LEMMA ResetInitInv == ResetInit => ResetInv
<1> SUFFICES ASSUME ResetInit PROVE ResetInv
    OBVIOUS
<1> DEFINE b == CHOOSE b \in Rom : TRUE
<1>1. b \in Rom /\ b # NoRom
    BY ResetAssumption
<1>2. ResetTypeOK
  <2> USE <1>1, ResetAssumption DEF ResetInit, Gen
  <2>1. HwType
      BY DEF HwType
  <2>2. BufferType
      BY DEF BufferType
  <2>3. <<>> \in Seq(Gen)
      OBVIOUS
  <2>4. ThreadType /\ CoreType
      BY <2>3 DEF ThreadType, CoreType
  <2>5. OhciType
      BY DEF OhciType
  <2>6. woken \in BOOLEAN /\ scheduled \in BOOLEAN
      BY Zenon
  <2>7. zeroed \subseteq Rom /\ allocated \subseteq Rom /\ updates \in 0 .. MaxRom
      OBVIOUS
  <2>8. QED
      BY <2>1, <2>2, <2>4, <2>5, <2>6, <2>7 DEF ResetTypeOK
<1>3. ThreadShape /\ ReadSoFar /\ CoreConsistent
    BY DEF ResetInit, ThreadShape, ReadSoFar, CoreConsistent
<1>4. BufferShape
    BY ResetAssumption DEF ResetInit, BufferShape
<1>5. RomShape /\ RomTaken
    BY <1>1 DEF ResetInit, RomShape, RomTaken, NoRomLeaked
<1>6. QED
    BY <1>2, <1>3, <1>4, <1>5 DEF ResetInv

LEMMA EndType == ThreadType /\ End(thread) => ThreadType'
<1> SUFFICES ASSUME ThreadType, End(thread) PROVE ThreadType'
    OBVIOUS
<1>1. <<>> \in Seq(Gen) /\ 0 \in Gen
    BY ResetAssumption DEF Gen
<1>2. QED
    BY <1>1 DEF ThreadType, End

LEMMA ResetTypeStep ==
    ResetTypeOK /\ ThreadShape /\ BufferShape /\ [ResetNext]_resetvars => ResetTypeOK'
<1> SUFFICES ASSUME ResetTypeOK, ThreadShape, BufferShape, [ResetNext]_resetvars
             PROVE  ResetTypeOK'
    OBVIOUS
<1> USE ResetAssumption DEF Gen, ResetTypeOK
<1>1. CASE EnableEnds
  <2>1. OhciType'
      BY <1>1 DEF EnableEnds, OhciType
  <2>2. QED
      BY <1>1, <2>1 DEF EnableEnds, HwType, BufferType, ThreadType, CoreType
<1>2. CASE ScheduledReset \/ OtherReset
  <2>0. Reset /\ scheduled' \in BOOLEAN
      BY Zenon, <1>2 DEF ScheduledReset, OtherReset
  <2>1. HwType'
    <3>1. hw.gen + 1 \in Gen
        BY <2>0 DEF Reset, HwType
    <3>2. QED
        BY ZenonT(30), <3>1, <2>0 DEF Reset, HwType
  <2>2. early' \in {"no", "waits", "taken"}
      BY <2>0 DEF Reset
  <2>3. QED
      BY <2>0, <2>1, <2>2 DEF Reset, BufferType, ThreadType, OhciType, CoreType
<1>3. CASE WriteSelfId
  <2>1. BufferType'
    <3>1. PICK i \in 1 .. SelfIds : buffer' = [buffer EXCEPT !.ids[i] = hw.gen]
        BY <1>3 DEF WriteSelfId
    <3>2. [buffer.ids EXCEPT ![i] = hw.gen] \in Seq(Gen)
        BY ExceptSeq DEF BufferType, HwType, BufferShape
    <3>3. QED
        BY <3>1, <3>2 DEF BufferType
  <2>2. QED
      BY <1>3, <2>1 DEF WriteSelfId, HwType, ThreadType, OhciType, CoreType
<1>4. CASE WriteHeader
  <2>1. BufferType'
      BY <1>4 DEF WriteHeader, BufferType, HwType
  <2>2. HwType'
      BY <1>4 DEF WriteHeader, HwType
  <2>3. QED
      BY <1>4, <2>1, <2>2 DEF WriteHeader, ThreadType, OhciType, CoreType
<1>5. CASE SelfIdComplete
  <2>1. HwType'
      BY <1>5 DEF SelfIdComplete, HwType
  <2>2. QED
      BY <1>5, <2>1 DEF SelfIdComplete, BufferType, ThreadType, OhciType, CoreType
<1>6. CASE Irq
  <2>1. HwType'
      BY <1>6 DEF Irq, WakeThread, HwType
  <2>2. QED
    <3>1. woken' \in BOOLEAN
        BY Zenon, <1>6 DEF Irq, WakeThread, HwType
    <3>2. QED
        BY <1>6, <2>1, <3>1 DEF Irq, BufferType, ThreadType, OhciType, CoreType
<1>7. CASE ReadNodeId
  <2>1. OhciType'
      BY <1>7 DEF ReadNodeId, OhciType, HwType
  <2>2. ThreadType'
      BY <1>7 DEF ReadNodeId, ThreadType
  <2>3. QED
    <3>1. woken' \in BOOLEAN
        BY <1>7 DEF ReadNodeId
    <3>2. UNCHANGED <<hw, buffer, zeroed, allocated, updates, updating, early, scheduled, core>>
        BY <1>7 DEF ReadNodeId
    <3>3. QED
        BY <2>1, <2>2, <3>1, <3>2 DEF HwType, BufferType, CoreType
<1>8. CASE ReadCount
  <2>1. ThreadType'
      BY <1>8, EndType DEF ReadCount, ThreadType
  <2>2. QED
      BY <1>8, <2>1 DEF ReadCount, HwType, BufferType, OhciType, CoreType
<1>9. CASE ReadHeader
  <2>1. ThreadType'
      BY <1>9 DEF ReadHeader, ThreadType, BufferType
  <2>2. QED
      BY <1>9, <2>1 DEF ReadHeader, HwType, BufferType, OhciType, CoreType
<1>10. CASE ReadSelfId
  <2>1. ThreadType'
    <3>1. buffer.ids[Len(thread.ids) + 1] \in Gen
        BY <1>10 DEF ReadSelfId, BufferType, ThreadType, BufferShape, ThreadShape
    <3>2. Append(thread.ids, buffer.ids[Len(thread.ids) + 1]) \in Seq(Gen)
        BY <3>1 DEF ThreadType
    <3>3. QED
        BY <1>10, <3>2 DEF ReadSelfId, ThreadType
  <2>2. QED
      BY <1>10, <2>1 DEF ReadSelfId, HwType, BufferType, OhciType, CoreType
<1>11. CASE CheckGeneration
  <2>1. ThreadType'
      BY <1>11, EndType DEF CheckGeneration, ThreadType, SameGeneration
  <2>2. QED
      BY <1>11, <2>1 DEF CheckGeneration, SameGeneration, HwType, BufferType, OhciType,
         CoreType
<1>12. CASE StopTransmission
  <2>1. OhciType'
      BY <1>12 DEF StopTransmission, OhciType
  <2>2. ThreadType'
      BY <1>12 DEF StopTransmission, ThreadType
  <2>3. QED
      BY <1>12, <2>1, <2>2 DEF StopTransmission, HwType, BufferType, CoreType
<1>13. CASE Commit
  <2>1. HwType'
      BY <1>13 DEF Commit, Unmasked, NewHeader, HwType, OhciType
  <2>2. OhciType'
      BY <1>13 DEF Commit, Unmasked, NewHeader, OhciType, ThreadType
  <2>3. ThreadType'
    <3>1. OldRom \in Rom \cup {NoRom}
        BY DEF OldRom, OhciType
    <3>2. QED
        BY <3>1, <1>13 DEF Commit, ThreadType
  <2>4. QED
      BY <1>13, <2>1, <2>2, <2>3 DEF Commit, Unmasked, NewHeader, BufferType, CoreType
<1>14. CASE HandleBusReset
  <2>1. CoreType'
      BY <1>14 DEF HandleBusReset, End, CoreType, OhciType, ThreadType
  <2>2. ThreadType'
      BY <1>14, EndType DEF HandleBusReset, ThreadType
  <2>3. QED
      BY <1>14, <2>1, <2>2 DEF HandleBusReset, HwType, BufferType, OhciType
<1>15. CASE SetConfigRom
  <2>1. OhciType'
      BY <1>15 DEF SetConfigRom, OhciType
  <2>2. HwType'
    <3>1. PICK b \in Rom : hw' = [hw EXCEPT !.next = b, !.armed = TRUE]
        BY <1>15 DEF SetConfigRom, OhciType
    <3>2. QED
        BY <3>1 DEF HwType
  <2>3. QED
      BY SMTT(30), <1>15, <2>1, <2>2 DEF SetConfigRom, BufferType, ThreadType, CoreType, OhciType
<1>16. CASE UNCHANGED resetvars
    BY <1>16 DEF resetvars, HwType, BufferType, ThreadType, OhciType, CoreType
<1>18. CASE ReadBadSelfId
    BY <1>18, EndType DEF ReadBadSelfId, HwType, BufferType, OhciType, CoreType
<1>19. CASE ReadSpuriousSelfId
  <2>1. ThreadType'
      BY <1>19, EndType DEF ReadSpuriousSelfId, ThreadType
  <2>2. QED
      BY <1>19, <2>1 DEF ReadSpuriousSelfId, HwType, BufferType, OhciType, CoreType
<1>20. CASE FreeRom
  <2>1. ThreadType'
      BY <1>20 DEF FreeRom, ThreadType
  <2>2. QED
      BY <1>20, <2>1 DEF FreeRom, HwType, BufferType, OhciType, CoreType
<1>21. CASE ScheduleReset
  <2>1. updating' \in BOOLEAN /\ scheduled' \in BOOLEAN
      BY Zenon, <1>21 DEF ScheduleReset
  <2>2. QED
      BY <1>21, <2>1 DEF ScheduleReset, HwType, BufferType, ThreadType, OhciType, CoreType
<1>17. QED
    BY <1>1, <1>2, <1>3, <1>4, <1>5, <1>6, <1>7, <1>8, <1>9, <1>10, <1>11, <1>12, <1>13,
       <1>14, <1>15, <1>16, <1>18, <1>19, <1>20, <1>21
    DEF ResetNext, ScheduledReset, OtherReset, Hardware, Thread

\* A step of the thread that leaves the configuration ROM alone.
LEMMA RomsStay ==
    ASSUME RomShape, RomTaken, ohci \in [gen : Gen \cup {-1}, node : Gen, rom : Rom \cup {NoRom},
           next_rom : Rom \cup {NoRom}, enabled : BOOLEAN], UNCHANGED <<hw, allocated, early>>,
           ohci'.rom = ohci.rom, ohci'.next_rom = ohci.next_rom, thread'.free = thread.free,
           thread.pc # "free"
    PROVE  (RomShape /\ RomTaken)'
<1>1. thread.free = NoRom
    BY DEF RomShape
<1>2. RomTaken'
    BY DEF RomTaken
<1>3. NoRomLeaked'
    BY DEF RomShape, NoRomLeaked
<1>4. QED
    BY <1>1, <1>2, <1>3 DEF RomShape

\* The thread ends.
LEMMA EndKeeps ==
    ASSUME ResetInv, End(thread), thread.pc # "free",
           UNCHANGED <<hw, buffer, ohci, core, allocated, early>>
    PROVE  (ThreadShape /\ BufferShape /\ ReadSoFar /\ CoreConsistent /\ RomShape /\ RomTaken)'
<1>1. thread'.pc = "idle" /\ thread'.ids = <<>> /\ thread'.free = thread.free
    BY DEF End, ResetInv, ResetTypeOK, ThreadType
<1>2. (ThreadShape /\ ReadSoFar)'
    BY <1>1 DEF ThreadShape, ReadSoFar
<1>3. (BufferShape /\ CoreConsistent)'
    BY DEF ResetInv, BufferShape, CoreConsistent
<1>4. (RomShape /\ RomTaken)'
    BY <1>1, RomsStay DEF ResetInv, ResetTypeOK, OhciType
<1>5. QED
    BY <1>2, <1>3, <1>4

LEMMA ResetStep == ResetInv /\ [ResetNext]_resetvars => ResetInv'
<1> SUFFICES ASSUME ResetInv, [ResetNext]_resetvars PROVE ResetInv'
    OBVIOUS
<1>0. ResetTypeOK'
    BY ResetTypeStep DEF ResetInv
<1> USE <1>0, ResetAssumption DEF Gen, ResetInv, ResetTypeOK
<1>1. CASE EnableEnds
  <2>1. (ThreadShape /\ BufferShape)'
      BY <1>1 DEF EnableEnds, ThreadShape, BufferShape, ThreadType, BufferType, HwType
  <2>2. (ReadSoFar /\ CoreConsistent)'
      BY <1>1 DEF EnableEnds, ThreadShape, BufferShape, ReadSoFar, CoreConsistent,
         ThreadType, BufferType, HwType, CoreType
  <2>3. RomShape'
      BY <1>1 DEF EnableEnds, RomShape, NoRomLeaked, HwType, OhciType, ThreadType
  <2>4. RomTaken'
      BY <1>1 DEF EnableEnds, RomShape, RomTaken, NoRomLeaked, HwType, OhciType,
         ThreadType
  <2>5. QED
      BY <2>1, <2>2, <2>3, <2>4
<1>2. CASE Reset
  <2>1. (ThreadShape /\ BufferShape)'
      BY <1>2 DEF Reset, ThreadShape, BufferShape, ThreadType, BufferType, HwType
  <2>2. (ReadSoFar /\ CoreConsistent)'
      BY <1>2 DEF Reset, ThreadShape, BufferShape, ReadSoFar, CoreConsistent, ThreadType,
         BufferType, HwType, CoreType
  <2>3. RomShape'
      BY <1>2 DEF Reset, RomShape, NoRomLeaked, HwType, OhciType, ThreadType
  <2>4. RomTaken'
      BY <1>2 DEF Reset, RomShape, RomTaken, NoRomLeaked, HwType, OhciType,
         ThreadType
  <2>5. QED
      BY <2>1, <2>2, <2>3, <2>4
<1>3. CASE WriteSelfId
  <2>1. (ThreadShape /\ BufferShape)'
      BY <1>3 DEF WriteSelfId, ThreadShape, BufferShape, ThreadType, BufferType, HwType
  <2>2. (ReadSoFar /\ CoreConsistent)'
      BY <1>3 DEF WriteSelfId, ThreadShape, BufferShape, ReadSoFar, CoreConsistent,
         ThreadType, BufferType, HwType, CoreType
  <2>3. RomShape'
      BY <1>3 DEF WriteSelfId, RomShape, NoRomLeaked, HwType, OhciType, ThreadType
  <2>4. RomTaken'
      BY <1>3 DEF WriteSelfId, RomShape, RomTaken, NoRomLeaked, HwType, OhciType,
         ThreadType
  <2>5. QED
      BY <2>1, <2>2, <2>3, <2>4
<1>4. CASE WriteHeader
  <2>1. (ThreadShape /\ BufferShape)'
      BY <1>4 DEF WriteHeader, ThreadShape, BufferShape, ThreadType, BufferType, HwType
  <2>2. (ReadSoFar /\ CoreConsistent)'
      BY <1>4 DEF WriteHeader, ThreadShape, BufferShape, ReadSoFar, CoreConsistent,
         ThreadType, BufferType, HwType, CoreType
  <2>3. RomShape'
      BY <1>4 DEF WriteHeader, RomShape, NoRomLeaked, HwType, OhciType, ThreadType
  <2>4. RomTaken'
      BY <1>4 DEF WriteHeader, RomShape, RomTaken, NoRomLeaked, HwType, OhciType,
         ThreadType
  <2>5. QED
      BY <2>1, <2>2, <2>3, <2>4
<1>5. CASE SelfIdComplete
  <2>1. (ThreadShape /\ BufferShape)'
      BY <1>5 DEF SelfIdComplete, ThreadShape, BufferShape, ThreadType, BufferType, HwType
  <2>2. (ReadSoFar /\ CoreConsistent)'
      BY <1>5 DEF SelfIdComplete, ThreadShape, BufferShape, ReadSoFar, CoreConsistent,
         ThreadType, BufferType, HwType, CoreType
  <2>3. RomShape'
      BY <1>5 DEF SelfIdComplete, RomShape, NoRomLeaked, HwType, OhciType, ThreadType
  <2>4. RomTaken'
      BY <1>5 DEF SelfIdComplete, RomShape, RomTaken, NoRomLeaked, HwType,
         OhciType, ThreadType
  <2>5. QED
      BY <2>1, <2>2, <2>3, <2>4
<1>6. CASE Irq
  <2>1. (ThreadShape /\ BufferShape)'
      BY <1>6 DEF Irq, WakeThread, ThreadShape, BufferShape, ThreadType, BufferType, HwType
  <2>2. (ReadSoFar /\ CoreConsistent)'
      BY <1>6 DEF Irq, WakeThread, ThreadShape, BufferShape, ReadSoFar, CoreConsistent,
         ThreadType, BufferType, HwType, CoreType
  <2>3. RomShape'
      BY <1>6 DEF Irq, WakeThread, RomShape, NoRomLeaked, HwType, OhciType, ThreadType
  <2>4. RomTaken'
      BY <1>6 DEF Irq, WakeThread, RomShape, RomTaken, NoRomLeaked, HwType,
         OhciType, ThreadType
  <2>5. QED
      BY <2>1, <2>2, <2>3, <2>4
<1>7. CASE ReadNodeId
  <2>1. /\ thread.pc = "idle" /\ thread'.pc \in {"idle", "count"} /\ thread'.ids = thread.ids
        /\ thread'.free = thread.free /\ ohci'.rom = ohci.rom /\ ohci'.next_rom = ohci.next_rom
        /\ UNCHANGED <<hw, buffer, allocated, early, core>>
      BY <1>7 DEF ReadNodeId, OhciType, ThreadType
  <2>2. (ThreadShape /\ BufferShape /\ ReadSoFar /\ CoreConsistent)'
      BY <2>1 DEF ThreadShape, BufferShape, ReadSoFar, CoreConsistent
  <2>3. (RomShape /\ RomTaken)'
      BY <2>1, RomsStay DEF OhciType
  <2>4. QED
      BY <2>2, <2>3
<1>8. CASE ReadCount
  <2>1. CASE End(thread)
      BY <1>8, <2>1, EndKeeps DEF ReadCount
  <2>2. CASE ~End(thread)
    <3>1. /\ thread.pc = "count" /\ thread'.pc = "header" /\ thread'.ids = thread.ids
          /\ thread'.free = thread.free /\ UNCHANGED <<hw, buffer, ohci, allocated, early, core>>
        BY <1>8, <2>2 DEF ReadCount, ThreadType
    <3>2. (ThreadShape /\ BufferShape /\ ReadSoFar /\ CoreConsistent)'
        BY <3>1 DEF ThreadShape, BufferShape, ReadSoFar, CoreConsistent
    <3>3. (RomShape /\ RomTaken)'
        BY <3>1, RomsStay DEF OhciType
    <3>4. QED
        BY <3>2, <3>3
  <2>3. QED
      BY <2>1, <2>2
<1>9. CASE ReadHeader
  <2>1. (ThreadShape /\ BufferShape)'
      BY <1>9 DEF ReadHeader, ThreadShape, BufferShape, ThreadType, BufferType, HwType
  <2>2. (ReadSoFar /\ CoreConsistent)'
      BY <1>9 DEF ReadHeader, ThreadShape, BufferShape, ReadSoFar, CoreConsistent,
         ThreadType, BufferType, HwType, CoreType
  <2>3. RomShape'
      BY <1>9 DEF ReadHeader, RomShape, NoRomLeaked, HwType, OhciType, ThreadType
  <2>4. RomTaken'
      BY <1>9 DEF ReadHeader, RomShape, RomTaken, NoRomLeaked, HwType, OhciType,
         ThreadType
  <2>5. QED
      BY <2>1, <2>2, <2>3, <2>4
<1>10. CASE ReadSelfId
  <2> DEFINE n == Len(thread.ids) + 1
             ids == Append(thread.ids, buffer.ids[n])
  <2>1. /\ thread.pc = "ids"
        /\ thread' = [thread EXCEPT !.ids = ids,
                                    !.pc = IF Len(ids) = SelfIds THEN "check" ELSE "ids"]
        /\ UNCHANGED <<hw, buffer, woken, ohci, zeroed, allocated, updates, updating,
                       early, scheduled, core>>
      BY <1>10 DEF ReadSelfId
  <2>2. n \in 1 .. SelfIds /\ Len(ids) = n /\ DOMAIN ids = 1 .. n
      BY <2>1 DEF ThreadShape, ThreadType
  <2>3. ThreadShape'
      BY <2>1, <2>2 DEF ThreadShape, ThreadType
  <2>4. thread.gen = hw.gen => \A j \in 1 .. n : ids[j] = thread.gen
    <3> SUFFICES ASSUME thread.gen = hw.gen, NEW j \in 1 .. n PROVE ids[j] = thread.gen
        OBVIOUS
    <3>1. buffer.header = hw.gen /\ buffer.ids[n] = hw.gen
        BY <2>1, <2>2 DEF ReadSoFar, BufferShape, HwType, BufferType
    <3>2. ids[n] = buffer.ids[n]
        BY DEF ThreadType
    <3>3. ASSUME j # n PROVE j \in DOMAIN thread.ids /\ ids[j] = thread.ids[j]
      <4>1. j \in 1 .. Len(thread.ids) /\ thread.ids \in Seq(Gen)
          BY <2>2, <3>3 DEF ThreadType
      <4>2. QED
          BY <4>1
    <3>4. QED
        BY <2>1, <3>1, <3>2, <3>3 DEF ReadSoFar
  <2>5. ReadSoFar'
      BY <2>1, <2>2, <2>4 DEF ReadSoFar, ThreadType
  <2>6. (BufferShape /\ CoreConsistent)'
      BY <2>1 DEF BufferShape, CoreConsistent
  <2>7. QED
      BY <2>1, <2>3, <2>5, <2>6 DEF RomShape, RomTaken, NoRomLeaked, ThreadType
<1>11. CASE CheckGeneration
  <2>1. CASE ~SameGeneration(thread.gen)
      BY <1>11, <2>1, EndKeeps DEF CheckGeneration
  <2>2. CASE SameGeneration(thread.gen)
    <3>1. /\ thread.pc = "check" /\ thread'.pc = "stop" /\ thread.gen = hw.gen
          /\ thread'.ids = thread.ids /\ thread'.gen = thread.gen /\ thread'.free = thread.free
          /\ UNCHANGED <<hw, buffer, ohci, allocated, early, core>>
        BY <1>11, <2>2 DEF CheckGeneration, SameGeneration, ThreadType
    <3>2. (ThreadShape /\ BufferShape /\ ReadSoFar /\ CoreConsistent)'
        BY <3>1 DEF ThreadShape, BufferShape, ReadSoFar, CoreConsistent
    <3>3. (RomShape /\ RomTaken)'
        BY <3>1, RomsStay DEF OhciType
    <3>4. QED
        BY <3>2, <3>3
  <2>3. QED
      BY <2>1, <2>2
<1>12. CASE StopTransmission
  <2>1. (ThreadShape /\ BufferShape)'
      BY <1>12 DEF StopTransmission, ThreadShape, BufferShape, ThreadType, BufferType,
         HwType
  <2>2. (ReadSoFar /\ CoreConsistent)'
      BY <1>12 DEF StopTransmission, ThreadShape, BufferShape, ReadSoFar, CoreConsistent,
         ThreadType, BufferType, HwType, CoreType
  <2>3. RomShape'
      BY <1>12 DEF StopTransmission, RomShape, NoRomLeaked, HwType, OhciType, ThreadType
  <2>4. RomTaken'
      BY <1>12 DEF StopTransmission, RomShape, RomTaken, NoRomLeaked, HwType,
         OhciType, ThreadType
  <2>5. QED
      BY <2>1, <2>2, <2>3, <2>4
<1>13. CASE Commit
  <2>1. (ThreadShape /\ BufferShape)'
      BY <1>13 DEF Commit, Unmasked, NewHeader, OldRom, ThreadShape, BufferShape,
         ThreadType, BufferType, HwType
  <2>2. (ReadSoFar /\ CoreConsistent)'
      BY <1>13 DEF Commit, Unmasked, NewHeader, OldRom, ThreadShape, BufferShape, ReadSoFar,
         CoreConsistent, ThreadType, BufferType, HwType, CoreType
  <2>3. RomShape'
      BY <1>13 DEF Commit, Unmasked, NewHeader, OldRom, RomShape, NoRomLeaked, HwType,
         OhciType, ThreadType
  <2>4. RomTaken'
      BY <1>13 DEF Commit, Unmasked, NewHeader, OldRom, RomShape, RomTaken, NoRomLeaked,
         HwType, OhciType, ThreadType
  <2>5. QED
      BY <2>1, <2>2, <2>3, <2>4
<1>14. CASE HandleBusReset
  <2>1. (ThreadShape /\ BufferShape)'
      BY <1>14 DEF HandleBusReset, End, ThreadShape, BufferShape, ThreadType, BufferType,
         HwType
  <2>2. (ReadSoFar /\ CoreConsistent)'
      BY <1>14 DEF HandleBusReset, End, ThreadShape, BufferShape, ReadSoFar, CoreConsistent,
         ThreadType, BufferType, HwType, CoreType
  <2>3. RomShape'
      BY <1>14 DEF HandleBusReset, End, RomShape, NoRomLeaked, HwType, OhciType, ThreadType
  <2>4. RomTaken'
      BY <1>14 DEF HandleBusReset, End, RomShape, RomTaken, NoRomLeaked, HwType,
         OhciType, ThreadType
  <2>5. QED
      BY <2>1, <2>2, <2>3, <2>4
<1>15. CASE SetConfigRom
  <2>1. (ThreadShape /\ BufferShape)'
      BY <1>15 DEF SetConfigRom, ThreadShape, BufferShape, ThreadType, BufferType, HwType
  <2>2. (ReadSoFar /\ CoreConsistent)'
      BY <1>15 DEF SetConfigRom, ThreadShape, BufferShape, ReadSoFar, CoreConsistent,
         ThreadType, BufferType, HwType, CoreType
  <2>3. RomShape'
      BY <1>15 DEF SetConfigRom, RomShape, NoRomLeaked, HwType, OhciType, ThreadType
  <2>4. RomTaken'
      BY <1>15 DEF SetConfigRom, RomShape, RomTaken, NoRomLeaked, HwType, OhciType,
         ThreadType
  <2>5. QED
      BY <2>1, <2>2, <2>3, <2>4
<1>16. CASE UNCHANGED resetvars
    BY <1>16 DEF resetvars, ThreadShape, BufferShape, ReadSoFar, CoreConsistent, RomShape,
       RomTaken, NoRomLeaked
<1>18. CASE ReadBadSelfId
    BY <1>18, EndKeeps DEF ReadBadSelfId
<1>19. CASE ReadSpuriousSelfId
  <2>1. CASE thread.ids = <<>>
      BY <1>19, <2>1, EndKeeps DEF ReadSpuriousSelfId
  <2>2. CASE thread.ids # <<>>
    <3>1. /\ thread.pc = "ids" /\ hw.gen \in Broken
          /\ thread' = [thread EXCEPT !.pc = "check"]
          /\ UNCHANGED <<hw, buffer, woken, ohci, zeroed, allocated, updates, updating,
                         early, scheduled, core>>
        BY <1>19, <2>2 DEF ReadSpuriousSelfId
    <3>2. (ThreadShape /\ ReadSoFar /\ CoreConsistent)'
        BY <3>1 DEF ThreadShape, ReadSoFar, CoreConsistent, ThreadType
    <3>3. QED
        BY <3>1, <3>2 DEF BufferShape, RomShape, RomTaken, NoRomLeaked, ThreadType
  <2>3. QED
      BY <2>1, <2>2
<1>20. CASE FreeRom
  <2>1. (ThreadShape /\ BufferShape)'
      BY <1>20 DEF FreeRom, ThreadShape, BufferShape, ThreadType
  <2>2. (ReadSoFar /\ CoreConsistent)'
      BY <1>20 DEF FreeRom, ReadSoFar, CoreConsistent, ThreadType
  <2>3. (RomShape /\ RomTaken)'
      BY <1>20 DEF FreeRom, RomShape, RomTaken, NoRomLeaked, ThreadType, OhciType
  <2>4. QED
      BY <2>1, <2>2, <2>3
<1>21. CASE ScheduleReset
    BY <1>21 DEF ScheduleReset, ThreadShape, BufferShape, ReadSoFar, CoreConsistent, RomShape,
       RomTaken, NoRomLeaked
<1>17. QED
    BY <1>1, <1>2, <1>3, <1>4, <1>5, <1>6, <1>7, <1>8, <1>9, <1>10, <1>11, <1>12, <1>13,
       <1>14, <1>15, <1>16, <1>18, <1>19, <1>20, <1>21
    DEF ResetNext, ScheduledReset, OtherReset, Hardware, Thread

-----------------------------------------------------------------------------
\* The report to fw_core_handle_bus_reset() is of one bus reset, although the buffer is
\* overwritten while the interrupt thread reads it, and whenever ohci_set_config_rom() is
\* called no buffer of the configuration ROM leaks, and the controller uses none that was
\* freed unless the driver was early, which RomFreedInUseOnlyEarly names.
THEOREM ResetCorrect == ResetSpec => []ResetExact
<1>1. ResetInv => ResetExact
    BY DEF ResetInv, ResetExact, SelfIdsConsistent, RomBuffersExact, RomNotFreedInUse,
           RomFreedInUseOnlyEarly, ReadSoFar, CoreConsistent, RomShape, RomTaken, NoRomLeaked,
           HwType, ResetTypeOK
<1>2. QED
    BY <1>1, ResetInitInv, ResetStep, PTL DEF ResetSpec

-----------------------------------------------------------------------------
(* Isochronous contexts: the inductive invariant.                          *)

AllocType ==
    [it : SUBSET ItContexts, ir : SUBSET IrContexts, channels : SUBSET IsoChannels,
     mc : SUBSET IsoChannels, mcAllocated : BOOLEAN]
CtxType ==
    [st : {"free", "allocating", "used"},
     type : {"none", "transmit", "receive", "multichannel"}, channel : IsoChannels \cup {0}]
AllocTyped == alloc \in AllocType /\ ctxs \in [IsoCtx -> CtxType] /\ shared \subseteq IsoChannels

\* Which contexts are in use, and what for.
CtxShape ==
    \A i \in IsoCtx :
        /\ ctxs[i].st = "free" => ctxs[i] = Unused
        /\ ctxs[i].type = "none" <=> ctxs[i].st = "free"
        /\ ctxs[i].type = "transmit" => i \in ItContexts
        /\ ctxs[i].type \in {"receive", "multichannel"} => i \in IrContexts
        /\ ctxs[i].type = "receive" => ctxs[i].channel \in IsoChannels
MaskShape ==
    /\ \A i \in ItContexts : i \in alloc.it <=> ctxs[i].st = "free"
    /\ \A i \in IrContexts : i \in alloc.ir <=> ctxs[i].st = "free"

\* There is one multichannel context at most, and it has channels only when it is in use.
MultichannelShape ==
    /\ \A i, j \in IsoCtx : ctxs[i].type = "multichannel" /\ ctxs[j].type = "multichannel" => i = j
    /\ alloc.mcAllocated <=> \E i \in IsoCtx : ctxs[i].type = "multichannel"
    /\ \A i \in IsoCtx : ctxs[i].type = "multichannel" /\ ctxs[i].st = "allocating" => alloc.mc = {}
    /\ ~alloc.mcAllocated => alloc.mc = {}

\* Context i receives channel c.
Receives(i, c) == ctxs[i].type = "receive" /\ ctxs[i].channel = c

ChannelShape ==
    \A c \in IsoChannels \ shared :
        /\ c \in alloc.channels <=> \A i \in IsoCtx : ~Receives(i, c)
        /\ c \in alloc.mc => \A i \in IsoCtx : ~Receives(i, c)
        /\ \A i, j \in IsoCtx : Receives(i, c) /\ Receives(j, c) => i = j

\* The inductive invariant of ContextsExact.
AllocInv == AllocTyped /\ CtxShape /\ MaskShape /\ MultichannelShape /\ ChannelShape

LEMMA UnusedTyped ==
    Unused \in CtxType /\ Unused.st = "free" /\ Unused.type = "none"
BY DEF Unused, CtxType

LEMMA AllocStart == AllocInit => AllocInv
<1> SUFFICES ASSUME AllocInit PROVE AllocInv
    OBVIOUS
<1>1. \A i \in IsoCtx : ctxs[i] = Unused
    BY DEF AllocInit
<1>2. /\ alloc \in AllocType /\ alloc.it = ItContexts /\ alloc.ir = IrContexts
      /\ alloc.channels = IsoChannels /\ alloc.mc = {} /\ alloc.mcAllocated = FALSE
    BY DEF AllocInit, AllocType
<1>3. AllocTyped
    BY <1>2, UnusedTyped DEF AllocInit, AllocTyped
<1>4. QED
    BY <1>1, <1>2, <1>3, UnusedTyped DEF AllocInv, CtxShape, MaskShape, MultichannelShape,
       ChannelShape, Receives, IsoCtx

\* Context i is taken.
LEMMA TakenTyped ==
    ASSUME AllocTyped, NEW i \in IsoCtx,
           NEW type \in {"transmit", "receive", "multichannel"}, NEW c \in IsoChannels \cup {0},
           Takes(i, type, c)
    PROVE  /\ ctxs' \in [IsoCtx -> CtxType]
           /\ ctxs'[i].st = "allocating" /\ ctxs'[i].type = type /\ ctxs'[i].channel = c
           /\ \A j \in IsoCtx : j # i => ctxs'[j] = ctxs[j]
<1> DEFINE e == [st |-> "allocating", type |-> type, channel |-> c]
<1>1. e \in CtxType /\ e.st = "allocating" /\ e.type = type /\ e.channel = c
    BY DEF CtxType
<1>2. ctxs' = [ctxs EXCEPT ![i] = e]
    BY DEF Takes
<1> HIDE DEF e
<1>3. QED
    BY <1>1, <1>2 DEF AllocTyped

LEMMA FreedTyped ==
    ASSUME AllocTyped, NEW i \in IsoCtx, ctxs' = Free(i)
    PROVE  /\ ctxs' \in [IsoCtx -> CtxType] /\ ctxs'[i] = Unused
           /\ \A j \in IsoCtx : j # i => ctxs'[j] = ctxs[j]
BY UnusedTyped DEF AllocTyped, Free

LEMMA TransmitStep ==
    ASSUME AllocInv, NEW i \in IsoCtx, i \in alloc.it,
           alloc' = [alloc EXCEPT !.it = alloc.it \ {i}], Takes(i, "transmit", 0), UNCHANGED shared
    PROVE  AllocInv'
<1>1. /\ alloc' \in AllocType /\ alloc'.it = alloc.it \ {i} /\ alloc'.ir = alloc.ir
      /\ alloc'.channels = alloc.channels /\ alloc'.mc = alloc.mc
      /\ alloc'.mcAllocated = alloc.mcAllocated
    BY DEF AllocInv, AllocTyped, AllocType
<1>2. /\ ctxs' \in [IsoCtx -> CtxType]
      /\ ctxs'[i].st = "allocating" /\ ctxs'[i].type = "transmit" /\ ctxs'[i].channel = 0
      /\ \A j \in IsoCtx : j # i => ctxs'[j] = ctxs[j]
    BY TakenTyped DEF AllocInv
<1>3. i \in ItContexts /\ i \notin IrContexts /\ ctxs[i].st = "free" /\ ctxs[i].type = "none"
    BY AllocAssumption DEF AllocInv, AllocTyped, AllocType, MaskShape, CtxShape
<1>4. AllocTyped'
    BY <1>1, <1>2 DEF AllocInv, AllocTyped
<1>5. CtxShape'
    BY <1>2, <1>3 DEF AllocInv, CtxShape
<1>6. MaskShape'
    BY <1>1, <1>2, <1>3 DEF AllocInv, MaskShape, IsoCtx
<1>7. MultichannelShape'
    BY <1>1, <1>2, <1>3 DEF AllocInv, MultichannelShape
<1>8. \A j \in IsoCtx, c \in IsoChannels : Receives(j, c)' <=> Receives(j, c)
    BY <1>2, <1>3 DEF Receives
<1>9. ChannelShape'
    BY <1>1, <1>8 DEF AllocInv, ChannelShape
<1>10. QED
    BY <1>4, <1>5, <1>6, <1>7, <1>9 DEF AllocInv

LEMMA ReceiveStep ==
    ASSUME AllocInv, NEW i \in IsoCtx, NEW c \in IsoChannels, i \in alloc.ir, c \in alloc.channels,
           alloc' = [alloc EXCEPT !.ir = alloc.ir \ {i}, !.channels = alloc.channels \ {c}],
           Takes(i, "receive", c),
           shared' = IF c \in alloc.mc THEN shared \cup {c} ELSE shared
    PROVE  AllocInv'
<1>1. /\ alloc' \in AllocType /\ alloc'.it = alloc.it /\ alloc'.ir = alloc.ir \ {i}
      /\ alloc'.channels = alloc.channels \ {c} /\ alloc'.mc = alloc.mc
      /\ alloc'.mcAllocated = alloc.mcAllocated
    BY DEF AllocInv, AllocTyped, AllocType
<1>2. /\ ctxs' \in [IsoCtx -> CtxType]
      /\ ctxs'[i].st = "allocating" /\ ctxs'[i].type = "receive" /\ ctxs'[i].channel = c
      /\ \A j \in IsoCtx : j # i => ctxs'[j] = ctxs[j]
    BY TakenTyped DEF AllocInv
<1>3. i \in IrContexts /\ i \notin ItContexts /\ ctxs[i].st = "free" /\ ctxs[i].type = "none"
    BY AllocAssumption DEF AllocInv, AllocTyped, AllocType, MaskShape, CtxShape
<1>4. AllocTyped'
    BY <1>1, <1>2 DEF AllocInv, AllocTyped
<1>5. CtxShape'
    BY <1>2, <1>3 DEF AllocInv, CtxShape
<1>6. MaskShape'
    BY <1>1, <1>2, <1>3 DEF AllocInv, MaskShape, IsoCtx
<1>7. MultichannelShape'
    BY <1>1, <1>2, <1>3 DEF AllocInv, MultichannelShape
<1>8. \A j \in IsoCtx, d \in IsoChannels : Receives(j, d)' <=> Receives(j, d) \/ (j = i /\ d = c)
    BY <1>2, <1>3 DEF Receives
<1>9. ChannelShape'
  <2> SUFFICES ASSUME NEW d \in IsoChannels, d \notin shared'
               PROVE  /\ d \in alloc'.channels <=> \A j \in IsoCtx : ~Receives(j, d)'
                      /\ d \in alloc'.mc => \A j \in IsoCtx : ~Receives(j, d)'
                      /\ \A j, k \in IsoCtx : Receives(j, d)' /\ Receives(k, d)' => j = k
      BY DEF ChannelShape, Receives
  <2>1. d \notin shared /\ (d = c => d \notin alloc.mc)
      OBVIOUS
  <2>2. QED
      BY <1>1, <1>8, <2>1 DEF AllocInv, ChannelShape
<1>10. QED
    BY <1>4, <1>5, <1>6, <1>7, <1>9 DEF AllocInv

LEMMA MultichannelStep ==
    ASSUME AllocInv, NEW i \in IsoCtx, i \in alloc.ir, ~alloc.mcAllocated,
           alloc' = [alloc EXCEPT !.ir = alloc.ir \ {i}, !.mcAllocated = TRUE],
           Takes(i, "multichannel", 0), UNCHANGED shared
    PROVE  AllocInv'
<1>1. /\ alloc' \in AllocType /\ alloc'.it = alloc.it /\ alloc'.ir = alloc.ir \ {i}
      /\ alloc'.channels = alloc.channels /\ alloc'.mc = alloc.mc
      /\ alloc'.mcAllocated
    BY DEF AllocInv, AllocTyped, AllocType
<1>2. /\ ctxs' \in [IsoCtx -> CtxType]
      /\ ctxs'[i].st = "allocating" /\ ctxs'[i].type = "multichannel" /\ ctxs'[i].channel = 0
      /\ \A j \in IsoCtx : j # i => ctxs'[j] = ctxs[j]
    BY TakenTyped DEF AllocInv
<1>3. i \in IrContexts /\ i \notin ItContexts /\ ctxs[i].st = "free" /\ ctxs[i].type = "none"
    BY AllocAssumption DEF AllocInv, AllocTyped, AllocType, MaskShape, CtxShape
<1>4. AllocTyped'
    BY <1>1, <1>2 DEF AllocInv, AllocTyped
<1>5. CtxShape'
    BY <1>2, <1>3 DEF AllocInv, CtxShape
<1>6. MaskShape'
    BY <1>1, <1>2, <1>3 DEF AllocInv, MaskShape, IsoCtx
<1>7. MultichannelShape'
    BY <1>1, <1>2, <1>3 DEF AllocInv, MultichannelShape
<1>8. \A j \in IsoCtx, c \in IsoChannels : Receives(j, c)' <=> Receives(j, c)
    BY <1>2, <1>3 DEF Receives
<1>9. ChannelShape'
    BY <1>1, <1>8 DEF AllocInv, ChannelShape
<1>10. QED
    BY <1>4, <1>5, <1>6, <1>7, <1>9 DEF AllocInv

LEMMA AllocatedStep ==
    ASSUME AllocInv, NEW i \in IsoCtx, Allocated(i)
    PROVE  AllocInv'
<1> DEFINE e == [ctxs[i] EXCEPT !.st = "used"]
<1>1. ctxs[i] \in CtxType /\ ctxs[i].st = "allocating" /\ ctxs' = [ctxs EXCEPT ![i] = e]
      /\ UNCHANGED shared
    BY DEF AllocInv, AllocTyped, Allocated
<1>2. e \in CtxType /\ e.st = "used" /\ e.type = ctxs[i].type /\ e.channel = ctxs[i].channel
    BY <1>1 DEF CtxType
<1> HIDE DEF e
<1>3. /\ ctxs' \in [IsoCtx -> CtxType] /\ ctxs'[i] = e
      /\ \A j \in IsoCtx : j # i => ctxs'[j] = ctxs[j]
    BY <1>1, <1>2 DEF AllocInv, AllocTyped
<1>4. /\ alloc' \in AllocType /\ alloc'.it = alloc.it /\ alloc'.ir = alloc.ir
      /\ alloc'.channels = alloc.channels /\ alloc'.mc \subseteq alloc.mc
      /\ alloc'.mcAllocated = alloc.mcAllocated
    BY DEF AllocInv, AllocTyped, AllocType, Allocated
<1>5. AllocTyped'
    BY <1>1, <1>3, <1>4 DEF AllocInv, AllocTyped
<1>6. CtxShape'
    BY <1>1, <1>2, <1>3 DEF AllocInv, CtxShape
<1>7. MaskShape'
    BY <1>1, <1>2, <1>3, <1>4 DEF AllocInv, MaskShape, IsoCtx
<1>8. MultichannelShape'
    BY <1>1, <1>2, <1>3, <1>4 DEF AllocInv, MultichannelShape
<1>9. \A j \in IsoCtx, c \in IsoChannels : Receives(j, c)' <=> Receives(j, c)
    BY <1>2, <1>3 DEF Receives
<1>10. ChannelShape'
    BY <1>1, <1>4, <1>9 DEF AllocInv, ChannelShape
<1>11. QED
    BY <1>5, <1>6, <1>7, <1>8, <1>10 DEF AllocInv

\* A context is given back, in use or not yet.
LEMMA GivenBackStep ==
    ASSUME AllocInv, NEW i \in IsoCtx, NEW freed \in BOOLEAN,
           ctxs[i].st = (IF freed THEN "used" ELSE "allocating"),
           alloc' = GivenBack(i, freed), ctxs' = Free(i), UNCHANGED shared
    PROVE  AllocInv'
<1>1. /\ ctxs' \in [IsoCtx -> CtxType] /\ ctxs'[i] = Unused
      /\ \A j \in IsoCtx : j # i => ctxs'[j] = ctxs[j]
    BY FreedTyped DEF AllocInv
<1>2. /\ ctxs[i] \in CtxType /\ ctxs[i].type \in {"transmit", "receive", "multichannel"}
      /\ ctxs[i].st # "free"
    BY DEF AllocInv, AllocTyped, CtxShape, CtxType
<1>3. CtxShape'
    BY <1>1, UnusedTyped DEF AllocInv, CtxShape
<1>4. \A j \in IsoCtx, c \in IsoChannels : Receives(j, c)' <=> Receives(j, c) /\ j # i
    BY <1>1, UnusedTyped DEF Receives
<1>5. CASE ctxs[i].type = "transmit"
  <2>1. alloc' = [alloc EXCEPT !.it = alloc.it \cup {i}] /\ i \in ItContexts
      BY <1>5 DEF GivenBack, AllocInv, CtxShape
  <2>2. /\ alloc' \in AllocType /\ alloc'.it = alloc.it \cup {i} /\ alloc'.ir = alloc.ir
        /\ alloc'.channels = alloc.channels /\ alloc'.mc = alloc.mc
        /\ alloc'.mcAllocated = alloc.mcAllocated
      BY <2>1 DEF AllocInv, AllocTyped, AllocType
  <2>3. AllocTyped'
      BY <1>1, <2>2 DEF AllocInv, AllocTyped
  <2>4. MaskShape'
      BY <1>1, <2>1, <2>2, UnusedTyped, AllocAssumption DEF AllocInv, MaskShape, IsoCtx
  <2>5. MultichannelShape'
      BY <1>1, <1>5, <2>2, UnusedTyped DEF AllocInv, MultichannelShape
  <2>6. \A j \in IsoCtx, c \in IsoChannels : Receives(j, c)' <=> Receives(j, c)
      BY <1>4, <1>5 DEF Receives
  <2>7. ChannelShape'
      BY <2>2, <2>6 DEF AllocInv, ChannelShape
  <2>8. QED
      BY <1>3, <2>3, <2>4, <2>5, <2>7 DEF AllocInv
<1>6. CASE ctxs[i].type = "receive"
  <2> DEFINE c == ctxs[i].channel
  <2>1. alloc' = [alloc EXCEPT !.ir = alloc.ir \cup {i}, !.channels = alloc.channels \cup {c}]
        /\ i \in IrContexts
      BY <1>6 DEF GivenBack, AllocInv, CtxShape
  <2>0. c \in IsoChannels
      BY <1>6 DEF AllocInv, CtxShape
  <2> HIDE DEF c
  <2>2. /\ alloc' \in AllocType /\ alloc'.it = alloc.it /\ alloc'.ir = alloc.ir \cup {i}
        /\ alloc'.channels = alloc.channels \cup {c} /\ alloc'.mc = alloc.mc
        /\ alloc'.mcAllocated = alloc.mcAllocated
    <3>1. /\ alloc.it \in SUBSET ItContexts /\ alloc.ir \cup {i} \in SUBSET IrContexts
          /\ alloc.channels \cup {c} \in SUBSET IsoChannels /\ alloc.mc \in SUBSET IsoChannels
          /\ alloc.mcAllocated \in BOOLEAN
        BY <2>0, <2>1 DEF AllocInv, AllocTyped, AllocType
    <3>2. alloc' = [it |-> alloc.it, ir |-> alloc.ir \cup {i},
                    channels |-> alloc.channels \cup {c}, mc |-> alloc.mc,
                    mcAllocated |-> alloc.mcAllocated]
        BY <2>1 DEF AllocInv, AllocTyped, AllocType
    <3>3. QED
        BY <3>1, <3>2 DEF AllocType
  <2>3. AllocTyped'
      BY <1>1, <2>2 DEF AllocInv, AllocTyped
  <2>4. MaskShape'
      BY <1>1, <2>1, <2>2, UnusedTyped, AllocAssumption DEF AllocInv, MaskShape, IsoCtx
  <2>5. MultichannelShape'
      BY <1>1, <1>6, <2>2, UnusedTyped DEF AllocInv, MultichannelShape
  <2>6. \A d \in IsoChannels : Receives(i, d) <=> d = c
      BY <1>6 DEF Receives, c
  <2>7. ChannelShape'
    <3> SUFFICES ASSUME NEW d \in IsoChannels, d \notin shared
                 PROVE  /\ d \in alloc'.channels <=> \A j \in IsoCtx : ~Receives(j, d)'
                        /\ d \in alloc'.mc => \A j \in IsoCtx : ~Receives(j, d)'
                        /\ \A j, k \in IsoCtx : Receives(j, d)' /\ Receives(k, d)' => j = k
        BY DEF ChannelShape, Receives
    <3>1. /\ d \in alloc.channels <=> \A j \in IsoCtx : ~Receives(j, d)
          /\ d \in alloc.mc => \A j \in IsoCtx : ~Receives(j, d)
          /\ \A j, k \in IsoCtx : Receives(j, d) /\ Receives(k, d) => j = k
        BY DEF AllocInv, ChannelShape
    <3>2. QED
        BY <1>4, <2>2, <2>6, <3>1
  <2>8. QED
      BY <1>3, <2>3, <2>4, <2>5, <2>7 DEF AllocInv
<1>7. CASE ctxs[i].type = "multichannel"
  <2> DEFINE C == IF freed THEN alloc.channels \cup alloc.mc ELSE alloc.channels
             M == IF freed THEN {} ELSE alloc.mc
  <2>1. alloc' = [alloc EXCEPT !.ir = alloc.ir \cup {i}, !.mcAllocated = FALSE, !.channels = C, !.mc = M]
        /\ i \in IrContexts
      BY <1>7 DEF GivenBack, AllocInv, CtxShape
  <2>0. M = {} /\ C \subseteq IsoChannels /\ C \subseteq alloc.channels \cup alloc.mc
        /\ alloc.channels \subseteq C
      BY <1>7 DEF AllocInv, MultichannelShape, AllocTyped, AllocType
  <2> HIDE DEF C, M
  <2>2. /\ alloc' \in AllocType /\ alloc'.it = alloc.it /\ alloc'.ir = alloc.ir \cup {i}
        /\ alloc'.channels = C /\ alloc'.mc = {}
        /\ ~alloc'.mcAllocated
    <3>1. /\ alloc.it \in SUBSET ItContexts /\ alloc.ir \cup {i} \in SUBSET IrContexts
          /\ C \in SUBSET IsoChannels /\ M \in SUBSET IsoChannels /\ FALSE \in BOOLEAN
        BY <2>0, <2>1 DEF AllocInv, AllocTyped, AllocType
    <3>2. alloc' = [it |-> alloc.it, ir |-> alloc.ir \cup {i}, channels |-> C, mc |-> M,
                    mcAllocated |-> FALSE]
        BY <2>1 DEF AllocInv, AllocTyped, AllocType
    <3>3. QED
        BY <2>0, <3>1, <3>2 DEF AllocType
  <2>3. AllocTyped'
      BY <1>1, <2>2 DEF AllocInv, AllocTyped
  <2>4. MaskShape'
      BY <1>1, <2>1, <2>2, UnusedTyped, AllocAssumption DEF AllocInv, MaskShape, IsoCtx
  <2>5. MultichannelShape'
      BY <1>1, <1>7, <2>2, UnusedTyped DEF AllocInv, MultichannelShape
  <2>6. \A j \in IsoCtx, c \in IsoChannels : Receives(j, c)' <=> Receives(j, c)
      BY <1>4, <1>7 DEF Receives
  <2>7. ChannelShape'
      BY <2>0, <2>2, <2>6 DEF AllocInv, ChannelShape
  <2>8. QED
      BY <1>3, <2>3, <2>4, <2>5, <2>7 DEF AllocInv
<1>8. QED
    BY <1>2, <1>5, <1>6, <1>7

LEMMA SetChannelsStep ==
    ASSUME AllocInv, NEW i \in IsoCtx, NEW wanted \in SUBSET IsoChannels,
           ohci_set_iso_channels(i, wanted)
    PROVE  AllocInv'
<1>1. /\ ctxs[i].st = "used" /\ ctxs[i].type = "multichannel"
      /\ wanted \subseteq alloc.channels \cup alloc.mc
      /\ alloc' = [alloc EXCEPT !.mc = wanted] /\ UNCHANGED <<ctxs, shared>>
    BY DEF ohci_set_iso_channels
<1>2. /\ alloc' \in AllocType /\ alloc'.it = alloc.it /\ alloc'.ir = alloc.ir
      /\ alloc'.channels = alloc.channels /\ alloc'.mc = wanted
      /\ alloc'.mcAllocated = alloc.mcAllocated
    BY <1>1 DEF AllocInv, AllocTyped, AllocType
<1>3. AllocTyped' /\ CtxShape' /\ MaskShape'
    BY <1>1, <1>2 DEF AllocInv, AllocTyped, CtxShape, MaskShape
<1>4. MultichannelShape'
  <2>1. \A j \in IsoCtx : ctxs[j].type = "multichannel" => j = i
      BY <1>1 DEF AllocInv, MultichannelShape
  <2>2. QED
      BY <1>1, <1>2, <2>1 DEF AllocInv, MultichannelShape
<1>5. ChannelShape'
    BY <1>1, <1>2 DEF AllocInv, ChannelShape, Receives
<1>6. QED
    BY <1>3, <1>4, <1>5 DEF AllocInv

LEMMA AllocStep == AllocInv /\ [AllocNext]_allocvars => AllocInv'
<1> SUFFICES ASSUME AllocInv, [AllocNext]_allocvars PROVE AllocInv'
    OBVIOUS
<1>1. ASSUME NEW i \in IsoCtx, NEW c \in IsoChannels, ohci_allocate_iso_context(i, c)
      PROVE  AllocInv'
    BY <1>1, TransmitStep, ReceiveStep, MultichannelStep DEF ohci_allocate_iso_context
<1>2. ASSUME NEW i \in IsoCtx, Allocated(i) PROVE AllocInv'
    BY <1>2, AllocatedStep
<1>3. ASSUME NEW i \in IsoCtx, AllocationFails(i) PROVE AllocInv'
    BY <1>3, GivenBackStep DEF AllocationFails
<1>4. ASSUME NEW i \in IsoCtx, FreesContext(i) PROVE AllocInv'
    BY <1>4, GivenBackStep DEF FreesContext
<1>5. ASSUME NEW i \in IsoCtx, NEW wanted \in SUBSET IsoChannels, ohci_set_iso_channels(i, wanted)
      PROVE  AllocInv'
    BY <1>5, SetChannelsStep
<1>6. CASE UNCHANGED allocvars
    BY <1>6 DEF allocvars, AllocInv, AllocTyped, CtxShape, MaskShape, MultichannelShape,
                ChannelShape, Receives
<1>7. QED
    BY <1>1, <1>2, <1>3, <1>4, <1>5, <1>6 DEF AllocNext

\* A set with no two elements.
LEMMA AtMostOne ==
    ASSUME NEW S, \A x, y \in S : x = y
    PROVE  Cardinality(S) = IF S = {} THEN 0 ELSE 1
<1>1. CASE S = {}
    BY <1>1, FS_EmptySet
<1>2. CASE S # {}
  <2>1. PICK x \in S : TRUE
      BY <1>2
  <2>2. S = {x}
      BY <2>1
  <2>3. Cardinality(S) = 1
      BY <2>2, FS_Singleton
  <2>4. QED
      BY <1>2, <2>3
<1>3. QED
    BY <1>1, <1>2

LEMMA AllocInvMeans == AllocInv => ContextsExact
<1> SUFFICES ASSUME AllocInv PROVE ContextsExact
    OBVIOUS
<1>1. \A i \in IsoCtx : ctxs[i].st = "free" <=> ctxs[i] = Unused
    BY UnusedTyped DEF AllocInv, CtxShape
<1>2. alloc.it = {i \in ItContexts : ctxs[i] = Unused}
    BY <1>1 DEF AllocInv, AllocTyped, AllocType, MaskShape, IsoCtx
<1>3. alloc.ir = {i \in IrContexts : ctxs[i] = Unused}
    BY <1>1 DEF AllocInv, AllocTyped, AllocType, MaskShape, IsoCtx
<1>4. Cardinality(Of("multichannel")) = (IF alloc.mcAllocated THEN 1 ELSE 0)
  <2>1. /\ \A i, j \in Of("multichannel") : i = j
        /\ alloc.mcAllocated <=> Of("multichannel") # {}
      BY DEF Of, AllocInv, MultichannelShape
  <2>2. QED
      BY <2>1, AtMostOne
<1>5. ASSUME NEW c \in IsoChannels \ shared
      PROVE  /\ c \in alloc.channels <=> Receivers(c) = {}
             /\ c \in alloc.mc => Receivers(c) = {} /\ alloc.mcAllocated
             /\ Cardinality(Receivers(c)) <= 1
  <2>1. \A i : i \in Receivers(c) <=> i \in IsoCtx /\ Receives(i, c)
      BY DEF Receivers, Of, Receives
  <2>2. /\ c \in alloc.channels <=> Receivers(c) = {}
        /\ c \in alloc.mc => Receivers(c) = {}
        /\ \A i, j \in Receivers(c) : i = j
      BY <2>1 DEF AllocInv, ChannelShape
  <2>3. c \in alloc.mc => alloc.mcAllocated
      BY DEF AllocInv, MultichannelShape
  <2>4. Cardinality(Receivers(c)) = IF Receivers(c) = {} THEN 0 ELSE 1
      BY <2>2, AtMostOne
  <2>5. QED
      BY <2>2, <2>3, <2>4
<1>6. QED
    BY <1>2, <1>3, <1>4, <1>5 DEF ContextsExact

\* Whoever allocates, fails to, frees and sets channels at the same time: a context has one
\* user, one is for several channels at most, and each channel is received by one context
\* and is free when none receives it, except for channels given away while the multichannel
\* context had them; about ohci_allocate_iso_context(), ohci_free_iso_context() and
\* ohci_set_iso_channels().
THEOREM ContextsCorrect == AllocSpec => []ContextsExact
BY AllocStart, AllocStep, AllocInvMeans, PTL DEF AllocSpec
=============================================================================
