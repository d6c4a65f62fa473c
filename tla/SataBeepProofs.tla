---- MODULE SataBeepProofs ----
\* Proofs about the SATA slots and the boot beep, for any number of callers and of slots.
EXTENDS SataBeep, TLAPS

USE SlotsAssumption

CallerStep(c) ==
    \/ ReadSlots(c) \/ CheckSlot(c) \/ GetSlot(c) \/ PrintSlot(c)
    \/ SelectByte(c) \/ beeper_read(c) \/ ReadByte(c) \/ WriteByte(c)

Maps == {"null", "mapped", "unmapped"}

\* The types of what the clock and the boot beep share, and of the slots.
ByteTypes ==
    /\ index \in {"beep", "time"} /\ cmos \in [{"beep", "time"} -> Byte]
    /\ rtc \in BOOLEAN /\ io \in [Callers -> Byte] /\ time \in {"time", "new"}
SlotTypes ==
    /\ base0 \in [1..Slots -> Maps] /\ slot \in 1..Slots
    /\ pc \in [Callers -> {"idle", "in", "out"} \cup InSlots]
    /\ i \in [Callers -> 1..Slots]
    /\ val \in [Callers -> BOOLEAN] /\ whole \in [Callers -> BOOLEAN]

\* Until the clock driver and a caller meet, port 0x70 selects the byte of the one that is
\* between its ports, and each byte holds what its owner means it to hold.
Selected ==
    ~crossed =>
        /\ rtc => index = "time" /\ \A c \in Callers : ~BetweenPorts(c)
        /\ \A c \in Callers : BetweenPorts(c) => index = "beep"
        /\ \A c \in Callers : pc[c] = "out" => io[c] = "beep"
        /\ cmos["beep"] = "beep" /\ cmos["time"] = time

\* Mappings only come before the module is loaded and only go after that, so a slot that
\* is mapped when it is printed was mapped when it was checked.
Mapped ==
    /\ \A c \in Callers : pc[c] \in InSlots => module \in {"hwinit", "loaded", "unmap", "files"}
    /\ \A c \in Callers : whole[c] => module \in {"loaded", "unmap", "files"} /\ pc[c] \in InSlots
    /\ module \in {"absent", "hwinit", "loaded"} =>
          /\ \A s \in 1..Slots : base0[s] # "unmapped"
          /\ \A c \in Callers : pc[c] = "get" => base0[i[c]] = "mapped"
    /\ \A c \in Callers : pc[c] = "fault" => module \in {"unmap", "files"}
    /\ \A c \in Callers :
          whole[c] /\ pc[c] = "print" /\ base0[i[c]] = "mapped" => val[c] = Power[i[c]]

SataInv == ByteTypes /\ SlotTypes /\ Selected /\ Mapped

LEMMA SataInit == Init => SataInv
<1> SUFFICES ASSUME Init PROVE SataInv
  OBVIOUS
<1>1. ByteTypes
  BY DEF Init, ByteTypes, Byte
<1>2. SlotTypes
  BY DEF Init, SlotTypes, Maps
<1>3. Selected
  BY DEF Init, Selected, BetweenPorts
<1>4. Mapped
  BY DEF Init, Mapped, InSlots
<1> QED
  BY <1>1, <1>2, <1>3, <1>4 DEF SataInv

LEMMA ByteTypesStep == ByteTypes /\ [Next]_vars => ByteTypes'
<1> SUFFICES ASSUME ByteTypes, [Next]_vars PROVE ByteTypes'
  OBVIOUS
<1> USE DEF ByteTypes, Byte, WithBootBit, vars, bytes, mapping, threads, history, At, Return
<1>1. ASSUME NEW c \in Callers, CallerStep(c)
      PROVE  ByteTypes'
  <2>1. CASE ReadSlots(c)
    BY <2>1 DEF ReadSlots
  <2>2. CASE CheckSlot(c)
    BY <2>2 DEF CheckSlot
  <2>3. CASE GetSlot(c)
    BY <2>3 DEF GetSlot
  <2>4. CASE PrintSlot(c)
    BY <2>4 DEF PrintSlot
  <2>5. CASE SelectByte(c)
    BY <2>5 DEF SelectByte
  <2>6. CASE beeper_read(c)
    BY <2>6 DEF beeper_read
  <2>7. CASE ReadByte(c)
    BY <2>7 DEF ReadByte
  <2>8. CASE WriteByte(c)
    BY <2>8 DEF WriteByte
  <2> QED
    BY <1>1, <2>1, <2>2, <2>3, <2>4, <2>5, <2>6, <2>7, <2>8 DEF CallerStep
<1>2. CASE sataio_beep_init
  BY <1>2 DEF sataio_beep_init
<1>3. CASE hwinit
  BY <1>3 DEF hwinit
<1>4. CASE sataio_beep_exit
  BY <1>4 DEF sataio_beep_exit
<1>5. CASE hw_unioremap
  BY <1>5 DEF hw_unioremap
<1>6. CASE procfs_remove
  BY <1>6 DEF procfs_remove
<1>7. CASE RtcSelect
  BY <1>7 DEF RtcSelect
<1>8. CASE RtcAccess
  BY <1>8 DEF RtcAccess
<1>9. CASE UNCHANGED vars
  BY <1>9
<1> QED
  BY <1>1, <1>2, <1>3, <1>4, <1>5, <1>6, <1>7, <1>8, <1>9 DEF Next, CallerStep

LEMMA SlotTypesStep == SlotTypes /\ [Next]_vars => SlotTypes'
<1> SUFFICES ASSUME SlotTypes, [Next]_vars PROVE SlotTypes'
  OBVIOUS
<1> USE DEF SlotTypes, Maps, InSlots, NextSlot, vars, bytes, mapping, threads, history, At,
  Return
<1>1. ASSUME NEW c \in Callers, CallerStep(c)
      PROVE  SlotTypes'
  <2>1. CASE ReadSlots(c)
    BY <2>1 DEF ReadSlots
  <2>2. CASE CheckSlot(c)
    BY <2>2 DEF CheckSlot
  <2>3. CASE GetSlot(c)
    BY <2>3 DEF GetSlot
  <2>4. CASE PrintSlot(c)
    <3>1. CASE i[c] < Slots
      <4>1. i[c] + 1 \in 1..Slots
        BY <3>1
      <4>2. i' = [i EXCEPT ![c] = i[c] + 1] /\ pc' = [pc EXCEPT ![c] = "check"]
        BY <2>4, <3>1 DEF PrintSlot
      <4>3. i' \in [Callers -> 1..Slots] /\ pc' \in [Callers -> {"idle", "in", "out"} \cup InSlots]
        BY <4>1, <4>2
      <4> QED
        BY <2>4, <3>1, <4>3 DEF PrintSlot
    <3>2. CASE ~(i[c] < Slots)
      <4>1. Return(c) /\ UNCHANGED mapping
        BY <2>4, <3>2 DEF PrintSlot
      <4>2. i' \in [Callers -> 1..Slots]
        BY <4>1
      <4> QED
        BY <4>1, <4>2
    <3> QED
      BY <3>1, <3>2
  <2>5. CASE SelectByte(c)
    BY <2>5 DEF SelectByte
  <2>6. CASE beeper_read(c)
    BY <2>6 DEF beeper_read
  <2>7. CASE ReadByte(c)
    BY <2>7 DEF ReadByte
  <2>8. CASE WriteByte(c)
    BY <2>8 DEF WriteByte
  <2> QED
    BY <1>1, <2>1, <2>2, <2>3, <2>4, <2>5, <2>6, <2>7, <2>8 DEF CallerStep
<1>2. CASE sataio_beep_init
  BY <1>2 DEF sataio_beep_init
<1>3. CASE hwinit
  BY <1>3 DEF hwinit
<1>4. CASE sataio_beep_exit
  BY <1>4 DEF sataio_beep_exit
<1>5. CASE hw_unioremap
  BY <1>5 DEF hw_unioremap
<1>6. CASE procfs_remove
  BY <1>6 DEF procfs_remove
<1>7. CASE RtcSelect
  BY <1>7 DEF RtcSelect
<1>8. CASE RtcAccess
  BY <1>8 DEF RtcAccess
<1>9. CASE UNCHANGED vars
  BY <1>9
<1> QED
  BY <1>1, <1>2, <1>3, <1>4, <1>5, <1>6, <1>7, <1>8, <1>9 DEF Next, CallerStep

LEMMA SelectedStep == ByteTypes /\ SlotTypes /\ Selected /\ [Next]_vars => Selected'
<1> SUFFICES ASSUME ByteTypes /\ SlotTypes /\ Selected, [Next]_vars PROVE Selected'
  OBVIOUS
<1> USE DEF ByteTypes, SlotTypes, InSlots, Byte, Selected, BetweenPorts, WithBootBit, vars,
  bytes, mapping, threads, history, At, Return
<1>1. ASSUME NEW c \in Callers, CallerStep(c)
      PROVE  Selected'
  <2>1. CASE ReadSlots(c)
    BY <2>1 DEF ReadSlots
  <2>2. CASE CheckSlot(c)
    BY <2>2 DEF CheckSlot
  <2>3. CASE GetSlot(c)
    BY <2>3 DEF GetSlot
  <2>4. CASE PrintSlot(c)
    BY <2>4 DEF PrintSlot
  <2>5. CASE SelectByte(c)
    BY <2>5 DEF SelectByte
  <2>6. CASE beeper_read(c)
    BY <2>6 DEF beeper_read
  <2>7. CASE ReadByte(c)
    BY <2>7 DEF ReadByte
  <2>8. CASE WriteByte(c)
    BY <2>8 DEF WriteByte
  <2> QED
    BY <1>1, <2>1, <2>2, <2>3, <2>4, <2>5, <2>6, <2>7, <2>8 DEF CallerStep
<1>2. CASE sataio_beep_init
  BY <1>2 DEF sataio_beep_init
<1>3. CASE hwinit
  BY <1>3 DEF hwinit
<1>4. CASE sataio_beep_exit
  BY <1>4 DEF sataio_beep_exit
<1>5. CASE hw_unioremap
  BY <1>5 DEF hw_unioremap
<1>6. CASE procfs_remove
  BY <1>6 DEF procfs_remove
<1>7. CASE RtcSelect
  BY <1>7 DEF RtcSelect
<1>8. CASE RtcAccess
  BY <1>8 DEF RtcAccess
<1>9. CASE UNCHANGED vars
  BY <1>9
<1> QED
  BY <1>1, <1>2, <1>3, <1>4, <1>5, <1>6, <1>7, <1>8, <1>9 DEF Next, CallerStep

LEMMA MappedStep == SlotTypes /\ Mapped /\ [Next]_vars => Mapped'
<1> SUFFICES ASSUME SlotTypes /\ Mapped, [Next]_vars PROVE Mapped'
  OBVIOUS
<1> USE DEF SlotTypes, Maps, InSlots, Mapped, NextSlot, vars, bytes, mapping, threads,
  history, At, Return
<1>1. ASSUME NEW c \in Callers, CallerStep(c)
      PROVE  Mapped'
  <2>1. CASE ReadSlots(c)
    BY <2>1 DEF ReadSlots
  <2>2. CASE CheckSlot(c)
    BY <2>2 DEF CheckSlot
  <2>3. CASE GetSlot(c)
    <3>1. CASE base0[i[c]] = "mapped"
      <4>1. /\ pc' = [pc EXCEPT ![c] = "print"] /\ val' = [val EXCEPT ![c] = Power[i[c]]]
            /\ UNCHANGED <<base0, module, i, whole>> /\ pc[c] = "get"
        BY <2>3, <3>1 DEF GetSlot
      <4>2. ASSUME NEW d \in Callers, whole[d], pc'[d] = "print", base0[i[d]] = "mapped"
            PROVE  val'[d] = Power[i[d]]
        <5>1. CASE d = c
          BY <4>1, <5>1, Zenon
        <5>2. CASE d # c
          <6>1. pc[d] = "print" /\ val'[d] = val[d]
            BY <4>1, <4>2, <5>2, Zenon
          <6> QED
            BY <6>1, <4>2, Zenon
        <5> QED
          BY <5>1, <5>2
      <4> QED
        BY <4>1, <4>2
    <3>2. CASE base0[i[c]] # "mapped"
      BY <2>3, <3>2 DEF GetSlot
    <3> QED
      BY <3>1, <3>2
  <2>4. CASE PrintSlot(c)
    <3>1. \A d \in Callers \ {c} : pc'[d] = pc[d] /\ i'[d] = i[d] /\ val'[d] = val[d] /\ whole'[d] = whole[d]
      BY <2>4 DEF PrintSlot
    <3>2. pc'[c] \in {"check", "idle"} /\ (pc'[c] = "idle" => ~whole'[c]) /\ (pc'[c] = "check" => whole'[c] = whole[c])
      BY <2>4 DEF PrintSlot
    <3>3. UNCHANGED mapping /\ pc[c] = "print"
      BY <2>4 DEF PrintSlot
    <3>4. ASSUME NEW d \in Callers, whole'[d], pc'[d] = "print", base0'[i'[d]] = "mapped"
          PROVE  val'[d] = Power[i'[d]]
      <4>1. d \in Callers \ {c}
        BY <3>2, <3>4
      <4>2. whole[d] /\ pc[d] = "print" /\ base0[i[d]] = "mapped"
        BY <3>1, <3>3, <3>4, <4>1, Zenon
      <4>3. val[d] = Power[i[d]]
        BY <4>2, Zenon
      <4> QED
        BY <3>1, <4>1, <4>3, Zenon
    <3> QED
      BY <3>1, <3>2, <3>3, <3>4
  <2>5. CASE SelectByte(c)
    BY <2>5 DEF SelectByte
  <2>6. CASE beeper_read(c)
    BY <2>6 DEF beeper_read
  <2>7. CASE ReadByte(c)
    BY <2>7 DEF ReadByte
  <2>8. CASE WriteByte(c)
    BY <2>8 DEF WriteByte
  <2> QED
    BY <1>1, <2>1, <2>2, <2>3, <2>4, <2>5, <2>6, <2>7, <2>8 DEF CallerStep
<1>2. CASE sataio_beep_init
  BY <1>2 DEF sataio_beep_init
<1>3. CASE hwinit
  BY <1>3 DEF hwinit
<1>4. CASE sataio_beep_exit
  BY <1>4 DEF sataio_beep_exit
<1>5. CASE hw_unioremap
  BY <1>5 DEF hw_unioremap
<1>6. CASE procfs_remove
  BY <1>6 DEF procfs_remove
<1>7. CASE RtcSelect
  BY <1>7 DEF RtcSelect
<1>8. CASE RtcAccess
  BY <1>8 DEF RtcAccess
<1>9. CASE UNCHANGED vars
  BY <1>9
<1> QED
  BY <1>1, <1>2, <1>3, <1>4, <1>5, <1>6, <1>7, <1>8, <1>9 DEF Next, CallerStep

LEMMA SataStep == SataInv /\ [Next]_vars => SataInv'
BY ByteTypesStep, SlotTypesStep, SelectedStep, MappedStep DEF SataInv

\* The inductive invariant holds for any number of callers and slots.
THEOREM SataCorrect == Spec => []SataInv
BY SataInit, SataStep, PTL DEF Spec

\* However many callers write and read the boot beep, the clock keeps the time it was
\* given and the boot byte its other bits, as long as no caller meets the clock driver
\* between its ports (beeper_write, beeper_read).
THEOREM BootBitOnly == Spec => []OnlyTheBootBit
<1>1. SataInv => OnlyTheBootBit
  BY DEF SataInv, ByteTypes, Selected, OnlyTheBootBit
<1> QED
  BY <1>1, SataCorrect, PTL

\* For any number of slots and readers a read that began after hwinit shows each mapped
\* slot's own switch, and meets a mapping that is gone only during removal
\* (sata_satate_read, sataio_beep_exit).
THEOREM SlotsAreShown == Spec => []SlotsShown
<1>1. SataInv => SlotsShown
  BY DEF SataInv, Mapped, SlotsShown
<1> QED
  BY <1>1, SataCorrect, PTL
====
