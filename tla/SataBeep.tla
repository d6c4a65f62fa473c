---- MODULE SataBeep ----
\* The rest of ug_sataio_beeper.c: the proc file that shows the SATA slots, from registers
\* that are mapped after the file is there and unmapped before it goes, and the boot beep,
\* one bit of a CMOS byte behind the ports 0x70 and 0x71, which the real-time clock driver
\* uses as well.  The callers take no lock.
EXTENDS Naturals

CONSTANTS
    Callers,  \* threads that read or write the two files
    Slots,    \* sata_io_num of the product
    Power     \* the switch of each slot

ASSUME SlotsAssumption == Slots \in Nat \ {0} /\ Power \in [1..Slots -> BOOLEAN]

\* What the bits of a CMOS byte hold, the bit of the boot beep apart; "spoilt" is a byte of
\* the clock with that bit changed.
Byte == {"beep", "time", "new", "spoilt"}

WithBootBit(byte) == IF byte = "beep" THEN "beep" ELSE "spoilt"

VARIABLES
    index, cmos,    \* the byte that port 0x70 selects; the bytes behind port 0x71
    rtc,            \* the clock driver is between its two ports
    base0, slot,    \* the mapping of each slot's register; the slot hwinit or hw_unioremap is at
    module,         \* how far init and exit are
    pc, i, val,     \* the callers: place, slot, the local val of sata_satate_read
    io,             \* what a caller read from port 0x71, to write it back
    time, crossed,  \* history: the byte the clock driver means to have; it met a caller between
    whole           \* its ports; the read began when the module was loaded

bytes   == <<index, cmos, rtc>>
mapping == <<base0, slot, module>>
threads == <<pc, i, val, io>>
history == <<time, crossed, whole>>
vars == <<bytes, mapping, threads, history>>

Init ==
    /\ index = "time" /\ cmos = [byte \in {"beep", "time"} |-> byte] /\ rtc = FALSE
    /\ base0 = [s \in 1..Slots |-> "null"] /\ slot = 1
    /\ module = "absent"
    /\ pc = [c \in Callers |-> "idle"] /\ i = [c \in Callers |-> 1]
    /\ val = [c \in Callers |-> FALSE] /\ io = [c \in Callers |-> "beep"]
    /\ time = "time" /\ crossed = FALSE /\ whole = [c \in Callers |-> FALSE]

At(c, place) == pc' = [pc EXCEPT ![c] = place]

\* The call returns; its local variables are gone.
Return(c) ==
    /\ At(c, "idle")
    /\ i' = [i EXCEPT ![c] = 1] /\ val' = [val EXCEPT ![c] = FALSE]
    /\ io' = [io EXCEPT ![c] = "beep"] /\ whole' = [whole EXCEPT ![c] = FALSE]

InSlots == {"check", "get", "print", "fault"}
BetweenPorts(c) == pc[c] \in {"in", "out"}

----------------------------------------------------------------------------
\* Loading and removing the module.

\* procfs_create comes before hwinit: the files can be read from here on.
sataio_beep_init ==
    /\ module = "absent"
    /\ module' = "hwinit"
    /\ UNCHANGED <<bytes, base0, slot, threads, history>>

\* The loops over the slots go on to the next one, and then to the next part of the module.
NextSlot(part) ==
    IF slot < Slots THEN slot' = slot + 1 /\ UNCHANGED module
                    ELSE slot' = 1 /\ module' = part

\* One ioremap; it may fail, and nobody looks.
hwinit ==
    /\ module = "hwinit"
    /\ base0' \in {base0, [base0 EXCEPT ![slot] = "mapped"]}
    /\ NextSlot("loaded")
    /\ UNCHANGED <<bytes, threads, history>>

sataio_beep_exit ==
    /\ module = "loaded"
    /\ module' = "unmap"
    /\ UNCHANGED <<bytes, base0, slot, threads, history>>

\* hw_unioremap, before the files go: the mapping is taken away, then the pointer.
hw_unioremap ==
    /\ module = "unmap"
    /\ IF base0[slot] = "mapped"
         THEN base0' = [base0 EXCEPT ![slot] = "unmapped"] /\ UNCHANGED <<slot, module>>
         ELSE base0' = [base0 EXCEPT ![slot] = "null"] /\ NextSlot("files")
    /\ UNCHANGED <<bytes, threads, history>>

\* Each file goes when nobody is inside it.
procfs_remove ==
    /\ \/ module = "files" /\ module' = "beeper" /\ \A c \in Callers : pc[c] \notin InSlots
       \/ module = "beeper" /\ module' = "gone" /\ \A c \in Callers : pc[c] = "idle"
    /\ UNCHANGED <<bytes, base0, slot, threads, history>>

----------------------------------------------------------------------------
\* sata_satate_read: val has no value before the first slot that is mapped.

ReadSlots(c) ==
    /\ module \in {"hwinit", "loaded", "unmap", "files"} /\ pc[c] = "idle"
    /\ \E v \in BOOLEAN : val' = [val EXCEPT ![c] = v]
    /\ At(c, "check")
    /\ whole' = [whole EXCEPT ![c] = module = "loaded"]
    /\ UNCHANGED <<bytes, mapping, i, io, time, crossed>>

\* A slot without a mapping keeps the val of the one before.
CheckSlot(c) ==
    /\ pc[c] = "check"
    /\ At(c, IF base0[i[c]] # "null" THEN "get" ELSE "print")
    /\ UNCHANGED <<bytes, mapping, i, val, io, history>>

\* A mapping that is gone since the check is not there.
GetSlot(c) ==
    /\ pc[c] = "get"
    /\ IF base0[i[c]] = "mapped"
         THEN val' = [val EXCEPT ![c] = Power[i[c]]] /\ At(c, "print")
         ELSE At(c, "fault") /\ UNCHANGED val
    /\ UNCHANGED <<bytes, mapping, i, io, history>>

\* Mutant: the loop counts before it prints.
PrintSlot_Skip(c) ==
    /\ pc[c] = "print"
    /\ IF i[c] < Slots
         THEN i' = [i EXCEPT ![c] = @ + 1] /\ At(c, "print") /\ UNCHANGED <<val, io, whole>>
         ELSE Return(c)
    /\ UNCHANGED <<bytes, mapping, time, crossed>>

PrintSlot(c) ==
    /\ pc[c] = "print"
    /\ IF i[c] < Slots
         THEN i' = [i EXCEPT ![c] = @ + 1] /\ At(c, "check") /\ UNCHANGED <<val, io, whole>>
         ELSE Return(c)
    /\ UNCHANGED <<bytes, mapping, time, crossed>>

----------------------------------------------------------------------------
\* The boot beep: "booton" and "bootoff" read the byte and write it back with the bit
\* changed; beeper_read only reads it.

\* Mutant: the byte is not selected.
SelectByte_None(c) ==
    /\ module \in {"hwinit", "loaded", "unmap", "files", "beeper"} /\ pc[c] = "idle"
    /\ At(c, "in")
    /\ crossed' = (crossed \/ rtc)
    /\ UNCHANGED <<bytes, mapping, i, val, io, time, whole>>

SelectByte(c) ==
    /\ module \in {"hwinit", "loaded", "unmap", "files", "beeper"} /\ pc[c] = "idle"
    /\ index' = "beep"
    /\ At(c, "in")
    /\ crossed' = (crossed \/ rtc)
    /\ UNCHANGED <<cmos, rtc, mapping, i, val, io, time, whole>>

beeper_read(c) ==
    /\ pc[c] = "in"
    /\ Return(c)
    /\ UNCHANGED <<bytes, mapping, time, crossed>>

ReadByte(c) ==
    /\ pc[c] = "in"
    /\ io' = [io EXCEPT ![c] = cmos[index]]
    /\ At(c, "out")
    /\ UNCHANGED <<bytes, mapping, i, val, history>>

WriteByte(c) ==
    /\ pc[c] = "out"
    /\ cmos' = [cmos EXCEPT ![index] = WithBootBit(io[c])]
    /\ Return(c)
    /\ UNCHANGED <<index, rtc, mapping, time, crossed>>

----------------------------------------------------------------------------
\* The real-time clock driver holds a lock of its own between its two ports.

RtcSelect ==
    /\ ~rtc
    /\ index' = "time" /\ rtc' = TRUE
    /\ crossed' = (crossed \/ \E c \in Callers : BetweenPorts(c))
    /\ UNCHANGED <<cmos, mapping, threads, time, whole>>

\* It reads its byte or sets the time.
RtcAccess ==
    /\ rtc
    /\ rtc' = FALSE
    /\ \/ UNCHANGED <<cmos, time>>
       \/ cmos' = [cmos EXCEPT ![index] = "new"] /\ time' = "new"
    /\ UNCHANGED <<index, mapping, threads, crossed, whole>>

Next ==
    \/ sataio_beep_init \/ hwinit \/ sataio_beep_exit \/ hw_unioremap \/ procfs_remove
    \/ \E c \in Callers :
        \/ ReadSlots(c) \/ CheckSlot(c) \/ GetSlot(c) \/ PrintSlot(c)
        \/ SelectByte(c) \/ beeper_read(c) \/ ReadByte(c) \/ WriteByte(c)
    \/ RtcSelect \/ RtcAccess

Spec == Init /\ [][Next]_vars

----------------------------------------------------------------------------
\* As long as the clock driver and a caller are not between their ports at once, the boot
\* beep changes its own bit and no other, however many callers cross each other: the clock
\* keeps the time it was given (beeper_write and beeper_read take no lock).
OnlyTheBootBit == ~crossed => cmos = [byte \in {"beep", "time"} |-> IF byte = "time" THEN time ELSE byte]

\* A read of the slots that began after hwinit shows, for each slot that is mapped, the
\* switch of that slot and not the val of another; and it meets a mapping that is gone
\* only while sataio_beep_exit is under way.
SlotsShown ==
    \A c \in Callers :
        /\ whole[c] /\ pc[c] = "print" /\ base0[i[c]] = "mapped" => val[c] = Power[i[c]]
        /\ pc[c] = "fault" => module \in {"unmap", "files"}
====
