---- MODULE FwLoad ----
\* The loading of firmware into the touch controller: axs_upgrade.c erases and writes the
\* flash behind it and reads it back, axs_download.c writes the controller's program memory
\* (PRAM) and starts it.  What the loads share with the interrupt thread is TouchScreen's.
\* A function of the driver is the list of commands it sends; each command may fail.
EXTENDS Integers, Sequences

CONSTANTS
    Packet,          \* bytes in a packet, 256
    MinLen, MaxLen,  \* sizes of an image: 1024, AXS_MAX_FW_LEN
    Polls,           \* polls for the flash, 2000
    Images           \* contents of the file a user may ask to load

\* A byte is 1 where the flash is erased: programming can only take a 1 to 0.
Byte   == {0, 1}
Memory == [1..MaxLen -> Byte]

ASSUME FwAssumption ==
    /\ {Packet, MinLen, MaxLen, Polls} \subseteq Nat \ {0}
    /\ MinLen <= MaxLen
    /\ Images \subseteq Seq(Byte)

VARIABLES
    pc,                \* "idle", "select", "load", "reset"
    kind, image, ok,   \* of the load in progress or the last one: its kind, file and result
    todo,              \* commands still to send
    left,              \* polls left in flash_is_ready
    tries,             \* upgrade_count
    tmpbuf,            \* what the read check reads into
    flash, wel, busy,  \* the flash: contents, write enable latch, operation in progress
    pram, mode,        \* the controller: its PRAM, and what it runs
    short              \* history, read by properties only

driver  == <<kind, image, ok, todo, left, tries, tmpbuf>>
chip    == <<flash, wel, busy>>
vars == <<pc, driver, chip, pram, mode, short>>

Init ==
    /\ pc = "idle" /\ kind = "upgrade" /\ image = <<>> /\ ok = FALSE
    /\ todo = <<>> /\ left = Polls /\ tries = 0
    /\ tmpbuf = [i \in 1..Packet |-> 0]
    /\ flash \in {[i \in 1..MaxLen |-> b] : b \in Byte}
    /\ pram = [i \in 1..MaxLen |-> 0]
    /\ wel = FALSE /\ busy = FALSE /\ mode = "app"
    /\ short = FALSE

----------------------------------------------------------------------------
\* Packets, and the commands of each function.

TotalPackets(len) == len \div Packet + (IF len % Packet = 0 THEN 0 ELSE 1)

CurrentSize(n, len) == IF n = TotalPackets(len) THEN len - (n - 1) * Packet ELSE Packet

Cmd(op, addr, size) == [op |-> op, addr |-> addr, size |-> size]
Plain(op)           == Cmd(op, 0, 0)
PacketCmd(op, n, len) == Cmd(op, (n - 1) * Packet, CurrentSize(n, len))

axs_fwupg_flash_init ==
    <<Plain("wren"), Plain("read"), Plain("wren"), Plain("read"), Plain("wrsr"), Plain("ready")>>

\* Mutant: the end of the erase is not waited for.
axs_fwupg_flash_erase_NoWait == <<Plain("wren"), Plain("erase")>>

axs_fwupg_flash_erase == <<Plain("wren"), Plain("erase"), Plain("ready")>>

\* Three commands per packet.
PacketWrite(n, len) == <<Plain("wren"), PacketCmd("prog", n, len), Plain("ready")>>

axs_fwupg_flash_write(len) ==
    [k \in 1..(3 * TotalPackets(len)) |-> PacketWrite((k - 1) \div 3 + 1, len)[((k - 1) % 3) + 1]]

\* Mutant: the loop stops one packet early.
axs_fwupg_flash_read_check_Less(len) ==
    <<Plain("zalloc")>> \o [n \in 1..(TotalPackets(len) - 1) |-> PacketCmd("check", n, len)]

axs_fwupg_flash_read_check(len) ==
    <<Plain("zalloc")>> \o [n \in 1..TotalPackets(len) |-> PacketCmd("check", n, len)]

axs_Y15205_upgrade(len) ==
    axs_fwupg_flash_init \o axs_fwupg_flash_erase
        \o axs_fwupg_flash_write(len) \o axs_fwupg_flash_read_check(len)

\* Mutant: the loop ends before the last packet.
axs_download_write_pram_Less(len) ==
    [n \in 1..(TotalPackets(len) - 1) |-> PacketCmd("pram", n, len)]

axs_download_write_pram(len) == [n \in 1..TotalPackets(len) |-> PacketCmd("pram", n, len)]

axs_Y15205_download(len) ==
    axs_download_write_pram(len) \o <<Plain("finish"), Plain("version")>>

----------------------------------------------------------------------------
\* The driver: a load begins, selects what to write, runs the commands, resets.

FwFile ==
    /\ pc = "idle"
    /\ kind' \in {"upgrade", "download"} /\ image' \in Images
    /\ pc' = IF Len(image') \in MinLen..MaxLen THEN "select" ELSE "idle"
    /\ ok' = FALSE /\ tries' = 0 /\ short' = FALSE
    /\ UNCHANGED <<todo, left, tmpbuf, chip, pram, mode>>

\* A command that fails may still have been obeyed.
selectFlash ==
    /\ pc = "select" /\ kind = "upgrade"
    /\ tries' = tries + 1
    /\ \/ /\ mode' = "flash"
          /\ pc' = "load" /\ todo' = axs_Y15205_upgrade(Len(image))
       \/ /\ mode' \in {mode, "flash"} /\ pc' = "idle"
          /\ UNCHANGED todo
    /\ UNCHANGED <<kind, image, ok, left, tmpbuf, chip, pram, short>>

\* The reset line driven before it is never assigned: what the controller runs if the
\* command fails may be what it ran before.
selectPram ==
    /\ pc = "select" /\ kind = "download"
    /\ tries' = tries + 1
    /\ \/ /\ mode' = "pram"
          /\ pc' = "load" /\ todo' = axs_Y15205_download(Len(image))
       \/ /\ mode' \in {mode, "app", "pram"} /\ pc' = "idle"
          /\ UNCHANGED todo
    /\ UNCHANGED <<kind, image, ok, left, tmpbuf, chip, pram, short>>

Sending(op) == pc = "load" /\ todo # <<>> /\ Head(todo).op = op

\* Where the function goes when an attempt ended: upgrades make one, downloads two.
Finished(result) ==
    IF kind = "upgrade" THEN "reset" ELSE IF ~result /\ tries < 2 THEN "select" ELSE "idle"

\* The command at hand succeeded, or it failed and the attempt with it.
Proceed ==
    /\ todo' = Tail(todo)
    /\ left' = Polls
    /\ ok' = (todo' = <<>>)
    /\ pc' = IF ok' THEN Finished(TRUE) ELSE "load"

Abandon == todo' = <<>> /\ left' = Polls /\ ok' = FALSE /\ pc' = Finished(FALSE)

\* Result of axs_write_bytes: anything but all bytes sent is an error.
axs_write_bytes == Proceed \/ Abandon

Kept == UNCHANGED <<kind, image, tries>>

\* A write: obeyed when it succeeds, perhaps obeyed when it fails.
Write(Obeyed, Ignored) == (Proceed /\ Obeyed) \/ (Abandon /\ (Obeyed \/ Ignored))

----------------------------------------------------------------------------
\* Commands to the flash.  It obeys a WREN when it is not busy, and an operation when the
\* latch is set; what it then does to its cells may silently fail.

SendWren ==
    /\ Sending("wren")
    /\ Write(wel' = (wel \/ ~busy), wel' = wel)
    /\ UNCHANGED <<tmpbuf, flash, busy, pram, mode, short>> /\ Kept

Accepting == wel /\ ~busy

Operate(after) ==
    /\ Write(busy' = (busy \/ Accepting) /\ flash' \in {flash, IF Accepting THEN after ELSE flash},
             UNCHANGED <<busy, flash>>)
    /\ UNCHANGED <<tmpbuf, wel, pram, mode, short>> /\ Kept

SendStatus == Sending("wrsr") /\ Operate(flash)

SendErase == Sending("erase") /\ Operate([i \in 1..MaxLen |-> 1])

Span(c) == (c.addr + 1)..(c.addr + c.size)

SendProgram ==
    /\ Sending("prog")
    /\ Operate([i \in 1..MaxLen |->
                   IF i \in Span(Head(todo)) THEN flash[i] * image[i] ELSE flash[i]])

\* The flash finishes; nothing says when.
FlashDone ==
    /\ busy /\ busy' = FALSE /\ wel' = FALSE
    /\ UNCHANGED <<pc, driver, flash, pram, mode, short>>

\* The identification and status reads of flash_init: their answers are not looked at.
SendRead ==
    /\ Sending("read")
    /\ axs_write_bytes
    /\ UNCHANGED <<tmpbuf, chip, pram, mode, short>> /\ Kept

\* Mutant: the loop does not count.
flash_is_ready_Endless ==
    /\ Sending("ready")
    /\ \/ ~busy /\ ~wel /\ Proceed
       \/ UNCHANGED <<pc, ok, todo, left>>
    /\ UNCHANGED <<tmpbuf, chip, pram, mode, short>> /\ Kept

\* Mutant: the loop counts without end.
flash_is_ready_PastZero ==
    /\ Sending("ready")
    /\ \/ ~busy /\ ~wel /\ Proceed
       \/ left > -3 /\ left' = left - 1 /\ UNCHANGED <<pc, ok, todo>>
    /\ UNCHANGED <<tmpbuf, chip, pram, mode, short>> /\ Kept

\* A poll succeeds when the status reads 0; one that fails or reads less is one lost.
flash_is_ready ==
    /\ Sending("ready")
    /\ \/ left > 0 /\ ~busy /\ ~wel /\ Proceed
       \/ left > 0 /\ left' = left - 1 /\ UNCHANGED <<pc, ok, todo>>
       \/ left = 0 /\ Abandon
    /\ UNCHANGED <<tmpbuf, chip, pram, mode, short>> /\ Kept

\* kzalloc of the read check's buffer.
AllocCheck ==
    /\ Sending("zalloc")
    /\ axs_write_bytes
    /\ tmpbuf' = [i \in 1..Packet |-> 0]
    /\ UNCHANGED <<chip, pram, mode, short>> /\ Kept

\* axs_write_bytes_read_bytes returns what the last transfer did: only a negative value is
\* an error to the caller, and after a short one the buffer holds what it held before.
axs_write_bytes_read_bytes ==
    \/ /\ tmpbuf' = [i \in 1..Packet |->
                        IF i <= Head(todo).size THEN flash[Head(todo).addr + i] ELSE tmpbuf[i]]
       /\ UNCHANGED short
    \/ UNCHANGED tmpbuf /\ short' = TRUE

Same(buf, c) == \A i \in 1..c.size : buf[i] = image[c.addr + i]

CheckPacket ==
    /\ Sending("check")
    /\ \/ /\ axs_write_bytes_read_bytes
          /\ IF Same(tmpbuf', Head(todo)) THEN Proceed ELSE Abandon
       \/ Abandon /\ UNCHANGED <<tmpbuf, short>>
    /\ UNCHANGED <<chip, pram, mode>> /\ Kept

----------------------------------------------------------------------------
\* Commands to the controller's PRAM.

SendPram ==
    /\ Sending("pram")
    /\ Write(pram' = [i \in 1..MaxLen |-> IF i \in Span(Head(todo)) THEN image[i] ELSE pram[i]],
             UNCHANGED pram)
    /\ UNCHANGED <<tmpbuf, chip, mode, short>> /\ Kept

axs_download_finish ==
    /\ Sending("finish")
    /\ Write(mode' = "pramapp", UNCHANGED mode)
    /\ UNCHANGED <<tmpbuf, chip, pram, short>> /\ Kept

\* Two reads that must agree; the version itself is only logged.
axs_fwupg_get_ver_in_tp ==
    /\ Sending("version")
    /\ axs_write_bytes
    /\ UNCHANGED <<tmpbuf, chip, pram, mode, short>> /\ Kept

\* The reset drives a GPIO line that nothing has assigned; it is wired to the controller or
\* it is not, and what there is to run may be half a program.
axs_reset_proc ==
    /\ pc = "reset"
    /\ mode' \in {mode, "app"} /\ pc' = "idle"
    /\ UNCHANGED <<driver, chip, pram, short>>

Driver ==
    \/ selectFlash \/ selectPram \/ axs_reset_proc
    \/ SendWren \/ SendStatus \/ SendErase \/ SendProgram \/ SendRead
    \/ flash_is_ready \/ AllocCheck \/ CheckPacket
    \/ SendPram \/ axs_download_finish \/ axs_fwupg_get_ver_in_tp

Next == FwFile \/ FlashDone \/ Driver

\* The driver's thread goes on while it can; nothing is asked of the flash.
Fairness == WF_vars(Driver)

Spec == Init /\ [][Next]_vars /\ Fairness

----------------------------------------------------------------------------
\* Properties.

InsideImage == \A k \in 1..Len(todo) : todo[k].addr + todo[k].size <= Len(image)

\* Every variable stays in its range: the buffer, the polls that are left, the attempts,
\* and no command reaches beyond the image.
TypeOK ==
    /\ pc \in {"idle", "select", "load", "reset"} /\ kind \in {"upgrade", "download"}
    /\ image \in Images \cup {<<>>} /\ ok \in BOOLEAN
    /\ InsideImage
    /\ left \in 0..Polls /\ tries \in 0..2
    /\ tmpbuf \in [1..Packet -> Byte]
    /\ flash \in Memory /\ wel \in BOOLEAN /\ busy \in BOOLEAN
    /\ pram \in Memory /\ mode \in {"app", "flash", "pram", "pramapp"}
    /\ short \in BOOLEAN

Ended(k) == pc = "idle" /\ kind = k

Holds(mem) == \A i \in 1..Len(image) : mem[i] = image[i]

\* An upgrade that reports success left the image in the flash, whatever the flash did to
\* the erase and the packets, unless a read of the check came back short: the read check
\* (axs_fwupg_flash_read_check) compares every byte of every packet.
UpgradeVerified == Ended("upgrade") /\ ok /\ ~short => Holds(flash)

\* A download that reports success left the whole image in the PRAM, the last packet
\* included and after a first attempt that failed half way, and started it.
DownloadComplete == Ended("download") /\ ok => Holds(pram) /\ mode = "pramapp"

\* An erase or a packet only reaches a flash that takes it, with the write enabled and
\* nothing in progress, even right after a load that gave up on a busy flash: each step
\* of the sequence waits for the operation before it (flash_is_ready).
FlashFindsReady == Sending("erase") \/ Sending("prog") => Accepting

\* A load ends, however the bus and the flash behave: the polls and the attempts are counted.
LoadEnds == pc # "idle" ~> pc = "idle"

====
