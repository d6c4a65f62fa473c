---- MODULE TouchDebug ----
\* The debug files of the touch screen driver, axs_debug.c, from probe to removal: the
\* sysfs files, most of which work under s_device_mutex, the diff, rawdata and debug_str
\* files, which take it too late, and the proc file, which never takes it.  All share
\* debug_tx_buf and debug_rx_buf, and the bus, which has a mutex of its own (axs_i2c.c).
EXTENDS Integers

CONSTANTS
    Callers,  \* threads that use the files
    Regs,     \* register commands a user gives to axs_rw_reg
    None      \* nobody holds a mutex

ASSUME CallersAssumption == None \notin Callers /\ {"other", "null"} \cap Regs = {}

\* The calls.  "rd" and "wr" are the two forms of a write to axs_rw_reg, "dump" stands for
\* the diff, rawdata and debug_str files, "load" for the two that load firmware.
SysfsCalls == {"rd", "wr", "show", "load", "version", "dump", "reset"}
ProcCalls  == {"pwrite", "pread"}

\* What a buffer or the controller can hold: a command, and for the controller the one it
\* would answer; no two others need to be told apart.
Content == Regs \cup {"other"}
Null    == "null"

VARIABLES
    life,             \* where probe or removal of the driver is
    data,             \* g_axs_data points to something
    sysfs, proc,      \* the files take calls
    tx, rx,           \* debug_tx_buf, debug_rx_buf: content, or Null
    mutex, bus,       \* holders of s_device_mutex and bus_mutex
    ready,            \* mutex_init has run for s_device_mutex, which is static
    s_rd_len,         \* 1: a register answer is there to be shown
    proc_opmode,      \* the last write to the proc file began with the letter r
    answer,           \* what the controller answers to a read: the last command it got
    calls,            \* the callers: the file, the text given to it, the next step
    early, stale, asked  \* history, read by properties only

driver  == <<life, data, sysfs, proc>>
bufs    == <<tx, rx>>
locks   == <<mutex, bus, ready>>
regs    == <<s_rd_len, proc_opmode, answer>>
history == <<early, stale, asked>>
vars == <<driver, bufs, locks, regs, calls, history>>

NoCall == [file |-> "none", text |-> "other", step |-> "idle"]

Init ==
    /\ life = "unbound" /\ data = FALSE /\ sysfs = FALSE /\ proc = FALSE
    /\ tx = Null /\ rx = Null
    /\ mutex = None /\ bus = None /\ ready = FALSE
    /\ s_rd_len = 0 /\ proc_opmode = FALSE /\ answer = "other"
    /\ calls = [c \in Callers |-> NoCall]
    /\ early = FALSE /\ stale = FALSE /\ asked = "other"

At(c, step)   == calls[c].step = step
Goto(c, step) == calls' = [calls EXCEPT ![c].step = step]
Return(c)     == calls' = [calls EXCEPT ![c] = NoCall]
File(c)       == calls[c].file
Text(c)       == calls[c].text

\* The call uses memory that is not there: a null pointer, which ends the thread with what
\* it holds, or memory that was freed, after which nothing can be said of it.
Fault(c)      == calls' = [calls EXCEPT ![c].step = "fault", ![c].text = "other"]

\* The steps between mutex_lock and mutex_unlock of s_device_mutex.
UnderMutex == {"check", "fill", "len", "format", "command", "end", "reset"}
Inside(c) ==
    \/ calls[c].step \in UnderMutex
    \/ calls[c].step \in {"args", "send", "recv"} /\ File(c) # "dump"

\* mutex_unlock does not look at who holds the mutex: a call that was under it when it was
\* initialised gives back the mutex of another.  This is over when nobody is under it.
Unlock(c) ==
    /\ mutex' = None
    /\ early' = (early /\ \E d \in Callers \ {c} : Inside(d) \/ At(d, "fault"))
Keep == UNCHANGED <<mutex, early>>

----------------------------------------------------------------------------
\* A call arrives.

FirstStep(f) ==
    CASE f \in {"rd", "wr", "show", "load", "reset"} -> "lock"
      [] f = "version" -> "version"
      [] f = "dump"    -> "size"
      [] f = "pwrite"  -> "pcheck"
      [] f = "pread"   -> "rcheck"

Texts(f) == IF f = "rd" THEN Regs ELSE {"other"}

Call(c, f) ==
    /\ At(c, "idle")
    /\ IF f \in SysfsCalls THEN sysfs ELSE proc
    /\ \E t \in Texts(f) :
        calls' = [calls EXCEPT ![c] = [file |-> f, text |-> t, step |-> FirstStep(f)]]
    /\ UNCHANGED <<driver, bufs, locks, regs, history>>

\* Mutant: the mutex is not waited for.
Lock_NoWait(c) ==
    /\ At(c, "lock")
    /\ mutex' = c
    /\ Goto(c, CASE File(c) \in {"rd", "wr"} -> "check" [] File(c) = "show" -> "format"
                 [] File(c) = "load" -> "command"
                 [] File(c) = "reset" -> "reset")
    /\ UNCHANGED <<driver, bufs, bus, ready, regs, history>>

Lock(c) ==
    /\ At(c, "lock") /\ mutex = None
    /\ mutex' = c
    /\ Goto(c, CASE File(c) \in {"rd", "wr"} -> "check" [] File(c) = "show" -> "format"
                 [] File(c) = "load" -> "command"
                 [] File(c) = "reset" -> "reset")
    /\ UNCHANGED <<driver, bufs, bus, ready, regs, history>>

\* A mutex that is all zero can be taken and given back, but it has no list of waiters: who
\* finds it taken uses a null pointer (and ends, without it), or is never woken.
LockUninitialised(c) ==
    /\ calls[c].step \in {"lock", "print"} /\ mutex # None /\ ~ready
    /\ \E end \in {"crash", "lost"} :
        calls' = [calls EXCEPT ![c].step = end, ![c].text = "other"]
    /\ UNCHANGED <<driver, bufs, locks, regs, history>>

----------------------------------------------------------------------------
\* axs_tprwreg_store: fill debug_tx_buf, send it, read the answer into debug_rx_buf.  The
\* result of the transfer is not looked at.

\* Mutant: only debug_tx_buf is looked at.
StoreCheck_TxOnly(c) ==
    /\ At(c, "check")
    /\ \/ ~data /\ Fault(c) /\ Keep
       \/ data /\ tx # Null /\ Goto(c, "fill") /\ Keep
       \/ Return(c) /\ Unlock(c)
    /\ UNCHANGED <<driver, bufs, bus, ready, regs, stale, asked>>

\* Mutant: the early return forgets the mutex.
StoreCheck_NoUnlock(c) ==
    /\ At(c, "check")
    /\ \/ ~data /\ Fault(c)
       \/ data /\ tx # Null /\ rx # Null /\ Goto(c, "fill")
       \/ Return(c)
    /\ UNCHANGED <<driver, bufs, locks, regs, history>>

\* A text that is too short or no command is refused as well as one that comes too early.
StoreCheck(c) ==
    /\ At(c, "check")
    /\ \/ ~data /\ Fault(c) /\ Keep
       \/ data /\ tx # Null /\ rx # Null /\ Goto(c, "fill") /\ Keep
       \/ Return(c) /\ Unlock(c)
    /\ UNCHANGED <<driver, bufs, bus, ready, regs, stale, asked>>

StoreFill(c) ==
    /\ At(c, "fill")
    /\ IF ~data \/ tx = Null
         THEN Fault(c) /\ UNCHANGED <<tx, asked>>
         ELSE /\ calls' = [calls EXCEPT ![c].step = "args", ![c].text = "other"]
              /\ tx' = Text(c) /\ asked' = Text(c)
    /\ UNCHANGED <<driver, rx, locks, regs, early, stale>>

\* The length the next show uses.
StoreLen(c) ==
    /\ At(c, "len")
    /\ s_rd_len' = IF File(c) = "rd" THEN 1 ELSE 0
    /\ stale' = FALSE
    /\ asked' = IF early THEN "other" ELSE asked
    /\ Return(c) /\ Unlock(c)
    /\ UNCHANGED <<driver, bufs, bus, ready, proc_opmode, answer>>

axs_tprwreg_store(c) == StoreCheck(c) \/ StoreFill(c) \/ StoreLen(c)

\* axs_tprwreg_show: the length is reset after the mutex is given back.
ShowFormat(c) ==
    /\ At(c, "format")
    /\ IF s_rd_len = 1 /\ (~data \/ rx = Null)
         THEN Fault(c) /\ Keep
         ELSE Goto(c, "forget") /\ Unlock(c)
    /\ UNCHANGED <<driver, bufs, bus, ready, regs, stale, asked>>

ShowReset(c) ==
    /\ At(c, "forget")
    /\ s_rd_len' = 0 /\ stale' = FALSE
    /\ Return(c)
    /\ UNCHANGED <<driver, bufs, locks, proc_opmode, answer, early, asked>>

axs_tprwreg_show(c) == ShowFormat(c) \/ ShowReset(c)

----------------------------------------------------------------------------
\* axs_write_bytes_read_bytes, or axs_write_bytes for "wr".

\* What follows the transfer.  A store goes on in any case, a dump unless the result is
\* negative: one that is only too short counts as success.
Refused(c) == IF File(c) = "dump" THEN Return(c) ELSE Goto(c, "len")
Failed(c)  == Refused(c) \/ (File(c) = "dump" /\ Goto(c, "print"))
Arrived(c) == Goto(c, IF File(c) = "dump" THEN "print" ELSE "len")

\* A store has filled the buffer and has no answer yet.
Unanswered == \E d \in Callers : calls[d].step \in {"args", "send", "recv"} /\ File(d) # "dump"

\* The answer of the last store is overwritten by another one, if it is there already.
Overwritten == IF Unanswered THEN asked ELSE "other"

\* The other way round: its command is overwritten, or the controller reset under it.
Disturbed == IF Unanswered THEN "other" ELSE asked

\* A transfer of the store's own command that fails leaves an old answer to be shown.
Miss(c) == asked' = IF File(c) = "dump" THEN asked ELSE "other"

\* The buffers are passed by address; a null one is refused.
BusArgs(c) ==
    /\ At(c, "args")
    /\ IF ~data THEN Fault(c) /\ UNCHANGED asked
       ELSE IF (File(c) # "dump" /\ tx = Null) \/ (File(c) # "wr" /\ rx = Null)
         THEN Refused(c) /\ Miss(c)
       ELSE Goto(c, "send") /\ UNCHANGED asked
    /\ UNCHANGED <<driver, bufs, locks, regs, early, stale>>

\* A store sends what is in debug_tx_buf now.
Command(c) == IF File(c) = "dump" THEN "other" ELSE tx

\* Mutant: bus_mutex is given back between the command and its answer.
BusSend_Unlocked(c) ==
    /\ At(c, "send") /\ bus = None
    /\ \/ /\ ~data \/ Command(c) = Null
          /\ Fault(c) /\ UNCHANGED <<bus, answer, asked>>
       \/ /\ data /\ Command(c) # Null
          /\ answer' = Command(c)
          /\ IF File(c) = "wr" THEN Arrived(c) ELSE Goto(c, "recv")
          /\ UNCHANGED <<bus, asked>>
       \/ data /\ Failed(c) /\ Miss(c) /\ UNCHANGED <<bus, answer>>
    /\ UNCHANGED <<driver, bufs, mutex, ready, s_rd_len, proc_opmode, early, stale>>

BusSend(c) ==
    /\ At(c, "send") /\ bus = None
    /\ \/ /\ ~data \/ Command(c) = Null
          /\ Fault(c) /\ UNCHANGED <<bus, answer, asked>>
       \/ /\ data /\ Command(c) # Null
          /\ answer' = Command(c)
          /\ IF File(c) = "wr" THEN Arrived(c) /\ UNCHANGED bus ELSE Goto(c, "recv") /\ bus' = c
          /\ UNCHANGED asked
       \/ data /\ Failed(c) /\ Miss(c) /\ UNCHANGED <<bus, answer>>
    /\ UNCHANGED <<driver, bufs, mutex, ready, s_rd_len, proc_opmode, early, stale>>

\* The answer arrives or not; there is one try only.
BusReceive(c) ==
    /\ At(c, "recv")
    /\ \/ /\ ~data \/ rx = Null
          /\ Fault(c) /\ UNCHANGED <<rx, bus, answer, asked>>
       \/ /\ data /\ rx # Null
          /\ rx' = answer
          /\ Arrived(c) /\ bus' = None
          /\ asked' = IF File(c) = "dump" THEN Overwritten ELSE asked
          /\ UNCHANGED answer
       \/ /\ data
          /\ Failed(c) /\ Miss(c) /\ bus' = None
          /\ UNCHANGED <<rx, answer>>
    /\ UNCHANGED <<driver, tx, mutex, ready, s_rd_len, proc_opmode, early, stale>>

axs_write_bytes_read_bytes(c) == BusArgs(c) \/ BusSend(c) \/ BusReceive(c)

----------------------------------------------------------------------------
\* axs_diff_show, axs_rawdata_show, axs_debug_str_show: a transfer for the size, one into
\* debug_rx_buf, and the mutex only to print what is in it by then.

\* A transfer that touches none of the shared buffers; g_axs_data may be null here.
Exchange == answer' = IF data THEN "other" ELSE answer

DumpSize(c) ==
    /\ At(c, "size") /\ bus = None
    /\ Exchange
    /\ Return(c) \/ (data /\ Goto(c, "args"))
    /\ UNCHANGED <<driver, bufs, locks, s_rd_len, proc_opmode, history>>

\* What a dump does under the mutex only reads, so it is one step.
DumpFormat(c) ==
    /\ At(c, "print") /\ File(c) = "dump" /\ mutex = None
    /\ IF ~data \/ rx = Null THEN Fault(c) /\ mutex' = c ELSE Return(c) /\ UNCHANGED mutex
    /\ UNCHANGED <<driver, bufs, bus, ready, regs, history>>

axs_diff_show(c) == DumpSize(c) \/ DumpFormat(c)

\* axs_driverversion_show reads the version into a local.
VersionRead(c) ==
    /\ At(c, "version") /\ bus = None
    /\ Exchange
    /\ Goto(c, "print")
    /\ UNCHANGED <<driver, bufs, locks, s_rd_len, proc_opmode, history>>

\* What it does under the mutex touches nothing that is shared.
VersionPrint(c) ==
    /\ At(c, "print") /\ File(c) = "version" /\ mutex = None
    /\ Return(c)
    /\ UNCHANGED <<driver, bufs, locks, regs, history>>

axs_driverversion_show(c) == VersionRead(c) \/ VersionPrint(c)

\* axs_reset_proc, from the hardware reset file and from the proc file.  It drives a GPIO
\* line that nothing has assigned, and the controller may not notice.
axs_reset_proc == answer' \in {"other", answer}

axs_hw_reset_show(c) ==
    /\ At(c, "reset")
    /\ IF ~data THEN Fault(c) /\ Keep /\ UNCHANGED answer
                ELSE Return(c) /\ Unlock(c) /\ axs_reset_proc
    /\ UNCHANGED <<driver, bufs, bus, ready, s_rd_len, proc_opmode, stale, asked>>

\* A firmware load; FwLoad models its commands, one stands for them here.
LoadCommand(c) ==
    /\ At(c, "command")
    /\ \/ ~data /\ Return(c) /\ Unlock(c)
       \/ data /\ bus = None /\ Goto(c, "end") /\ Keep
    /\ Exchange
    /\ UNCHANGED <<driver, bufs, bus, ready, s_rd_len, proc_opmode, stale, asked>>

LoadEnd(c) ==
    /\ At(c, "end")
    /\ IF ~data THEN Fault(c) /\ Keep ELSE Return(c) /\ Unlock(c)
    /\ UNCHANGED <<driver, bufs, bus, ready, regs, stale, asked>>

axs_fwupgrade_store(c) == LoadCommand(c) \/ LoadEnd(c)

----------------------------------------------------------------------------
\* axs_proc_write and axs_proc_read.  The letter is read back from the buffer, where
\* another call may have written.

ProcCheck(c) ==
    /\ At(c, "pcheck")
    /\ IF ~data THEN Fault(c) ELSE IF tx = Null THEN Return(c) ELSE Goto(c, "pcopy")
    /\ UNCHANGED <<driver, bufs, locks, regs, history>>

ProcCopy(c) ==
    /\ At(c, "pcopy")
    /\ IF ~data \/ tx = Null
         THEN Fault(c) /\ UNCHANGED <<tx, asked>>
         ELSE Goto(c, "pmode") /\ tx' = Text(c) /\ asked' = Disturbed
    /\ UNCHANGED <<driver, rx, locks, regs, early, stale>>

\* Letters r and w have the bytes after them sent, s resets the controller.
ProcMode(c) ==
    /\ At(c, "pmode")
    /\ \/ /\ ~data \/ tx = Null
          /\ Fault(c) /\ UNCHANGED proc_opmode
       \/ /\ data /\ tx # Null
          /\ \/ Goto(c, "psend") /\ proc_opmode' \in BOOLEAN
             \/ Goto(c, "preset") /\ proc_opmode' = FALSE
             \/ Return(c) /\ proc_opmode' = FALSE
    /\ UNCHANGED <<driver, bufs, locks, s_rd_len, answer, history>>

ProcSend(c) ==
    /\ At(c, "psend") /\ bus = None
    /\ IF ~data \/ tx = Null
         THEN Fault(c) /\ UNCHANGED answer
         ELSE Return(c) /\ answer' \in {"other", answer}
    /\ UNCHANGED <<driver, bufs, locks, s_rd_len, proc_opmode, history>>

ProcReset(c) ==
    /\ At(c, "preset")
    /\ IF ~data THEN Fault(c) /\ UNCHANGED <<answer, asked>>
                ELSE Return(c) /\ axs_reset_proc /\ asked' = Disturbed
    /\ UNCHANGED <<driver, bufs, locks, s_rd_len, proc_opmode, early, stale>>

axs_proc_write(c) == ProcCheck(c) \/ ProcCopy(c) \/ ProcMode(c) \/ ProcSend(c) \/ ProcReset(c)

ProcReadCheck(c) ==
    /\ At(c, "rcheck")
    /\ IF ~data THEN Fault(c)
       ELSE IF rx = Null \/ ~proc_opmode THEN Return(c) ELSE Goto(c, "rrecv")
    /\ UNCHANGED <<driver, bufs, locks, regs, history>>

\* A read that no command of its own goes before; one that is too short shows what is there.
ProcReceive(c) ==
    /\ At(c, "rrecv") /\ bus = None
    /\ \/ ~data /\ Fault(c) /\ UNCHANGED <<rx, asked>>
       \/ data /\ rx = Null /\ Fault(c) /\ UNCHANGED <<rx, asked>>
       \/ data /\ rx # Null /\ Goto(c, "rout") /\ rx' = answer /\ asked' = Overwritten
       \/ data /\ (Return(c) \/ Goto(c, "rout")) /\ UNCHANGED <<rx, asked>>
    /\ UNCHANGED <<driver, tx, locks, regs, early, stale>>

ProcOut(c) ==
    /\ At(c, "rout")
    /\ IF ~data \/ rx = Null THEN Fault(c) ELSE Return(c)
    /\ UNCHANGED <<driver, bufs, locks, regs, history>>

axs_proc_read(c) == ProcReadCheck(c) \/ ProcReceive(c) \/ ProcOut(c)

----------------------------------------------------------------------------
\* axs_ts_probe.  Everything up to the creation of the files is one step: nothing else
\* can see it.  What fails later in axs_ts_probe_entry is only logged.

Step(from, to) == life = from /\ life' = to

\* If there is no memory for the platform data, the state is freed and 0 is returned.
ProbeAllocate ==
    /\ life = "unbound"
    /\ \/ life' = "proc" /\ data' = TRUE
       \/ life' = "hollow" /\ UNCHANGED data
    /\ stale' = (s_rd_len = 1)
    /\ tx' = Null /\ rx' = Null /\ proc_opmode' = FALSE
    /\ UNCHANGED <<sysfs, proc, locks, s_rd_len, answer, calls, early, asked>>

axs_create_proc_file ==
    /\ Step("proc", "sysfs")
    /\ proc' \in BOOLEAN
    /\ UNCHANGED <<data, sysfs, bufs, locks, regs, calls, history>>

\* axs_debug_create_sysfs: the files are there before what they use.
CreateGroup ==
    /\ \/ Step("sysfs", "tx") /\ sysfs' = TRUE
       \/ Step("sysfs", "irq") /\ UNCHANGED sysfs
    /\ UNCHANGED <<data, proc, bufs, locks, regs, calls, history>>

CreateTx ==
    /\ \/ Step("tx", "rx") /\ tx' = "other"
       \/ Step("tx", "irq") /\ UNCHANGED tx
    /\ UNCHANGED <<data, sysfs, proc, rx, locks, regs, calls, history>>

CreateRx ==
    /\ \/ Step("rx", "mutex") /\ rx' = "other"
       \/ Step("rx", "irq") /\ UNCHANGED rx
    /\ UNCHANGED <<data, sysfs, proc, tx, locks, regs, calls, history>>

\* mutex_init of a mutex that a call may hold; those that wait for it then may be forgotten.
CreateMutex ==
    /\ Step("mutex", "irq")
    /\ mutex' = None /\ ready' = TRUE
    /\ early' = \E c \in Callers : Inside(c)
    /\ \E W \in SUBSET {c \in Callers : mutex # None /\ calls[c].step \in {"lock", "print"}} :
        calls' = [c \in Callers |-> IF c \in W THEN [calls[c] EXCEPT !.step = "lost"] ELSE calls[c]]
    /\ UNCHANGED <<data, sysfs, proc, bufs, bus, regs, stale, asked>>

axs_debug_create_sysfs == CreateGroup \/ CreateTx \/ CreateRx \/ CreateMutex

\* If the interrupt is refused the state is freed, but the files stay.
ProbeRequestIrq ==
    /\ \/ Step("irq", "bound") /\ UNCHANGED data
       \/ Step("irq", "orphan") /\ data' = FALSE
    /\ UNCHANGED <<sysfs, proc, bufs, locks, regs, calls, history>>

axs_ts_probe ==
    ProbeAllocate \/ axs_create_proc_file \/ axs_debug_create_sysfs \/ ProbeRequestIrq

\* The interrupt thread uses the controller in between.
axs_ts_interrupt ==
    /\ life \in {"bound", "freerx", "close", "drain", "procclose", "procdrain", "free"}
    /\ bus = None
    /\ answer' = "other"
    /\ UNCHANGED <<driver, bufs, locks, s_rd_len, proc_opmode, calls, history>>

----------------------------------------------------------------------------
\* axs_ts_remove.  The buffers are freed before the files that use them are closed; the
\* removal of a file refuses new calls, then waits for those that run.

Running(files) == \E c \in Callers : File(c) \in files /\ ~At(c, "idle")

FreeTx ==
    /\ Step("bound", "freerx")
    /\ tx' = Null
    /\ UNCHANGED <<data, sysfs, proc, rx, locks, regs, calls, history>>

FreeRx ==
    /\ Step("freerx", "close")
    /\ rx' = Null
    /\ asked' = "other"
    /\ UNCHANGED <<data, sysfs, proc, tx, locks, regs, calls, early, stale>>

CloseSysfs ==
    /\ Step("close", "drain")
    /\ sysfs' = FALSE
    /\ UNCHANGED <<data, proc, bufs, locks, regs, calls, history>>

DrainSysfs ==
    /\ Step("drain", "procclose") /\ ~Running(SysfsCalls)
    /\ UNCHANGED <<data, sysfs, proc, bufs, locks, regs, calls, history>>

axs_debug_remove_sysfs == FreeTx \/ FreeRx \/ CloseSysfs \/ DrainSysfs

CloseProc ==
    /\ Step("procclose", "procdrain")
    /\ proc' = FALSE
    /\ UNCHANGED <<data, sysfs, bufs, locks, regs, calls, history>>

DrainProc ==
    /\ Step("procdrain", "free") /\ ~Running(ProcCalls)
    /\ UNCHANGED <<data, sysfs, proc, bufs, locks, regs, calls, history>>

axs_release_proc_file == CloseProc \/ DrainProc

\* The rest of removal; TouchScreen models it.
RemoveFree ==
    /\ Step("free", "unbound")
    /\ data' = FALSE
    /\ UNCHANGED <<sysfs, proc, bufs, locks, regs, calls, history>>

\* A driver that was bound without its state cannot be removed: the first line of
\* axs_debug_remove_sysfs uses a null pointer.
RemoveHollow ==
    /\ Step("hollow", "stuck")
    /\ UNCHANGED <<data, sysfs, proc, bufs, locks, regs, calls, history>>

Remove == axs_debug_remove_sysfs \/ axs_release_proc_file \/ RemoveFree \/ RemoveHollow

----------------------------------------------------------------------------
Proceed(c) ==
    \/ Lock(c) \/ LockUninitialised(c) \/ axs_write_bytes_read_bytes(c)
    \/ axs_tprwreg_store(c) \/ axs_tprwreg_show(c) \/ axs_diff_show(c)
    \/ axs_driverversion_show(c) \/ axs_hw_reset_show(c) \/ axs_fwupgrade_store(c)
    \/ axs_proc_write(c) \/ axs_proc_read(c)

Next ==
    \/ axs_ts_probe \/ axs_ts_interrupt \/ Remove
    \/ \E c \in Callers : Proceed(c) \/ \E f \in SysfsCalls \cup ProcCalls : Call(c, f)

\* The kernel runs a call, and a removal, that have begun.
Fairness ==
    /\ \A c \in Callers : WF_vars(Proceed(c))
    /\ WF_vars(life # "bound" /\ Remove)

Spec == Init /\ [][Next]_vars /\ Fairness

----------------------------------------------------------------------------
\* Every variable stays in its range: what is sent and shown is always something that was
\* put there, and the length is the one of an answer or 0.
TypeOK ==
    /\ life \in {"unbound", "proc", "sysfs", "tx", "rx", "mutex", "irq", "bound", "orphan",
                 "hollow", "freerx", "close", "drain", "procclose", "procdrain", "free", "stuck"}
    /\ data \in BOOLEAN /\ sysfs \in BOOLEAN /\ proc \in BOOLEAN
    /\ tx \in Content \cup {Null} /\ rx \in Content \cup {Null}
    /\ mutex \in Callers \cup {None} /\ bus \in Callers \cup {None}
    /\ s_rd_len \in {0, 1} /\ proc_opmode \in BOOLEAN /\ answer \in Content /\ ready \in BOOLEAN
    /\ calls \in [Callers -> [file : SysfsCalls \cup ProcCalls \cup {"none"}, text : Content,
          step : UnderMutex \cup
            {"idle", "fault", "crash", "lost", "lock", "args", "send", "recv", "forget", "size",
             "version", "print", "pcheck", "pcopy", "pmode", "psend", "preset", "rcheck", "rrecv", "rout"}]]
    /\ early \in BOOLEAN /\ stale \in BOOLEAN /\ asked \in Regs \cup {"other"}

\* At most one register access, firmware load or reset through sysfs at a time, unless a
\* call was under the mutex when axs_debug_create_sysfs initialised it.
OneInside == early \/ \A c, d \in Callers : Inside(c) /\ Inside(d) => c = d

\* axs_rw_reg shows the answer to the register command written last, if its transfer
\* worked, no file without the mutex used a buffer in between, and the mutex was whole.
ShowsOwnAnswer ==
    [][\A c \in Callers :
        ShowFormat(c) /\ ~At(c, "fault")' /\ s_rd_len = 1 /\ asked # "other" /\ ~early =>
            rx = asked]_vars

Removing == {"freerx", "close", "drain", "procclose", "procdrain", "free"}

Crashed(c) == calls[c].step \in {"fault", "crash"}

\* Memory that is not there is only used during removal, after a probe that failed, by
\* axs_rw_reg for an answer left over from before the probe, or for a mutex in use that was
\* never initialised: the files check enough to be called one at a time before their
\* buffers are there, and when they never were.
FaultsOnlyAtTheEdges ==
    [][\A c \in Callers : ~Crashed(c) /\ Crashed(c)' =>
        \/ life \in Removing \cup {"orphan"}
        \/ File(c) = "show" /\ stale
        \/ ~ready /\ \E d \in Callers \ {c} : Inside(d) \/ At(d, "fault")]_vars

\* A removal that has begun ends, whatever calls are in progress, unless one has used
\* memory that is not there or waited for a mutex before it was initialised: then the file
\* it is in is never closed.
RemoveEnds ==
    life \in Removing ~> life = "unbound" \/ \E c \in Callers : Crashed(c) \/ At(c, "lost")
====
