---- MODULE TouchDebugProofs ----
\* Proofs about the debug files of the touch screen driver, for any number of callers and
\* register commands.
EXTENDS TouchDebug, TLAPS

USE CallersAssumption

\* From the allocation of the state to the end of probe.
Live == {"proc", "sysfs", "tx", "rx", "mutex", "irq", "bound"}

Idle(c) == At(c, "idle")

\* The steps of each file.
Places ==
    \A c \in Callers :
        /\ ~Idle(c) => File(c) \in SysfsCalls \cup ProcCalls
        /\ calls[c].step \in {"check", "fill", "len"} => File(c) \in {"rd", "wr"}
        /\ calls[c].step \in {"args", "send", "recv"} => File(c) \in {"rd", "wr", "dump"}
        /\ calls[c].step \in {"format", "forget"} => File(c) = "show"
        /\ At(c, "size") => File(c) = "dump"
        /\ At(c, "version") => File(c) = "version"
        /\ At(c, "print") => File(c) \in {"version", "dump"}
        /\ At(c, "lock") => File(c) \in {"rd", "wr", "show", "load", "reset"}
        /\ calls[c].step \in {"command", "end"} => File(c) = "load"
        /\ At(c, "reset") => File(c) = "reset"
        /\ calls[c].step \in {"pcheck", "pcopy", "pmode", "psend", "preset"} => File(c) = "pwrite"
        /\ calls[c].step \in {"rcheck", "rrecv", "rout"} => File(c) = "pread"

\* The state is there while probe and removal need it, and calls only come and stay
\* between the creation of a file and its removal.
Drains ==
    /\ data <=> life \in Live \cup Removing
    /\ life \in {"unbound", "hollow", "stuck", "proc"} =>
          ~sysfs /\ ~proc /\ \A c \in Callers : Idle(c)
    /\ life \in {"sysfs", "drain", "procclose", "procdrain", "free"} => ~sysfs
    /\ life \in {"sysfs", "procclose", "procdrain", "free"} => ~Running(SysfsCalls)
    /\ life \in {"procdrain", "free"} => ~proc
    /\ life = "free" => ~Running(ProcCalls)

NeedsTx(c) ==
    \/ calls[c].step \in {"fill", "pcopy", "pmode", "psend"}
    \/ calls[c].step \in {"args", "send"} /\ File(c) # "dump"
NeedsRx(c) ==
    \/ calls[c].step \in {"fill", "recv", "rrecv", "rout"}
    \/ calls[c].step \in {"args", "send", "len"} /\ File(c) # "dump"
    \/ calls[c].step \in {"send", "print"} /\ File(c) = "dump"

\* Until removal begins, a call that goes on to use a buffer has found it there, and an
\* answer that waits to be shown is in one, unless it is older than the probe.
Buffers ==
    life \in Live =>
        /\ \A c \in Callers : (NeedsTx(c) => tx # Null) /\ (NeedsRx(c) => rx # Null)
        /\ s_rd_len = 1 => rx # Null \/ stale

\* A mutex that is taken was taken by somebody inside, or by one that ended with it.
Taken == mutex # None => Inside(mutex) \/ At(mutex, "fault")

\* Who is inside holds the mutex, if it was not initialised under somebody.
Held == ~early => \A c \in Callers : Inside(c) => mutex = c

DebugInv == TypeOK /\ Places /\ Drains /\ Buffers /\ Taken /\ Held

----------------------------------------------------------------------------
\* The types in three parts: truth values, other values, the calls.
Truths ==
    /\ data \in BOOLEAN /\ sysfs \in BOOLEAN /\ proc \in BOOLEAN
    /\ ready \in BOOLEAN /\ proc_opmode \in BOOLEAN /\ early \in BOOLEAN /\ stale \in BOOLEAN

Values ==
    /\ life \in Live \cup Removing \cup {"unbound", "orphan", "hollow", "stuck"}
    /\ tx \in Content \cup {Null} /\ rx \in Content \cup {Null}
    /\ mutex \in Callers \cup {None} /\ bus \in Callers \cup {None}
    /\ s_rd_len \in {0, 1} /\ answer \in Content
    /\ asked \in Regs \cup {"other"}

Files == SysfsCalls \cup ProcCalls \cup {"none"}
AllSteps == UnderMutex \cup
    {"idle", "fault", "crash", "lost", "lock", "args", "send", "recv", "forget", "size",
     "version", "print", "pcheck", "pcopy", "pmode", "psend", "preset", "rcheck", "rrecv", "rout"}
CallTypes == calls \in [Callers -> [file : Files, text : Content, step : AllSteps]]

LEMMA TypeParts ==
    (TypeOK <=> Truths /\ Values /\ CallTypes) /\ (TypeOK' <=> Truths' /\ Values' /\ CallTypes')
BY DEF TypeOK, Truths, Values, CallTypes, Files, AllSteps, Live, Removing

\* Where a call goes once it has the mutex.
LEMMA LockTarget ==
    ASSUME NEW c \in Callers, Places, Lock(c)
    PROVE  \/ File(c) \in {"rd", "wr"} /\ Goto(c, "check")
           \/ File(c) = "show" /\ Goto(c, "format")
           \/ File(c) = "load" /\ Goto(c, "command")
           \/ File(c) = "reset" /\ Goto(c, "reset")
<1>1. File(c) \in {"rd", "wr", "show", "load", "reset"}
  BY DEF Places, Lock
<1>2. Goto(c, CASE File(c) \in {"rd", "wr"} -> "check" [] File(c) = "show" -> "format"
                [] File(c) = "load" -> "command"
                [] File(c) = "reset" -> "reset")
  BY DEF Lock
<1>3. CASE File(c) \in {"rd", "wr"}
  BY <1>2, <1>3, Zenon DEF Goto
<1>4. CASE File(c) = "show"
  BY <1>2, <1>4 DEF Goto
<1>5. CASE File(c) = "load"
  BY <1>2, <1>5 DEF Goto
<1>6. CASE File(c) = "reset"
  BY <1>2, <1>6 DEF Goto
<1> QED
  BY <1>1, <1>3, <1>4, <1>5, <1>6

\* Where a call starts.
LEMMA CallTarget ==
    ASSUME NEW f \in SysfsCalls \cup ProcCalls
    PROVE  FirstStep(f) \in {"lock", "version", "size", "pcheck", "rcheck"}
BY Zenon DEF FirstStep, SysfsCalls, ProcCalls

\* Giving the mutex back either ends a time in which it was not whole, or is done by its holder.
LEMMA UnlockKeeps ==
    ASSUME NEW c \in Callers, Held, Unlock(c), Inside(c), ~Inside(c)',
           \A d \in Callers \ {c} : Inside(d)' => Inside(d)
    PROVE  Held'
<1> SUFFICES ASSUME ~early', NEW d \in Callers, Inside(d)' PROVE FALSE
  BY DEF Held
<1>1. d # c /\ Inside(d)
  OBVIOUS
<1>2. ~early
  BY <1>1 DEF Unlock
<1> QED
  BY <1>1, <1>2 DEF Held

LEMMA TruthsStep ==
    Truths /\ [Next]_vars => Truths'
<1> SUFFICES ASSUME Truths, [Next]_vars
             PROVE  Truths'
  OBVIOUS
<1> USE DEF Truths, vars, driver, bufs, locks, regs, history, Unlock, Keep, Step
<1>1. ASSUME NEW c \in Callers, Proceed(c)
      PROVE  Truths'
  <2>1. CASE StoreCheck(c)
    BY <2>1 DEF StoreCheck
  <2>2. CASE StoreFill(c)
    BY <2>2 DEF StoreFill
  <2>3. CASE StoreLen(c)
    BY <2>3 DEF StoreLen
  <2>4. CASE ShowFormat(c)
    BY <2>4 DEF ShowFormat
  <2>5. CASE ShowReset(c)
    BY <2>5 DEF ShowReset
  <2>6. CASE BusArgs(c)
    BY <2>6 DEF BusArgs
  <2>7. CASE BusSend(c)
    BY <2>7 DEF BusSend
  <2>8. CASE BusReceive(c)
    BY <2>8 DEF BusReceive
  <2>9. CASE DumpSize(c)
    BY <2>9 DEF DumpSize
  <2>10. CASE DumpFormat(c)
    BY <2>10 DEF DumpFormat
  <2>11. CASE VersionRead(c)
    BY <2>11 DEF VersionRead
  <2>12. CASE VersionPrint(c)
    BY <2>12 DEF VersionPrint
  <2>13. CASE LoadCommand(c)
    BY <2>13 DEF LoadCommand
  <2>14. CASE LoadEnd(c)
    BY <2>14 DEF LoadEnd
  <2>15. CASE ProcCheck(c)
    BY <2>15 DEF ProcCheck
  <2>16. CASE ProcCopy(c)
    BY <2>16 DEF ProcCopy
  <2>17. CASE ProcMode(c)
    BY <2>17 DEF ProcMode
  <2>18. CASE ProcSend(c)
    BY <2>18 DEF ProcSend
  <2>19. CASE ProcReset(c)
    BY <2>19 DEF ProcReset
  <2>20. CASE ProcReadCheck(c)
    BY <2>20 DEF ProcReadCheck
  <2>21. CASE ProcReceive(c)
    BY <2>21 DEF ProcReceive
  <2>22. CASE ProcOut(c)
    BY <2>22 DEF ProcOut
  <2>23. CASE Lock(c)
    BY <2>23 DEF Lock
  <2>24. CASE axs_hw_reset_show(c)
    BY <2>24 DEF axs_hw_reset_show
  <2>25. CASE LockUninitialised(c)
    BY <2>25 DEF LockUninitialised
  <2> QED
    BY <1>1, <2>1, <2>2, <2>3, <2>4, <2>5, <2>6, <2>7, <2>8, <2>9,
       <2>10, <2>11, <2>12, <2>13, <2>14, <2>15, <2>16, <2>17, <2>18,
       <2>19, <2>20, <2>21, <2>22, <2>23, <2>24, <2>25
    DEF Proceed, axs_tprwreg_store, axs_tprwreg_show, axs_write_bytes_read_bytes,
      axs_diff_show, axs_driverversion_show, axs_fwupgrade_store, axs_proc_write,
      axs_proc_read
<1>2. ASSUME NEW c \in Callers, NEW f \in SysfsCalls \cup ProcCalls, Call(c, f)
      PROVE  Truths'
  BY <1>2 DEF Call, FirstStep, Texts
<1>3. CASE axs_ts_probe
  <2>1. CASE ProbeAllocate
    BY <2>1 DEF ProbeAllocate
  <2>2. CASE axs_create_proc_file
    BY <2>2 DEF axs_create_proc_file
  <2>3. CASE CreateGroup
    BY <2>3 DEF CreateGroup
  <2>4. CASE CreateTx
    BY <2>4 DEF CreateTx
  <2>5. CASE CreateRx
    BY <2>5 DEF CreateRx
  <2>6. CASE CreateMutex
    BY <2>6 DEF CreateMutex
  <2>7. CASE ProbeRequestIrq
    BY <2>7 DEF ProbeRequestIrq
  <2> QED
    BY <1>3, <2>1, <2>2, <2>3, <2>4, <2>5, <2>6, <2>7 DEF axs_ts_probe, axs_debug_create_sysfs
<1>4. CASE Remove
  <2>1. CASE FreeTx
    BY <2>1 DEF FreeTx
  <2>2. CASE FreeRx
    BY <2>2 DEF FreeRx
  <2>3. CASE CloseSysfs
    BY <2>3 DEF CloseSysfs
  <2>4. CASE DrainSysfs
    BY <2>4 DEF DrainSysfs
  <2>5. CASE CloseProc
    BY <2>5 DEF CloseProc
  <2>6. CASE DrainProc
    BY <2>6 DEF DrainProc
  <2>7. CASE RemoveFree
    BY <2>7 DEF RemoveFree
  <2>8. CASE RemoveHollow
    BY <2>8 DEF RemoveHollow
  <2> QED
    BY <1>4, <2>1, <2>2, <2>3, <2>4, <2>5, <2>6, <2>7, <2>8 DEF Remove,
      axs_debug_remove_sysfs, axs_release_proc_file
<1>5. CASE axs_ts_interrupt
  BY <1>5 DEF axs_ts_interrupt
<1>6. CASE UNCHANGED vars
  BY <1>6
<1> QED
  BY <1>1, <1>2, <1>3, <1>4, <1>5, <1>6 DEF Next

\* A call that ends in the middle of its file is still a call.
LEMMA EndTypes ==
    ASSUME NEW F, NEW T, NEW S, NEW r \in [file : F, text : T, step : S], NEW s \in S, NEW t \in T
    PROVE  [r EXCEPT !.step = s, !.text = t] \in [file : F, text : T, step : S]
OBVIOUS

LEMMA CallsStep ==
    Values /\ CallTypes /\ Places /\ [Next]_vars => CallTypes'
<1> SUFFICES ASSUME Values /\ CallTypes /\ Places, [Next]_vars
             PROVE  CallTypes'
  OBVIOUS
<1> USE DEF Values, CallTypes, Files, AllSteps, UnderMutex, Content, SysfsCalls, ProcCalls,
  vars, driver, bufs, locks, regs, history, At, Goto, Return, Fault, File, Text, NoCall, Step,
  Unlock, Keep, Refused, Failed, Arrived
<1>1. ASSUME NEW c \in Callers, Proceed(c)
      PROVE  CallTypes'
  <2>1. CASE StoreCheck(c)
    BY <2>1 DEF StoreCheck
  <2>2. CASE StoreFill(c)
    BY <2>2 DEF StoreFill
  <2>3. CASE StoreLen(c)
    BY <2>3 DEF StoreLen
  <2>4. CASE ShowFormat(c)
    BY <2>4 DEF ShowFormat
  <2>5. CASE ShowReset(c)
    BY <2>5 DEF ShowReset
  <2>6. CASE BusArgs(c)
    BY <2>6 DEF BusArgs
  <2>7. CASE BusSend(c)
    BY <2>7 DEF BusSend
  <2>8. CASE BusReceive(c)
    BY <2>8 DEF BusReceive
  <2>9. CASE DumpSize(c)
    BY <2>9 DEF DumpSize
  <2>10. CASE DumpFormat(c)
    BY <2>10 DEF DumpFormat
  <2>11. CASE VersionRead(c)
    BY <2>11 DEF VersionRead
  <2>12. CASE VersionPrint(c)
    BY <2>12 DEF VersionPrint
  <2>13. CASE LoadCommand(c)
    BY <2>13 DEF LoadCommand
  <2>14. CASE LoadEnd(c)
    BY <2>14 DEF LoadEnd
  <2>15. CASE ProcCheck(c)
    BY <2>15 DEF ProcCheck
  <2>16. CASE ProcCopy(c)
    BY <2>16 DEF ProcCopy
  <2>17. CASE ProcMode(c)
    BY <2>17 DEF ProcMode
  <2>18. CASE ProcSend(c)
    BY <2>18 DEF ProcSend
  <2>19. CASE ProcReset(c)
    BY <2>19 DEF ProcReset
  <2>20. CASE ProcReadCheck(c)
    BY <2>20 DEF ProcReadCheck
  <2>21. CASE ProcReceive(c)
    BY <2>21 DEF ProcReceive
  <2>22. CASE ProcOut(c)
    BY <2>22 DEF ProcOut
  <2>23. CASE Lock(c)
    BY <2>23, LockTarget
  <2>24. CASE axs_hw_reset_show(c)
    BY <2>24 DEF axs_hw_reset_show
  <2>25. CASE LockUninitialised(c)
    <3>1. PICK end \in {"crash", "lost"} :
            calls' = [calls EXCEPT ![c] = [calls[c] EXCEPT !.step = end, !.text = "other"]]
      BY <2>25 DEF LockUninitialised
    <3>2. calls[c] \in [file : Files, text : Content, step : AllSteps]
          /\ end \in AllSteps /\ "other" \in Content
      OBVIOUS
    <3> HIDE DEF Files, AllSteps, Content
    <3>3. [calls[c] EXCEPT !.step = end, !.text = "other"]
            \in [file : Files, text : Content, step : AllSteps]
      BY <3>2, EndTypes
    <3> QED
      BY <3>1, <3>3
  <2> QED
    BY <1>1, <2>1, <2>2, <2>3, <2>4, <2>5, <2>6, <2>7, <2>8, <2>9,
       <2>10, <2>11, <2>12, <2>13, <2>14, <2>15, <2>16, <2>17, <2>18,
       <2>19, <2>20, <2>21, <2>22, <2>23, <2>24, <2>25
    DEF Proceed, axs_tprwreg_store, axs_tprwreg_show, axs_write_bytes_read_bytes,
      axs_diff_show, axs_driverversion_show, axs_fwupgrade_store, axs_proc_write,
      axs_proc_read
<1>2. ASSUME NEW c \in Callers, NEW f \in SysfsCalls \cup ProcCalls, Call(c, f)
      PROVE  CallTypes'
  BY <1>2 DEF Call, FirstStep, Texts
<1>3. CASE axs_ts_probe
  <2>1. CASE ProbeAllocate
    BY <2>1 DEF ProbeAllocate
  <2>2. CASE axs_create_proc_file
    BY <2>2 DEF axs_create_proc_file
  <2>3. CASE CreateGroup
    BY <2>3 DEF CreateGroup
  <2>4. CASE CreateTx
    BY <2>4 DEF CreateTx
  <2>5. CASE CreateRx
    BY <2>5 DEF CreateRx
  <2>6. CASE CreateMutex
    BY <2>6 DEF CreateMutex
  <2>7. CASE ProbeRequestIrq
    BY <2>7 DEF ProbeRequestIrq
  <2> QED
    BY <1>3, <2>1, <2>2, <2>3, <2>4, <2>5, <2>6, <2>7 DEF axs_ts_probe, axs_debug_create_sysfs
<1>4. CASE Remove
  <2>1. CASE FreeTx
    BY <2>1 DEF FreeTx
  <2>2. CASE FreeRx
    BY <2>2 DEF FreeRx
  <2>3. CASE CloseSysfs
    BY <2>3 DEF CloseSysfs
  <2>4. CASE DrainSysfs
    BY <2>4 DEF DrainSysfs
  <2>5. CASE CloseProc
    BY <2>5 DEF CloseProc
  <2>6. CASE DrainProc
    BY <2>6 DEF DrainProc
  <2>7. CASE RemoveFree
    BY <2>7 DEF RemoveFree
  <2>8. CASE RemoveHollow
    BY <2>8 DEF RemoveHollow
  <2> QED
    BY <1>4, <2>1, <2>2, <2>3, <2>4, <2>5, <2>6, <2>7, <2>8 DEF Remove,
      axs_debug_remove_sysfs, axs_release_proc_file
<1>5. CASE axs_ts_interrupt
  BY <1>5 DEF axs_ts_interrupt
<1>6. CASE UNCHANGED vars
  BY <1>6
<1> QED
  BY <1>1, <1>2, <1>3, <1>4, <1>5, <1>6 DEF Next

LEMMA ValuesStep ==
    Values /\ CallTypes /\ [Next]_vars => Values'
<1> SUFFICES ASSUME Values /\ CallTypes, [Next]_vars
             PROVE  Values'
  OBVIOUS
<1> USE DEF Values, CallTypes, Files, Live, Removing, Content, vars, driver, bufs, locks,
  regs, history, At, Goto, Return, Fault, File, Text, NoCall, Step, Unlock, Keep, Null,
  axs_reset_proc, Exchange, Command, Overwritten, Disturbed, Miss
<1>1. ASSUME NEW c \in Callers, Proceed(c)
      PROVE  Values'
  <2>1. CASE StoreCheck(c)
    BY <2>1 DEF StoreCheck
  <2>2. CASE StoreFill(c)
    BY <2>2 DEF StoreFill
  <2>3. CASE StoreLen(c)
    BY <2>3 DEF StoreLen
  <2>4. CASE ShowFormat(c)
    BY <2>4 DEF ShowFormat
  <2>5. CASE ShowReset(c)
    BY <2>5 DEF ShowReset
  <2>6. CASE BusArgs(c)
    BY <2>6 DEF BusArgs
  <2>7. CASE BusSend(c)
    BY <2>7 DEF BusSend
  <2>8. CASE BusReceive(c)
    BY <2>8 DEF BusReceive
  <2>9. CASE DumpSize(c)
    BY <2>9 DEF DumpSize
  <2>10. CASE DumpFormat(c)
    BY <2>10 DEF DumpFormat
  <2>11. CASE VersionRead(c)
    BY <2>11 DEF VersionRead
  <2>12. CASE VersionPrint(c)
    BY <2>12 DEF VersionPrint
  <2>13. CASE LoadCommand(c)
    BY <2>13 DEF LoadCommand
  <2>14. CASE LoadEnd(c)
    BY <2>14 DEF LoadEnd
  <2>15. CASE ProcCheck(c)
    BY <2>15 DEF ProcCheck
  <2>16. CASE ProcCopy(c)
    BY <2>16 DEF ProcCopy
  <2>17. CASE ProcMode(c)
    BY <2>17 DEF ProcMode
  <2>18. CASE ProcSend(c)
    BY <2>18 DEF ProcSend
  <2>19. CASE ProcReset(c)
    BY <2>19 DEF ProcReset
  <2>20. CASE ProcReadCheck(c)
    BY <2>20 DEF ProcReadCheck
  <2>21. CASE ProcReceive(c)
    BY <2>21 DEF ProcReceive
  <2>22. CASE ProcOut(c)
    BY <2>22 DEF ProcOut
  <2>23. CASE Lock(c)
    BY <2>23 DEF Lock
  <2>24. CASE axs_hw_reset_show(c)
    BY <2>24 DEF axs_hw_reset_show
  <2>25. CASE LockUninitialised(c)
    BY <2>25 DEF LockUninitialised
  <2> QED
    BY <1>1, <2>1, <2>2, <2>3, <2>4, <2>5, <2>6, <2>7, <2>8, <2>9,
       <2>10, <2>11, <2>12, <2>13, <2>14, <2>15, <2>16, <2>17, <2>18,
       <2>19, <2>20, <2>21, <2>22, <2>23, <2>24, <2>25
    DEF Proceed, axs_tprwreg_store, axs_tprwreg_show, axs_write_bytes_read_bytes,
      axs_diff_show, axs_driverversion_show, axs_fwupgrade_store, axs_proc_write,
      axs_proc_read
<1>2. ASSUME NEW c \in Callers, NEW f \in SysfsCalls \cup ProcCalls, Call(c, f)
      PROVE  Values'
  BY <1>2 DEF Call, FirstStep, Texts
<1>3. CASE axs_ts_probe
  <2>1. CASE ProbeAllocate
    BY <2>1 DEF ProbeAllocate
  <2>2. CASE axs_create_proc_file
    BY <2>2 DEF axs_create_proc_file
  <2>3. CASE CreateGroup
    BY <2>3 DEF CreateGroup
  <2>4. CASE CreateTx
    BY <2>4 DEF CreateTx
  <2>5. CASE CreateRx
    BY <2>5 DEF CreateRx
  <2>6. CASE CreateMutex
    BY <2>6 DEF CreateMutex
  <2>7. CASE ProbeRequestIrq
    BY <2>7 DEF ProbeRequestIrq
  <2> QED
    BY <1>3, <2>1, <2>2, <2>3, <2>4, <2>5, <2>6, <2>7 DEF axs_ts_probe, axs_debug_create_sysfs
<1>4. CASE Remove
  <2>1. CASE FreeTx
    BY <2>1 DEF FreeTx
  <2>2. CASE FreeRx
    BY <2>2 DEF FreeRx
  <2>3. CASE CloseSysfs
    BY <2>3 DEF CloseSysfs
  <2>4. CASE DrainSysfs
    BY <2>4 DEF DrainSysfs
  <2>5. CASE CloseProc
    BY <2>5 DEF CloseProc
  <2>6. CASE DrainProc
    BY <2>6 DEF DrainProc
  <2>7. CASE RemoveFree
    BY <2>7 DEF RemoveFree
  <2>8. CASE RemoveHollow
    BY <2>8 DEF RemoveHollow
  <2> QED
    BY <1>4, <2>1, <2>2, <2>3, <2>4, <2>5, <2>6, <2>7, <2>8 DEF Remove,
      axs_debug_remove_sysfs, axs_release_proc_file
<1>5. CASE axs_ts_interrupt
  BY <1>5 DEF axs_ts_interrupt
<1>6. CASE UNCHANGED vars
  BY <1>6
<1> QED
  BY <1>1, <1>2, <1>3, <1>4, <1>5, <1>6 DEF Next

LEMMA PlacesStep ==
    CallTypes /\ Places /\ [Next]_vars => Places'
<1> SUFFICES ASSUME CallTypes /\ Places, [Next]_vars
             PROVE  Places'
  OBVIOUS
<1> USE DEF CallTypes, Files, AllSteps, UnderMutex, SysfsCalls, ProcCalls, Places, Idle, vars,
  driver, bufs, locks, regs, history, At, Goto, Return, Fault, File, Text, NoCall, Step,
  Unlock, Keep, Refused, Failed, Arrived
<1>1. ASSUME NEW c \in Callers, Proceed(c)
      PROVE  Places'
  <2>1. CASE StoreCheck(c)
    BY <2>1 DEF StoreCheck
  <2>2. CASE StoreFill(c)
    BY <2>2 DEF StoreFill
  <2>3. CASE StoreLen(c)
    BY <2>3 DEF StoreLen
  <2>4. CASE ShowFormat(c)
    BY <2>4 DEF ShowFormat
  <2>5. CASE ShowReset(c)
    BY <2>5 DEF ShowReset
  <2>6. CASE BusArgs(c)
    BY <2>6 DEF BusArgs
  <2>7. CASE BusSend(c)
    BY <2>7 DEF BusSend
  <2>8. CASE BusReceive(c)
    BY <2>8 DEF BusReceive
  <2>9. CASE DumpSize(c)
    BY <2>9 DEF DumpSize
  <2>10. CASE DumpFormat(c)
    BY <2>10 DEF DumpFormat
  <2>11. CASE VersionRead(c)
    BY <2>11 DEF VersionRead
  <2>12. CASE VersionPrint(c)
    BY <2>12 DEF VersionPrint
  <2>13. CASE LoadCommand(c)
    BY <2>13 DEF LoadCommand
  <2>14. CASE LoadEnd(c)
    BY <2>14 DEF LoadEnd
  <2>15. CASE ProcCheck(c)
    BY <2>15 DEF ProcCheck
  <2>16. CASE ProcCopy(c)
    BY <2>16 DEF ProcCopy
  <2>17. CASE ProcMode(c)
    BY <2>17 DEF ProcMode
  <2>18. CASE ProcSend(c)
    BY <2>18 DEF ProcSend
  <2>19. CASE ProcReset(c)
    BY <2>19 DEF ProcReset
  <2>20. CASE ProcReadCheck(c)
    BY <2>20 DEF ProcReadCheck
  <2>21. CASE ProcReceive(c)
    BY <2>21 DEF ProcReceive
  <2>22. CASE ProcOut(c)
    BY <2>22 DEF ProcOut
  <2>23. CASE Lock(c)
    BY <2>23, LockTarget DEF Lock
  <2>24. CASE axs_hw_reset_show(c)
    BY <2>24 DEF axs_hw_reset_show
  <2>25. CASE LockUninitialised(c)
    BY <2>25 DEF LockUninitialised
  <2> QED
    BY <1>1, <2>1, <2>2, <2>3, <2>4, <2>5, <2>6, <2>7, <2>8, <2>9,
       <2>10, <2>11, <2>12, <2>13, <2>14, <2>15, <2>16, <2>17, <2>18,
       <2>19, <2>20, <2>21, <2>22, <2>23, <2>24, <2>25
    DEF Proceed, axs_tprwreg_store, axs_tprwreg_show, axs_write_bytes_read_bytes,
      axs_diff_show, axs_driverversion_show, axs_fwupgrade_store, axs_proc_write,
      axs_proc_read
<1>2. ASSUME NEW c \in Callers, NEW f \in SysfsCalls \cup ProcCalls, Call(c, f)
      PROVE  Places'
  BY <1>2 DEF Call, FirstStep, Texts
<1>3. CASE axs_ts_probe
  <2>1. CASE ProbeAllocate
    BY <2>1 DEF ProbeAllocate
  <2>2. CASE axs_create_proc_file
    BY <2>2 DEF axs_create_proc_file
  <2>3. CASE CreateGroup
    BY <2>3 DEF CreateGroup
  <2>4. CASE CreateTx
    BY <2>4 DEF CreateTx
  <2>5. CASE CreateRx
    BY <2>5 DEF CreateRx
  <2>6. CASE CreateMutex
    BY <2>6 DEF CreateMutex
  <2>7. CASE ProbeRequestIrq
    BY <2>7 DEF ProbeRequestIrq
  <2> QED
    BY <1>3, <2>1, <2>2, <2>3, <2>4, <2>5, <2>6, <2>7 DEF axs_ts_probe, axs_debug_create_sysfs
<1>4. CASE Remove
  <2>1. CASE FreeTx
    BY <2>1 DEF FreeTx
  <2>2. CASE FreeRx
    BY <2>2 DEF FreeRx
  <2>3. CASE CloseSysfs
    BY <2>3 DEF CloseSysfs
  <2>4. CASE DrainSysfs
    BY <2>4 DEF DrainSysfs
  <2>5. CASE CloseProc
    BY <2>5 DEF CloseProc
  <2>6. CASE DrainProc
    BY <2>6 DEF DrainProc
  <2>7. CASE RemoveFree
    BY <2>7 DEF RemoveFree
  <2>8. CASE RemoveHollow
    BY <2>8 DEF RemoveHollow
  <2> QED
    BY <1>4, <2>1, <2>2, <2>3, <2>4, <2>5, <2>6, <2>7, <2>8 DEF Remove,
      axs_debug_remove_sysfs, axs_release_proc_file
<1>5. CASE axs_ts_interrupt
  BY <1>5 DEF axs_ts_interrupt
<1>6. CASE UNCHANGED vars
  BY <1>6
<1> QED
  BY <1>1, <1>2, <1>3, <1>4, <1>5, <1>6 DEF Next

LEMMA BuffersStep ==
    Values /\ CallTypes /\ Places /\ Drains /\ Buffers /\ [Next]_vars => Buffers'
<1> SUFFICES ASSUME Values /\ CallTypes /\ Places /\ Drains /\ Buffers, [Next]_vars
             PROVE  Buffers'
  OBVIOUS
<1> USE DEF Values, CallTypes, Content, Live, Removing, Null, Buffers, NeedsTx, NeedsRx, vars,
  driver, bufs, locks, regs, history, At, Goto, Return, Fault, File, Text, NoCall, Step,
  Unlock, Keep, Refused, Failed, Arrived, Places, Drains, Idle
<1>1. ASSUME NEW c \in Callers, Proceed(c)
      PROVE  Buffers'
  <2>1. CASE StoreCheck(c)
    BY <2>1 DEF StoreCheck
  <2>2. CASE StoreFill(c)
    BY <2>2 DEF StoreFill
  <2>3. CASE StoreLen(c)
    BY <2>3 DEF StoreLen
  <2>4. CASE ShowFormat(c)
    BY <2>4 DEF ShowFormat
  <2>5. CASE ShowReset(c)
    BY <2>5 DEF ShowReset
  <2>6. CASE BusArgs(c)
    BY <2>6 DEF BusArgs
  <2>7. CASE BusSend(c)
    BY <2>7 DEF BusSend
  <2>8. CASE BusReceive(c)
    BY <2>8 DEF BusReceive
  <2>9. CASE DumpSize(c)
    BY <2>9 DEF DumpSize
  <2>10. CASE DumpFormat(c)
    BY <2>10 DEF DumpFormat
  <2>11. CASE VersionRead(c)
    BY <2>11 DEF VersionRead
  <2>12. CASE VersionPrint(c)
    BY <2>12 DEF VersionPrint
  <2>13. CASE LoadCommand(c)
    BY <2>13 DEF LoadCommand
  <2>14. CASE LoadEnd(c)
    BY <2>14 DEF LoadEnd
  <2>15. CASE ProcCheck(c)
    BY <2>15 DEF ProcCheck
  <2>16. CASE ProcCopy(c)
    BY <2>16 DEF ProcCopy
  <2>17. CASE ProcMode(c)
    BY <2>17 DEF ProcMode
  <2>18. CASE ProcSend(c)
    BY <2>18 DEF ProcSend
  <2>19. CASE ProcReset(c)
    BY <2>19 DEF ProcReset
  <2>20. CASE ProcReadCheck(c)
    BY <2>20 DEF ProcReadCheck
  <2>21. CASE ProcReceive(c)
    BY <2>21 DEF ProcReceive
  <2>22. CASE ProcOut(c)
    BY <2>22 DEF ProcOut
  <2>23. CASE Lock(c)
    BY <2>23, LockTarget DEF Lock
  <2>24. CASE axs_hw_reset_show(c)
    BY <2>24 DEF axs_hw_reset_show
  <2>25. CASE LockUninitialised(c)
    BY <2>25 DEF LockUninitialised
  <2> QED
    BY <1>1, <2>1, <2>2, <2>3, <2>4, <2>5, <2>6, <2>7, <2>8, <2>9,
       <2>10, <2>11, <2>12, <2>13, <2>14, <2>15, <2>16, <2>17, <2>18,
       <2>19, <2>20, <2>21, <2>22, <2>23, <2>24, <2>25
    DEF Proceed, axs_tprwreg_store, axs_tprwreg_show, axs_write_bytes_read_bytes,
      axs_diff_show, axs_driverversion_show, axs_fwupgrade_store, axs_proc_write,
      axs_proc_read
<1>2. ASSUME NEW c \in Callers, NEW f \in SysfsCalls \cup ProcCalls, Call(c, f)
      PROVE  Buffers'
  BY <1>2, CallTarget DEF Call, Texts
<1>3. CASE axs_ts_probe
  <2>1. CASE ProbeAllocate
    BY <2>1 DEF ProbeAllocate
  <2>2. CASE axs_create_proc_file
    BY <2>2 DEF axs_create_proc_file
  <2>3. CASE CreateGroup
    BY <2>3 DEF CreateGroup
  <2>4. CASE CreateTx
    BY <2>4 DEF CreateTx
  <2>5. CASE CreateRx
    BY <2>5 DEF CreateRx
  <2>6. CASE CreateMutex
    BY <2>6 DEF CreateMutex
  <2>7. CASE ProbeRequestIrq
    BY <2>7 DEF ProbeRequestIrq
  <2> QED
    BY <1>3, <2>1, <2>2, <2>3, <2>4, <2>5, <2>6, <2>7 DEF axs_ts_probe, axs_debug_create_sysfs
<1>4. CASE Remove
  <2>1. CASE FreeTx
    BY <2>1 DEF FreeTx
  <2>2. CASE FreeRx
    BY <2>2 DEF FreeRx
  <2>3. CASE CloseSysfs
    BY <2>3 DEF CloseSysfs
  <2>4. CASE DrainSysfs
    BY <2>4 DEF DrainSysfs
  <2>5. CASE CloseProc
    BY <2>5 DEF CloseProc
  <2>6. CASE DrainProc
    BY <2>6 DEF DrainProc
  <2>7. CASE RemoveFree
    BY <2>7 DEF RemoveFree
  <2>8. CASE RemoveHollow
    BY <2>8 DEF RemoveHollow
  <2> QED
    BY <1>4, <2>1, <2>2, <2>3, <2>4, <2>5, <2>6, <2>7, <2>8 DEF Remove,
      axs_debug_remove_sysfs, axs_release_proc_file
<1>5. CASE axs_ts_interrupt
  BY <1>5 DEF axs_ts_interrupt
<1>6. CASE UNCHANGED vars
  BY <1>6
<1> QED
  BY <1>1, <1>2, <1>3, <1>4, <1>5, <1>6 DEF Next

LEMMA HeldStep ==
    Values /\ CallTypes /\ Places /\ Held /\ [Next]_vars => Held'
<1> SUFFICES ASSUME Values /\ CallTypes /\ Places /\ Held, [Next]_vars
             PROVE  Held'
  OBVIOUS
<1> USE DEF Values, CallTypes, Held, Inside, UnderMutex, vars, driver, bufs, locks, regs,
  history, At, Goto, Return, Fault, File, Text, NoCall, Step, Unlock, Keep, Refused, Failed,
  Arrived, Places, Idle
<1>1. ASSUME NEW c \in Callers, Proceed(c)
      PROVE  Held'
  <2>1. CASE StoreCheck(c)
    BY <2>1, UnlockKeeps DEF StoreCheck
  <2>2. CASE StoreFill(c)
    BY <2>2 DEF StoreFill
  <2>3. CASE StoreLen(c)
    BY <2>3 DEF StoreLen
  <2>4. CASE ShowFormat(c)
    BY <2>4, UnlockKeeps DEF ShowFormat
  <2>5. CASE ShowReset(c)
    BY <2>5 DEF ShowReset
  <2>6. CASE BusArgs(c)
    BY <2>6 DEF BusArgs
  <2>7. CASE BusSend(c)
    BY <2>7 DEF BusSend
  <2>8. CASE BusReceive(c)
    BY <2>8 DEF BusReceive
  <2>9. CASE DumpSize(c)
    BY <2>9 DEF DumpSize
  <2>10. CASE DumpFormat(c)
    BY <2>10 DEF DumpFormat
  <2>11. CASE VersionRead(c)
    BY <2>11 DEF VersionRead
  <2>12. CASE VersionPrint(c)
    BY <2>12 DEF VersionPrint
  <2>13. CASE LoadCommand(c)
    BY <2>13, UnlockKeeps DEF LoadCommand
  <2>14. CASE LoadEnd(c)
    BY <2>14, UnlockKeeps DEF LoadEnd
  <2>15. CASE ProcCheck(c)
    BY <2>15 DEF ProcCheck
  <2>16. CASE ProcCopy(c)
    BY <2>16 DEF ProcCopy
  <2>17. CASE ProcMode(c)
    BY <2>17 DEF ProcMode
  <2>18. CASE ProcSend(c)
    BY <2>18 DEF ProcSend
  <2>19. CASE ProcReset(c)
    BY <2>19 DEF ProcReset
  <2>20. CASE ProcReadCheck(c)
    BY <2>20 DEF ProcReadCheck
  <2>21. CASE ProcReceive(c)
    BY <2>21 DEF ProcReceive
  <2>22. CASE ProcOut(c)
    BY <2>22 DEF ProcOut
  <2>23. CASE Lock(c)
    BY <2>23, LockTarget DEF Lock
  <2>24. CASE axs_hw_reset_show(c)
    BY <2>24, UnlockKeeps DEF axs_hw_reset_show
  <2>25. CASE LockUninitialised(c)
    BY <2>25 DEF LockUninitialised
  <2> QED
    BY <1>1, <2>1, <2>2, <2>3, <2>4, <2>5, <2>6, <2>7, <2>8, <2>9,
       <2>10, <2>11, <2>12, <2>13, <2>14, <2>15, <2>16, <2>17, <2>18,
       <2>19, <2>20, <2>21, <2>22, <2>23, <2>24, <2>25
    DEF Proceed, axs_tprwreg_store, axs_tprwreg_show, axs_write_bytes_read_bytes,
      axs_diff_show, axs_driverversion_show, axs_fwupgrade_store, axs_proc_write,
      axs_proc_read
<1>2. ASSUME NEW c \in Callers, NEW f \in SysfsCalls \cup ProcCalls, Call(c, f)
      PROVE  Held'
  BY <1>2, CallTarget DEF Call, Texts
<1>3. CASE axs_ts_probe
  <2>1. CASE ProbeAllocate
    BY <2>1 DEF ProbeAllocate
  <2>2. CASE axs_create_proc_file
    BY <2>2 DEF axs_create_proc_file
  <2>3. CASE CreateGroup
    BY <2>3 DEF CreateGroup
  <2>4. CASE CreateTx
    BY <2>4 DEF CreateTx
  <2>5. CASE CreateRx
    BY <2>5 DEF CreateRx
  <2>6. CASE CreateMutex
    BY <2>6 DEF CreateMutex
  <2>7. CASE ProbeRequestIrq
    BY <2>7 DEF ProbeRequestIrq
  <2> QED
    BY <1>3, <2>1, <2>2, <2>3, <2>4, <2>5, <2>6, <2>7 DEF axs_ts_probe, axs_debug_create_sysfs
<1>4. CASE Remove
  <2>1. CASE FreeTx
    BY <2>1 DEF FreeTx
  <2>2. CASE FreeRx
    BY <2>2 DEF FreeRx
  <2>3. CASE CloseSysfs
    BY <2>3 DEF CloseSysfs
  <2>4. CASE DrainSysfs
    BY <2>4 DEF DrainSysfs
  <2>5. CASE CloseProc
    BY <2>5 DEF CloseProc
  <2>6. CASE DrainProc
    BY <2>6 DEF DrainProc
  <2>7. CASE RemoveFree
    BY <2>7 DEF RemoveFree
  <2>8. CASE RemoveHollow
    BY <2>8 DEF RemoveHollow
  <2> QED
    BY <1>4, <2>1, <2>2, <2>3, <2>4, <2>5, <2>6, <2>7, <2>8 DEF Remove,
      axs_debug_remove_sysfs, axs_release_proc_file
<1>5. CASE axs_ts_interrupt
  BY <1>5 DEF axs_ts_interrupt
<1>6. CASE UNCHANGED vars
  BY <1>6
<1> QED
  BY <1>1, <1>2, <1>3, <1>4, <1>5, <1>6 DEF Next

LEMMA TakenStep ==
    Values /\ CallTypes /\ Places /\ Taken /\ [Next]_vars => Taken'
<1> SUFFICES ASSUME Values /\ CallTypes /\ Places /\ Taken, [Next]_vars
             PROVE  Taken'
  OBVIOUS
<1> USE DEF Values, CallTypes, Taken, Inside, UnderMutex, vars, driver, bufs, locks, regs,
  history, At, Goto, Return, Fault, File, Text, NoCall, Step, Unlock, Keep, Refused, Failed,
  Arrived, Places, Idle
<1>1. ASSUME NEW c \in Callers, Proceed(c)
      PROVE  Taken'
  <2>1. CASE StoreCheck(c)
    BY <2>1 DEF StoreCheck
  <2>2. CASE StoreFill(c)
    BY <2>2 DEF StoreFill
  <2>3. CASE StoreLen(c)
    BY <2>3 DEF StoreLen
  <2>4. CASE ShowFormat(c)
    BY <2>4 DEF ShowFormat
  <2>5. CASE ShowReset(c)
    BY <2>5 DEF ShowReset
  <2>6. CASE BusArgs(c)
    BY <2>6 DEF BusArgs
  <2>7. CASE BusSend(c)
    BY <2>7 DEF BusSend
  <2>8. CASE BusReceive(c)
    BY <2>8 DEF BusReceive
  <2>9. CASE DumpSize(c)
    BY <2>9 DEF DumpSize
  <2>10. CASE DumpFormat(c)
    BY <2>10 DEF DumpFormat
  <2>11. CASE VersionRead(c)
    BY <2>11 DEF VersionRead
  <2>12. CASE VersionPrint(c)
    BY <2>12 DEF VersionPrint
  <2>13. CASE LoadCommand(c)
    BY <2>13 DEF LoadCommand
  <2>14. CASE LoadEnd(c)
    BY <2>14 DEF LoadEnd
  <2>15. CASE ProcCheck(c)
    BY <2>15 DEF ProcCheck
  <2>16. CASE ProcCopy(c)
    BY <2>16 DEF ProcCopy
  <2>17. CASE ProcMode(c)
    BY <2>17 DEF ProcMode
  <2>18. CASE ProcSend(c)
    BY <2>18 DEF ProcSend
  <2>19. CASE ProcReset(c)
    BY <2>19 DEF ProcReset
  <2>20. CASE ProcReadCheck(c)
    BY <2>20 DEF ProcReadCheck
  <2>21. CASE ProcReceive(c)
    BY <2>21 DEF ProcReceive
  <2>22. CASE ProcOut(c)
    BY <2>22 DEF ProcOut
  <2>23. CASE Lock(c)
    BY <2>23, LockTarget DEF Lock
  <2>24. CASE axs_hw_reset_show(c)
    BY <2>24 DEF axs_hw_reset_show
  <2>25. CASE LockUninitialised(c)
    BY <2>25 DEF LockUninitialised
  <2> QED
    BY <1>1, <2>1, <2>2, <2>3, <2>4, <2>5, <2>6, <2>7, <2>8, <2>9,
       <2>10, <2>11, <2>12, <2>13, <2>14, <2>15, <2>16, <2>17, <2>18,
       <2>19, <2>20, <2>21, <2>22, <2>23, <2>24, <2>25
    DEF Proceed, axs_tprwreg_store, axs_tprwreg_show, axs_write_bytes_read_bytes,
      axs_diff_show, axs_driverversion_show, axs_fwupgrade_store, axs_proc_write,
      axs_proc_read
<1>2. ASSUME NEW c \in Callers, NEW f \in SysfsCalls \cup ProcCalls, Call(c, f)
      PROVE  Taken'
  BY <1>2, CallTarget DEF Call, Texts
<1>3. CASE axs_ts_probe
  <2>1. CASE ProbeAllocate
    BY <2>1 DEF ProbeAllocate
  <2>2. CASE axs_create_proc_file
    BY <2>2 DEF axs_create_proc_file
  <2>3. CASE CreateGroup
    BY <2>3 DEF CreateGroup
  <2>4. CASE CreateTx
    BY <2>4 DEF CreateTx
  <2>5. CASE CreateRx
    BY <2>5 DEF CreateRx
  <2>6. CASE CreateMutex
    BY <2>6 DEF CreateMutex
  <2>7. CASE ProbeRequestIrq
    BY <2>7 DEF ProbeRequestIrq
  <2> QED
    BY <1>3, <2>1, <2>2, <2>3, <2>4, <2>5, <2>6, <2>7 DEF axs_ts_probe, axs_debug_create_sysfs
<1>4. CASE Remove
  <2>1. CASE FreeTx
    BY <2>1 DEF FreeTx
  <2>2. CASE FreeRx
    BY <2>2 DEF FreeRx
  <2>3. CASE CloseSysfs
    BY <2>3 DEF CloseSysfs
  <2>4. CASE DrainSysfs
    BY <2>4 DEF DrainSysfs
  <2>5. CASE CloseProc
    BY <2>5 DEF CloseProc
  <2>6. CASE DrainProc
    BY <2>6 DEF DrainProc
  <2>7. CASE RemoveFree
    BY <2>7 DEF RemoveFree
  <2>8. CASE RemoveHollow
    BY <2>8 DEF RemoveHollow
  <2> QED
    BY <1>4, <2>1, <2>2, <2>3, <2>4, <2>5, <2>6, <2>7, <2>8 DEF Remove,
      axs_debug_remove_sysfs, axs_release_proc_file
<1>5. CASE axs_ts_interrupt
  BY <1>5 DEF axs_ts_interrupt
<1>6. CASE UNCHANGED vars
  BY <1>6
<1> QED
  BY <1>1, <1>2, <1>3, <1>4, <1>5, <1>6 DEF Next

LEMMA DrainsStep ==
    CallTypes /\ Places /\ Drains /\ [Next]_vars => Drains'
<1> SUFFICES ASSUME CallTypes /\ Places /\ Drains, [Next]_vars
             PROVE  Drains'
  OBVIOUS
<1> USE DEF CallTypes, Files, SysfsCalls, ProcCalls, Drains, Running, Live, Removing, vars,
  driver, bufs, locks, regs, history, At, Goto, Return, Fault, File, Text, NoCall, Step,
  Unlock, Keep, Refused, Failed, Arrived, Places, Idle
<1>1. ASSUME NEW c \in Callers, Proceed(c)
      PROVE  Drains'
  <2>1. CASE StoreCheck(c)
    BY <2>1 DEF StoreCheck
  <2>2. CASE StoreFill(c)
    BY <2>2 DEF StoreFill
  <2>3. CASE StoreLen(c)
    BY <2>3 DEF StoreLen
  <2>4. CASE ShowFormat(c)
    BY <2>4 DEF ShowFormat
  <2>5. CASE ShowReset(c)
    BY <2>5 DEF ShowReset
  <2>6. CASE BusArgs(c)
    BY <2>6 DEF BusArgs
  <2>7. CASE BusSend(c)
    BY <2>7 DEF BusSend
  <2>8. CASE BusReceive(c)
    BY <2>8 DEF BusReceive
  <2>9. CASE DumpSize(c)
    BY <2>9 DEF DumpSize
  <2>10. CASE DumpFormat(c)
    BY <2>10 DEF DumpFormat
  <2>11. CASE VersionRead(c)
    BY <2>11 DEF VersionRead
  <2>12. CASE VersionPrint(c)
    BY <2>12 DEF VersionPrint
  <2>13. CASE LoadCommand(c)
    BY <2>13 DEF LoadCommand
  <2>14. CASE LoadEnd(c)
    BY <2>14 DEF LoadEnd
  <2>15. CASE ProcCheck(c)
    BY <2>15 DEF ProcCheck
  <2>16. CASE ProcCopy(c)
    BY <2>16 DEF ProcCopy
  <2>17. CASE ProcMode(c)
    BY <2>17 DEF ProcMode
  <2>18. CASE ProcSend(c)
    BY <2>18 DEF ProcSend
  <2>19. CASE ProcReset(c)
    BY <2>19 DEF ProcReset
  <2>20. CASE ProcReadCheck(c)
    BY <2>20 DEF ProcReadCheck
  <2>21. CASE ProcReceive(c)
    BY <2>21 DEF ProcReceive
  <2>22. CASE ProcOut(c)
    BY <2>22 DEF ProcOut
  <2>23. CASE Lock(c)
    BY <2>23, LockTarget DEF Lock
  <2>24. CASE axs_hw_reset_show(c)
    BY <2>24 DEF axs_hw_reset_show
  <2>25. CASE LockUninitialised(c)
    BY <2>25 DEF LockUninitialised
  <2> QED
    BY <1>1, <2>1, <2>2, <2>3, <2>4, <2>5, <2>6, <2>7, <2>8, <2>9,
       <2>10, <2>11, <2>12, <2>13, <2>14, <2>15, <2>16, <2>17, <2>18,
       <2>19, <2>20, <2>21, <2>22, <2>23, <2>24, <2>25
    DEF Proceed, axs_tprwreg_store, axs_tprwreg_show, axs_write_bytes_read_bytes,
      axs_diff_show, axs_driverversion_show, axs_fwupgrade_store, axs_proc_write,
      axs_proc_read
<1>2. ASSUME NEW c \in Callers, NEW f \in SysfsCalls \cup ProcCalls, Call(c, f)
      PROVE  Drains'
  BY <1>2 DEF Call, FirstStep, Texts
<1>3. CASE axs_ts_probe
  <2>1. CASE ProbeAllocate
    BY <2>1 DEF ProbeAllocate
  <2>2. CASE axs_create_proc_file
    BY <2>2 DEF axs_create_proc_file
  <2>3. CASE CreateGroup
    BY <2>3 DEF CreateGroup
  <2>4. CASE CreateTx
    BY <2>4 DEF CreateTx
  <2>5. CASE CreateRx
    BY <2>5 DEF CreateRx
  <2>6. CASE CreateMutex
    BY <2>6 DEF CreateMutex
  <2>7. CASE ProbeRequestIrq
    BY <2>7 DEF ProbeRequestIrq
  <2> QED
    BY <1>3, <2>1, <2>2, <2>3, <2>4, <2>5, <2>6, <2>7 DEF axs_ts_probe, axs_debug_create_sysfs
<1>4. CASE Remove
  <2>1. CASE FreeTx
    BY <2>1 DEF FreeTx
  <2>2. CASE FreeRx
    BY <2>2 DEF FreeRx
  <2>3. CASE CloseSysfs
    BY <2>3 DEF CloseSysfs
  <2>4. CASE DrainSysfs
    BY <2>4 DEF DrainSysfs
  <2>5. CASE CloseProc
    BY <2>5 DEF CloseProc
  <2>6. CASE DrainProc
    BY <2>6 DEF DrainProc
  <2>7. CASE RemoveFree
    BY <2>7 DEF RemoveFree
  <2>8. CASE RemoveHollow
    BY <2>8 DEF RemoveHollow
  <2> QED
    BY <1>4, <2>1, <2>2, <2>3, <2>4, <2>5, <2>6, <2>7, <2>8 DEF Remove,
      axs_debug_remove_sysfs, axs_release_proc_file
<1>5. CASE axs_ts_interrupt
  BY <1>5 DEF axs_ts_interrupt
<1>6. CASE UNCHANGED vars
  BY <1>6
<1> QED
  BY <1>1, <1>2, <1>3, <1>4, <1>5, <1>6 DEF Next

\* What FaultsOnlyAtTheEdges says of one step.
EdgeFaults ==
    /\ \A c \in Callers : ~At(c, "fault") /\ At(c, "fault")' =>
          life \in Removing \cup {"orphan"} \/ (File(c) = "show" /\ stale)
    /\ \A c \in Callers : ~At(c, "crash") /\ At(c, "crash")' =>
          ~ready /\ \E d \in Callers \ {c} : Inside(d) \/ At(d, "fault")

LEMMA FaultsStep ==
    Values /\ CallTypes /\ Places /\ Drains /\ Buffers /\ Taken /\ [Next]_vars => EdgeFaults
<1> SUFFICES ASSUME Values /\ CallTypes /\ Places /\ Drains /\ Buffers /\ Taken, [Next]_vars
             PROVE  EdgeFaults
  OBVIOUS
<1> USE DEF Values, CallTypes, Content, Live, Removing, Null, Buffers, NeedsTx, NeedsRx,
  EdgeFaults, vars, driver, bufs, locks, regs, history, At, Goto, Return, Fault, File, Text,
  NoCall, Step, Unlock, Keep, Refused, Failed, Arrived, Places, Drains, Idle
<1>1. ASSUME NEW c \in Callers, Proceed(c)
      PROVE  EdgeFaults
  <2>1. CASE StoreCheck(c)
    BY <2>1 DEF StoreCheck
  <2>2. CASE StoreFill(c)
    BY <2>2 DEF StoreFill
  <2>3. CASE StoreLen(c)
    BY <2>3 DEF StoreLen
  <2>4. CASE ShowFormat(c)
    BY <2>4 DEF ShowFormat
  <2>5. CASE ShowReset(c)
    BY <2>5 DEF ShowReset
  <2>6. CASE BusArgs(c)
    BY <2>6 DEF BusArgs
  <2>7. CASE BusSend(c)
    BY <2>7 DEF BusSend, Command
  <2>8. CASE BusReceive(c)
    BY <2>8 DEF BusReceive
  <2>9. CASE DumpSize(c)
    BY <2>9 DEF DumpSize
  <2>10. CASE DumpFormat(c)
    BY <2>10 DEF DumpFormat
  <2>11. CASE VersionRead(c)
    BY <2>11 DEF VersionRead
  <2>12. CASE VersionPrint(c)
    BY <2>12 DEF VersionPrint
  <2>13. CASE LoadCommand(c)
    BY <2>13 DEF LoadCommand
  <2>14. CASE LoadEnd(c)
    BY <2>14 DEF LoadEnd
  <2>15. CASE ProcCheck(c)
    BY <2>15 DEF ProcCheck
  <2>16. CASE ProcCopy(c)
    BY <2>16 DEF ProcCopy
  <2>17. CASE ProcMode(c)
    BY <2>17 DEF ProcMode
  <2>18. CASE ProcSend(c)
    BY <2>18 DEF ProcSend
  <2>19. CASE ProcReset(c)
    BY <2>19 DEF ProcReset
  <2>20. CASE ProcReadCheck(c)
    BY <2>20 DEF ProcReadCheck
  <2>21. CASE ProcReceive(c)
    BY <2>21 DEF ProcReceive
  <2>22. CASE ProcOut(c)
    BY <2>22 DEF ProcOut
  <2>23. CASE Lock(c)
    BY <2>23, LockTarget DEF Lock
  <2>24. CASE axs_hw_reset_show(c)
    BY <2>24 DEF axs_hw_reset_show
  <2>25. CASE LockUninitialised(c)
    <3>1. calls[c].step \in {"lock", "print"} /\ mutex # None /\ ~ready
          /\ \A d \in Callers \ {c} : calls'[d] = calls[d]
      BY <2>25 DEF LockUninitialised
    <3>2. mutex \in Callers \ {c} /\ (Inside(mutex) \/ At(mutex, "fault"))
      BY <3>1 DEF Taken, Inside, UnderMutex
    <3>3. calls[c]'.step \in {"crash", "lost"}
      BY <2>25 DEF LockUninitialised
    <3>4. \A d \in Callers : At(d, "fault")' => At(d, "fault")
      BY <3>1, <3>3
    <3>5. \A d \in Callers : ~At(d, "crash") /\ At(d, "crash")' => d = c
      BY <3>1
    <3>6. ~ready /\ \E d \in Callers \ {c} : Inside(d) \/ At(d, "fault")
      BY <3>1, <3>2
    <3> QED
      BY <3>4, <3>5, <3>6, Zenon DEF EdgeFaults
  <2> QED
    BY <1>1, <2>1, <2>2, <2>3, <2>4, <2>5, <2>6, <2>7, <2>8, <2>9,
       <2>10, <2>11, <2>12, <2>13, <2>14, <2>15, <2>16, <2>17, <2>18,
       <2>19, <2>20, <2>21, <2>22, <2>23, <2>24, <2>25
    DEF Proceed, axs_tprwreg_store, axs_tprwreg_show, axs_write_bytes_read_bytes,
      axs_diff_show, axs_driverversion_show, axs_fwupgrade_store, axs_proc_write,
      axs_proc_read
<1>2. ASSUME NEW c \in Callers, NEW f \in SysfsCalls \cup ProcCalls, Call(c, f)
      PROVE  EdgeFaults
  BY <1>2, CallTarget DEF Call, Texts
<1>3. CASE axs_ts_probe
  <2>1. CASE ProbeAllocate
    BY <2>1 DEF ProbeAllocate
  <2>2. CASE axs_create_proc_file
    BY <2>2 DEF axs_create_proc_file
  <2>3. CASE CreateGroup
    BY <2>3 DEF CreateGroup
  <2>4. CASE CreateTx
    BY <2>4 DEF CreateTx
  <2>5. CASE CreateRx
    BY <2>5 DEF CreateRx
  <2>6. CASE CreateMutex
    BY <2>6 DEF CreateMutex
  <2>7. CASE ProbeRequestIrq
    BY <2>7 DEF ProbeRequestIrq
  <2> QED
    BY <1>3, <2>1, <2>2, <2>3, <2>4, <2>5, <2>6, <2>7 DEF axs_ts_probe, axs_debug_create_sysfs
<1>4. CASE Remove
  <2>1. CASE FreeTx
    BY <2>1 DEF FreeTx
  <2>2. CASE FreeRx
    BY <2>2 DEF FreeRx
  <2>3. CASE CloseSysfs
    BY <2>3 DEF CloseSysfs
  <2>4. CASE DrainSysfs
    BY <2>4 DEF DrainSysfs
  <2>5. CASE CloseProc
    BY <2>5 DEF CloseProc
  <2>6. CASE DrainProc
    BY <2>6 DEF DrainProc
  <2>7. CASE RemoveFree
    BY <2>7 DEF RemoveFree
  <2>8. CASE RemoveHollow
    BY <2>8 DEF RemoveHollow
  <2> QED
    BY <1>4, <2>1, <2>2, <2>3, <2>4, <2>5, <2>6, <2>7, <2>8 DEF Remove,
      axs_debug_remove_sysfs, axs_release_proc_file
<1>5. CASE axs_ts_interrupt
  BY <1>5 DEF axs_ts_interrupt
<1>6. CASE UNCHANGED vars
  BY <1>6
<1> QED
  BY <1>1, <1>2, <1>3, <1>4, <1>5, <1>6 DEF Next

----------------------------------------------------------------------------
LEMMA DebugInit == Init => DebugInv
<1> SUFFICES ASSUME Init PROVE DebugInv
  OBVIOUS
<1> USE DEF Init, NoCall
<1>1. Truths /\ Values
  BY DEF Truths, Values, Content, Null
<1>2. CallTypes
  BY DEF CallTypes, Files, AllSteps, Content
<1>3. Places /\ Drains
  BY DEF Places, Drains, Idle, At, File, Live, Removing
<1>4. Buffers /\ Taken /\ Held
  BY DEF Buffers, Live, Taken, Held, Inside, UnderMutex
<1> QED
  BY <1>1, <1>2, <1>3, <1>4, TypeParts DEF DebugInv

LEMMA DebugStep == DebugInv /\ [Next]_vars => DebugInv'
<1> SUFFICES ASSUME DebugInv, [Next]_vars PROVE DebugInv'
  OBVIOUS
<1>1. Truths /\ Values /\ CallTypes /\ Places /\ Drains /\ Buffers /\ Taken /\ Held
  BY TypeParts DEF DebugInv
<1>2. TypeOK'
  BY <1>1, TypeParts, TruthsStep, ValuesStep, CallsStep
<1>3. Places' /\ Drains'
  BY <1>1, PlacesStep, DrainsStep
<1>4. Buffers' /\ Taken' /\ Held'
  BY <1>1, BuffersStep, TakenStep, HeldStep
<1> QED
  BY <1>2, <1>3, <1>4 DEF DebugInv

\* The inductive invariant holds for any callers and register commands.
THEOREM DebugCorrect == Spec => []DebugInv
BY DebugInit, DebugStep, PTL DEF Spec

\* The types of the debug files, for any callers and register commands.
THEOREM DebugTypes == Spec => []TypeOK
<1>1. DebugInv => TypeOK
  BY DEF DebugInv
<1> QED
  BY <1>1, DebugCorrect, PTL

\* s_device_mutex keeps register accesses, firmware loads and resets apart, however many
\* threads use the files, unless it was initialised under one of them
\* (axs_debug_create_sysfs).
THEOREM OneIsInside == Spec => []OneInside
<1>1. DebugInv => OneInside
  BY DEF DebugInv, Held, OneInside
<1> QED
  BY <1>1, DebugCorrect, PTL

\* However many threads use the files, memory that is not there is only used during
\* removal, after a probe that failed, for an answer older than the probe, or for a mutex in
\* use that was never initialised: the checks of the files are enough for the time in which
\* the buffers are still being allocated.
THEOREM FaultsAreAtTheEdges == Spec => FaultsOnlyAtTheEdges
<1> DEFINE Edges == \A c \in Callers : ~Crashed(c) /\ Crashed(c)' =>
        \/ life \in Removing \cup {"orphan"}
        \/ File(c) = "show" /\ stale
        \/ ~ready /\ \E d \in Callers \ {c} : Inside(d) \/ At(d, "fault")
<1>1. EdgeFaults => Edges
  BY DEF EdgeFaults, Crashed, At
<1>2. UNCHANGED vars => Edges
  BY DEF vars, Crashed
<1>3. DebugInv /\ [Next]_vars => [Edges]_vars
  BY <1>1, <1>2, FaultsStep, TypeParts DEF DebugInv
<1> HIDE DEF Edges
<1>4. Spec => [][Edges]_vars
  BY <1>3, DebugCorrect, PTL DEF Spec
<1> QED
  BY <1>4 DEF FaultsOnlyAtTheEdges, Edges
----------------------------------------------------------------------------
\* Whose answer axs_rw_reg shows.

\* A store between the fill and the answer, one that ended with a fault, and either of them
\* or one that has its answer.
Sending(c) == calls[c].step \in {"args", "send"} /\ File(c) # "dump"
Broken(c)  == At(c, "fault") /\ File(c) \in {"rd", "wr"}
Storing(c) == Broken(c) \/ (calls[c].step \in {"args", "send", "recv", "len"} /\ File(c) # "dump")

\* Where in its life the driver has no buffer to send from, and none to receive into.
WithoutTx == {"unbound", "proc", "sysfs", "tx", "hollow", "stuck"} \cup Removing
WithoutRx == (WithoutTx \cup {"rx"}) \ {"freerx"}

\* The buffers are not there before they are allocated and after they are freed, and then
\* there is no answer to be shown either.
Unmade ==
    /\ life \in WithoutTx => tx = Null
    /\ life \in WithoutRx => rx = Null /\ asked = "other"

\* A store that ended with a fault did so after the end of probe, and keeps the mutex.
BrokenHeld == \A c \in Callers : Broken(c) => life \notin Live /\ (~early => mutex = c)

\* Between a command and its answer the call holds bus_mutex.
BusHeld == \A c \in Callers : At(c, "recv") => bus = c

\* From the fill to the length, the store that asked for asked sends it, the controller is
\* about to answer it, and debug_rx_buf holds that answer, in this order.
Passed ==
    ~early /\ asked # "other" =>
        \A c \in Callers :
            /\ Sending(c) => tx \in {asked, Null}
            /\ At(c, "recv") /\ File(c) # "dump" => answer = asked
            /\ At(c, "len") /\ File(c) = "rd" => rx = asked

\* After the store the answer stays until it is shown.
Waits == asked # "other" /\ s_rd_len = 1 /\ (\A c \in Callers : ~Storing(c)) => rx = asked

AnswerInv == DebugInv /\ Unmade /\ BrokenHeld /\ BusHeld /\ Passed /\ Waits


\* Whoever gives the mutex back, while it is whole afterwards, was the only one under it.
LEMMA UnlockLeavesNone ==
    ASSUME NEW c \in Callers, Held, Unlock(c), Inside(c), ~early'
    PROVE  \A d \in Callers \ {c} : ~Inside(d)
BY DEF Held, Unlock

\* Nor does it then, while a store that ended with a fault keeps it.
LEMMA UnlockNoneBroken ==
    ASSUME NEW c \in Callers, Held, BrokenHeld, Unlock(c), Inside(c), ~early'
    PROVE  \A d \in Callers : ~Broken(d)
<1> SUFFICES ASSUME NEW d \in Callers, Broken(d) PROVE FALSE
  OBVIOUS
<1>1. d # c
  BY DEF Broken, Inside, At, UnderMutex
<1>2. ~early
  BY <1>1 DEF Unlock, Broken
<1> QED
  BY <1>1, <1>2 DEF Held, BrokenHeld

LEMMA UnmadeStep ==
    Values /\ CallTypes /\ Places /\ Drains /\ Buffers /\ Unmade /\ [Next]_vars => Unmade'
<1> SUFFICES ASSUME Values /\ CallTypes /\ Places /\ Drains /\ Buffers /\ Unmade,
                    [Next]_vars
             PROVE  Unmade'
  OBVIOUS
<1> USE DEF Values, CallTypes, Places, Drains, Buffers, Unmade, WithoutTx,
  WithoutRx, Removing, Live, Idle, NeedsTx, NeedsRx, Null, Content, Overwritten, Disturbed, Miss,
  vars, driver, bufs, locks, regs, history, At, Goto, Return, Fault,
  File, Text, NoCall, Step, Unlock, Keep
<1>1. ASSUME NEW c \in Callers, Proceed(c)
      PROVE  Unmade'
  <2>1. CASE StoreCheck(c)
    BY <2>1 DEF StoreCheck
  <2>2. CASE StoreFill(c)
    BY <2>2 DEF StoreFill
  <2>3. CASE StoreLen(c)
    BY <2>3 DEF StoreLen
  <2>4. CASE ShowFormat(c)
    BY <2>4 DEF ShowFormat
  <2>5. CASE ShowReset(c)
    BY <2>5 DEF ShowReset
  <2>6. CASE BusArgs(c)
    BY <2>6 DEF BusArgs
  <2>7. CASE BusSend(c)
    BY <2>7 DEF BusSend
  <2>8. CASE BusReceive(c)
    BY <2>8 DEF BusReceive
  <2>9. CASE DumpSize(c)
    BY <2>9 DEF DumpSize
  <2>10. CASE DumpFormat(c)
    BY <2>10 DEF DumpFormat
  <2>11. CASE VersionRead(c)
    BY <2>11 DEF VersionRead
  <2>12. CASE VersionPrint(c)
    BY <2>12 DEF VersionPrint
  <2>13. CASE LoadCommand(c)
    BY <2>13 DEF LoadCommand
  <2>14. CASE LoadEnd(c)
    BY <2>14 DEF LoadEnd
  <2>15. CASE ProcCheck(c)
    BY <2>15 DEF ProcCheck
  <2>16. CASE ProcCopy(c)
    BY <2>16 DEF ProcCopy
  <2>17. CASE ProcMode(c)
    BY <2>17 DEF ProcMode
  <2>18. CASE ProcSend(c)
    BY <2>18 DEF ProcSend
  <2>19. CASE ProcReset(c)
    BY <2>19 DEF ProcReset
  <2>20. CASE ProcReadCheck(c)
    BY <2>20 DEF ProcReadCheck
  <2>21. CASE ProcReceive(c)
    BY <2>21 DEF ProcReceive
  <2>22. CASE ProcOut(c)
    BY <2>22 DEF ProcOut
  <2>23. CASE Lock(c)
    BY <2>23, LockTarget DEF Lock
  <2>24. CASE axs_hw_reset_show(c)
    BY <2>24 DEF axs_hw_reset_show
  <2>25. CASE LockUninitialised(c)
    BY <2>25 DEF LockUninitialised
  <2> QED
    BY <1>1, <2>1, <2>2, <2>3, <2>4, <2>5, <2>6, <2>7, <2>8, <2>9,
       <2>10, <2>11, <2>12, <2>13, <2>14, <2>15, <2>16, <2>17, <2>18,
       <2>19, <2>20, <2>21, <2>22, <2>23, <2>24, <2>25
    DEF Proceed, axs_tprwreg_store, axs_tprwreg_show, axs_write_bytes_read_bytes,
      axs_diff_show, axs_driverversion_show, axs_fwupgrade_store, axs_proc_write,
      axs_proc_read
<1>2. ASSUME NEW c \in Callers, NEW f \in SysfsCalls \cup ProcCalls, Call(c, f)
      PROVE  Unmade'
  BY <1>2, CallTarget DEF Call, Texts
<1>3. CASE axs_ts_probe
  <2>1. CASE ProbeAllocate
    BY <2>1 DEF ProbeAllocate
  <2>2. CASE axs_create_proc_file
    BY <2>2 DEF axs_create_proc_file
  <2>3. CASE CreateGroup
    BY <2>3 DEF CreateGroup
  <2>4. CASE CreateTx
    BY <2>4 DEF CreateTx
  <2>5. CASE CreateRx
    BY <2>5 DEF CreateRx
  <2>6. CASE CreateMutex
    BY <2>6 DEF CreateMutex
  <2>7. CASE ProbeRequestIrq
    BY <2>7 DEF ProbeRequestIrq
  <2> QED
    BY <1>3, <2>1, <2>2, <2>3, <2>4, <2>5, <2>6, <2>7 DEF axs_ts_probe, axs_debug_create_sysfs
<1>4. CASE Remove
  <2>1. CASE FreeTx
    BY <2>1 DEF FreeTx
  <2>2. CASE FreeRx
    BY <2>2 DEF FreeRx
  <2>3. CASE CloseSysfs
    BY <2>3 DEF CloseSysfs
  <2>4. CASE DrainSysfs
    BY <2>4 DEF DrainSysfs
  <2>5. CASE CloseProc
    BY <2>5 DEF CloseProc
  <2>6. CASE DrainProc
    BY <2>6 DEF DrainProc
  <2>7. CASE RemoveFree
    BY <2>7 DEF RemoveFree
  <2>8. CASE RemoveHollow
    BY <2>8 DEF RemoveHollow
  <2> QED
    BY <1>4, <2>1, <2>2, <2>3, <2>4, <2>5, <2>6, <2>7, <2>8 DEF Remove,
      axs_debug_remove_sysfs, axs_release_proc_file
<1>5. CASE axs_ts_interrupt
  BY <1>5 DEF axs_ts_interrupt
<1>6. CASE UNCHANGED vars
  BY <1>6
<1> QED
  BY <1>1, <1>2, <1>3, <1>4, <1>5, <1>6 DEF Next

LEMMA BrokenStep ==
    Values /\ CallTypes /\ Places /\ Drains /\ Buffers /\ Taken /\ Held
    /\ BrokenHeld /\ [Next]_vars => BrokenHeld'
<1> SUFFICES ASSUME Values /\ CallTypes /\ Places /\ Drains /\ Buffers /\ Taken /\ Held /\ BrokenHeld,
                    [Next]_vars
             PROVE  BrokenHeld'
  OBVIOUS
<1> USE DEF Values, CallTypes, Places, Drains, Held, Inside, UnderMutex,
  EdgeFaults, Removing, BrokenHeld, Broken, Live, Idle, Refused, Failed, Arrived,
  vars, driver, bufs, locks, regs, history, At, Goto, Return, Fault,
  File, Text, NoCall, Step, Unlock, Keep
<1>0. EdgeFaults
  BY FaultsStep
<1>1. ASSUME NEW c \in Callers, Proceed(c)
      PROVE  BrokenHeld'
  <2>1. CASE StoreCheck(c)
    BY <2>1, <1>0, UnlockNoneBroken DEF StoreCheck
  <2>2. CASE StoreFill(c)
    BY <2>2, <1>0 DEF StoreFill
  <2>3. CASE StoreLen(c)
    BY <2>3 DEF StoreLen
  <2>4. CASE ShowFormat(c)
    BY <2>4, <1>0, UnlockNoneBroken DEF ShowFormat
  <2>5. CASE ShowReset(c)
    BY <2>5 DEF ShowReset
  <2>6. CASE BusArgs(c)
    BY <2>6, <1>0 DEF BusArgs
  <2>7. CASE BusSend(c)
    BY <2>7, <1>0 DEF BusSend
  <2>8. CASE BusReceive(c)
    BY <2>8, <1>0 DEF BusReceive
  <2>9. CASE DumpSize(c)
    BY <2>9 DEF DumpSize
  <2>10. CASE DumpFormat(c)
    BY <2>10, <1>0 DEF DumpFormat
  <2>11. CASE VersionRead(c)
    BY <2>11 DEF VersionRead
  <2>12. CASE VersionPrint(c)
    BY <2>12 DEF VersionPrint
  <2>13. CASE LoadCommand(c)
    BY <2>13, <1>0, UnlockNoneBroken DEF LoadCommand
  <2>14. CASE LoadEnd(c)
    BY <2>14, <1>0, UnlockNoneBroken DEF LoadEnd
  <2>15. CASE ProcCheck(c)
    BY <2>15, <1>0 DEF ProcCheck
  <2>16. CASE ProcCopy(c)
    BY <2>16, <1>0 DEF ProcCopy
  <2>17. CASE ProcMode(c)
    BY <2>17, <1>0 DEF ProcMode
  <2>18. CASE ProcSend(c)
    BY <2>18, <1>0 DEF ProcSend
  <2>19. CASE ProcReset(c)
    BY <2>19, <1>0 DEF ProcReset
  <2>20. CASE ProcReadCheck(c)
    BY <2>20, <1>0 DEF ProcReadCheck
  <2>21. CASE ProcReceive(c)
    BY <2>21, <1>0 DEF ProcReceive
  <2>22. CASE ProcOut(c)
    BY <2>22, <1>0 DEF ProcOut
  <2>23. CASE Lock(c)
    BY <2>23, LockTarget DEF Lock
  <2>24. CASE axs_hw_reset_show(c)
    BY <2>24, <1>0, UnlockNoneBroken DEF axs_hw_reset_show
  <2>25. CASE LockUninitialised(c)
    BY <2>25 DEF LockUninitialised
  <2> QED
    BY <1>1, <2>1, <2>2, <2>3, <2>4, <2>5, <2>6, <2>7, <2>8, <2>9,
       <2>10, <2>11, <2>12, <2>13, <2>14, <2>15, <2>16, <2>17, <2>18,
       <2>19, <2>20, <2>21, <2>22, <2>23, <2>24, <2>25
    DEF Proceed, axs_tprwreg_store, axs_tprwreg_show, axs_write_bytes_read_bytes,
      axs_diff_show, axs_driverversion_show, axs_fwupgrade_store, axs_proc_write,
      axs_proc_read
<1>2. ASSUME NEW c \in Callers, NEW f \in SysfsCalls \cup ProcCalls, Call(c, f)
      PROVE  BrokenHeld'
  BY <1>2, CallTarget DEF Call, Texts
<1>3. CASE axs_ts_probe
  <2>1. CASE ProbeAllocate
    BY <2>1 DEF ProbeAllocate
  <2>2. CASE axs_create_proc_file
    BY <2>2 DEF axs_create_proc_file
  <2>3. CASE CreateGroup
    BY <2>3 DEF CreateGroup
  <2>4. CASE CreateTx
    BY <2>4 DEF CreateTx
  <2>5. CASE CreateRx
    BY <2>5 DEF CreateRx
  <2>6. CASE CreateMutex
    BY <2>6 DEF CreateMutex
  <2>7. CASE ProbeRequestIrq
    BY <2>7 DEF ProbeRequestIrq
  <2> QED
    BY <1>3, <2>1, <2>2, <2>3, <2>4, <2>5, <2>6, <2>7 DEF axs_ts_probe, axs_debug_create_sysfs
<1>4. CASE Remove
  <2>1. CASE FreeTx
    BY <2>1 DEF FreeTx
  <2>2. CASE FreeRx
    BY <2>2 DEF FreeRx
  <2>3. CASE CloseSysfs
    BY <2>3 DEF CloseSysfs
  <2>4. CASE DrainSysfs
    BY <2>4 DEF DrainSysfs
  <2>5. CASE CloseProc
    BY <2>5 DEF CloseProc
  <2>6. CASE DrainProc
    BY <2>6 DEF DrainProc
  <2>7. CASE RemoveFree
    BY <2>7 DEF RemoveFree
  <2>8. CASE RemoveHollow
    BY <2>8 DEF RemoveHollow
  <2> QED
    BY <1>4, <2>1, <2>2, <2>3, <2>4, <2>5, <2>6, <2>7, <2>8 DEF Remove,
      axs_debug_remove_sysfs, axs_release_proc_file
<1>5. CASE axs_ts_interrupt
  BY <1>5 DEF axs_ts_interrupt
<1>6. CASE UNCHANGED vars
  BY <1>6
<1> QED
  BY <1>1, <1>2, <1>3, <1>4, <1>5, <1>6 DEF Next

LEMMA BusHeldStep ==
    Values /\ CallTypes /\ Places /\ BusHeld /\ [Next]_vars => BusHeld'
<1> SUFFICES ASSUME Values /\ CallTypes /\ Places /\ BusHeld,
                    [Next]_vars
             PROVE  BusHeld'
  OBVIOUS
<1> USE DEF Values, CallTypes, Places, BusHeld, Idle, Refused, Failed, Arrived,
  vars, driver, bufs, locks, regs, history, At, Goto, Return, Fault,
  File, Text, NoCall, Step, Unlock, Keep
<1>1. ASSUME NEW c \in Callers, Proceed(c)
      PROVE  BusHeld'
  <2>1. CASE StoreCheck(c)
    BY <2>1 DEF StoreCheck
  <2>2. CASE StoreFill(c)
    BY <2>2 DEF StoreFill
  <2>3. CASE StoreLen(c)
    BY <2>3 DEF StoreLen
  <2>4. CASE ShowFormat(c)
    BY <2>4 DEF ShowFormat
  <2>5. CASE ShowReset(c)
    BY <2>5 DEF ShowReset
  <2>6. CASE BusArgs(c)
    BY <2>6 DEF BusArgs
  <2>7. CASE BusSend(c)
    BY <2>7 DEF BusSend
  <2>8. CASE BusReceive(c)
    BY <2>8 DEF BusReceive
  <2>9. CASE DumpSize(c)
    BY <2>9 DEF DumpSize
  <2>10. CASE DumpFormat(c)
    BY <2>10 DEF DumpFormat
  <2>11. CASE VersionRead(c)
    BY <2>11 DEF VersionRead
  <2>12. CASE VersionPrint(c)
    BY <2>12 DEF VersionPrint
  <2>13. CASE LoadCommand(c)
    BY <2>13 DEF LoadCommand
  <2>14. CASE LoadEnd(c)
    BY <2>14 DEF LoadEnd
  <2>15. CASE ProcCheck(c)
    BY <2>15 DEF ProcCheck
  <2>16. CASE ProcCopy(c)
    BY <2>16 DEF ProcCopy
  <2>17. CASE ProcMode(c)
    BY <2>17 DEF ProcMode
  <2>18. CASE ProcSend(c)
    BY <2>18 DEF ProcSend
  <2>19. CASE ProcReset(c)
    BY <2>19 DEF ProcReset
  <2>20. CASE ProcReadCheck(c)
    BY <2>20 DEF ProcReadCheck
  <2>21. CASE ProcReceive(c)
    BY <2>21 DEF ProcReceive
  <2>22. CASE ProcOut(c)
    BY <2>22 DEF ProcOut
  <2>23. CASE Lock(c)
    BY <2>23, LockTarget DEF Lock
  <2>24. CASE axs_hw_reset_show(c)
    BY <2>24 DEF axs_hw_reset_show
  <2>25. CASE LockUninitialised(c)
    BY <2>25 DEF LockUninitialised
  <2> QED
    BY <1>1, <2>1, <2>2, <2>3, <2>4, <2>5, <2>6, <2>7, <2>8, <2>9,
       <2>10, <2>11, <2>12, <2>13, <2>14, <2>15, <2>16, <2>17, <2>18,
       <2>19, <2>20, <2>21, <2>22, <2>23, <2>24, <2>25
    DEF Proceed, axs_tprwreg_store, axs_tprwreg_show, axs_write_bytes_read_bytes,
      axs_diff_show, axs_driverversion_show, axs_fwupgrade_store, axs_proc_write,
      axs_proc_read
<1>2. ASSUME NEW c \in Callers, NEW f \in SysfsCalls \cup ProcCalls, Call(c, f)
      PROVE  BusHeld'
  BY <1>2, CallTarget DEF Call, Texts
<1>3. CASE axs_ts_probe
  <2>1. CASE ProbeAllocate
    BY <2>1 DEF ProbeAllocate
  <2>2. CASE axs_create_proc_file
    BY <2>2 DEF axs_create_proc_file
  <2>3. CASE CreateGroup
    BY <2>3 DEF CreateGroup
  <2>4. CASE CreateTx
    BY <2>4 DEF CreateTx
  <2>5. CASE CreateRx
    BY <2>5 DEF CreateRx
  <2>6. CASE CreateMutex
    BY <2>6 DEF CreateMutex
  <2>7. CASE ProbeRequestIrq
    BY <2>7 DEF ProbeRequestIrq
  <2> QED
    BY <1>3, <2>1, <2>2, <2>3, <2>4, <2>5, <2>6, <2>7 DEF axs_ts_probe, axs_debug_create_sysfs
<1>4. CASE Remove
  <2>1. CASE FreeTx
    BY <2>1 DEF FreeTx
  <2>2. CASE FreeRx
    BY <2>2 DEF FreeRx
  <2>3. CASE CloseSysfs
    BY <2>3 DEF CloseSysfs
  <2>4. CASE DrainSysfs
    BY <2>4 DEF DrainSysfs
  <2>5. CASE CloseProc
    BY <2>5 DEF CloseProc
  <2>6. CASE DrainProc
    BY <2>6 DEF DrainProc
  <2>7. CASE RemoveFree
    BY <2>7 DEF RemoveFree
  <2>8. CASE RemoveHollow
    BY <2>8 DEF RemoveHollow
  <2> QED
    BY <1>4, <2>1, <2>2, <2>3, <2>4, <2>5, <2>6, <2>7, <2>8 DEF Remove,
      axs_debug_remove_sysfs, axs_release_proc_file
<1>5. CASE axs_ts_interrupt
  BY <1>5 DEF axs_ts_interrupt
<1>6. CASE UNCHANGED vars
  BY <1>6
<1> QED
  BY <1>1, <1>2, <1>3, <1>4, <1>5, <1>6 DEF Next

LEMMA PassedStep ==
    Values /\ CallTypes /\ Places /\ Drains /\ Buffers /\ Held /\ Unmade /\ BusHeld /\ Passed
    /\ [Next]_vars => Passed'
<1> SUFFICES ASSUME Values /\ CallTypes /\ Places /\ Drains /\ Buffers
                    /\ Held /\ Unmade /\ BusHeld /\ Passed,
                    [Next]_vars
             PROVE  Passed'
  OBVIOUS
<1> USE DEF Values, CallTypes, Places, Held, Inside, UnderMutex, BusHeld, Passed,
  Sending, Content, Null, Refused, Failed, Arrived, Overwritten, Disturbed, Unanswered, Miss,
  vars, driver, bufs, locks, regs, history, At, Goto, Return, Fault,
  File, Text, NoCall, Step, Unlock, Keep
<1>1. ASSUME NEW c \in Callers, Proceed(c)
      PROVE  Passed'
  <2>1. CASE StoreCheck(c)
    BY <2>1, UnlockLeavesNone DEF StoreCheck
  <2>2. CASE StoreFill(c)
    BY <2>2 DEF StoreFill
  <2>3. CASE StoreLen(c)
    BY <2>3 DEF StoreLen
  <2>4. CASE ShowFormat(c)
    BY <2>4, UnlockLeavesNone DEF ShowFormat
  <2>5. CASE ShowReset(c)
    BY <2>5 DEF ShowReset
  <2>6. CASE BusArgs(c)
    BY <2>6 DEF BusArgs
  <2>7. CASE BusSend(c)
    BY <2>7 DEF BusSend, Command
  <2>8. CASE BusReceive(c)
    BY <2>8 DEF BusReceive
  <2>9. CASE DumpSize(c)
    BY <2>9 DEF DumpSize
  <2>10. CASE DumpFormat(c)
    BY <2>10 DEF DumpFormat
  <2>11. CASE VersionRead(c)
    BY <2>11 DEF VersionRead
  <2>12. CASE VersionPrint(c)
    BY <2>12 DEF VersionPrint
  <2>13. CASE LoadCommand(c)
    BY <2>13, UnlockLeavesNone DEF LoadCommand
  <2>14. CASE LoadEnd(c)
    BY <2>14, UnlockLeavesNone DEF LoadEnd
  <2>15. CASE ProcCheck(c)
    BY <2>15 DEF ProcCheck
  <2>16. CASE ProcCopy(c)
    BY <2>16 DEF ProcCopy
  <2>17. CASE ProcMode(c)
    BY <2>17 DEF ProcMode
  <2>18. CASE ProcSend(c)
    BY <2>18 DEF ProcSend
  <2>19. CASE ProcReset(c)
    BY <2>19 DEF ProcReset
  <2>20. CASE ProcReadCheck(c)
    BY <2>20 DEF ProcReadCheck
  <2>21. CASE ProcReceive(c)
    BY <2>21 DEF ProcReceive
  <2>22. CASE ProcOut(c)
    BY <2>22 DEF ProcOut
  <2>23. CASE Lock(c)
    BY <2>23, LockTarget DEF Lock
  <2>24. CASE axs_hw_reset_show(c)
    BY <2>24, UnlockLeavesNone DEF axs_hw_reset_show
  <2>25. CASE LockUninitialised(c)
    BY <2>25 DEF LockUninitialised
  <2> QED
    BY <1>1, <2>1, <2>2, <2>3, <2>4, <2>5, <2>6, <2>7, <2>8, <2>9,
       <2>10, <2>11, <2>12, <2>13, <2>14, <2>15, <2>16, <2>17, <2>18,
       <2>19, <2>20, <2>21, <2>22, <2>23, <2>24, <2>25
    DEF Proceed, axs_tprwreg_store, axs_tprwreg_show, axs_write_bytes_read_bytes,
      axs_diff_show, axs_driverversion_show, axs_fwupgrade_store, axs_proc_write,
      axs_proc_read
<1>2. ASSUME NEW c \in Callers, NEW f \in SysfsCalls \cup ProcCalls, Call(c, f)
      PROVE  Passed'
  BY <1>2, CallTarget DEF Call, Texts
<1>3. CASE axs_ts_probe
  <2>1. CASE ProbeAllocate
    BY <2>1 DEF ProbeAllocate, Drains, Idle
  <2>2. CASE axs_create_proc_file
    BY <2>2 DEF axs_create_proc_file
  <2>3. CASE CreateGroup
    BY <2>3 DEF CreateGroup
  <2>4. CASE CreateTx
    BY <2>4 DEF CreateTx, Buffers, NeedsTx, Unmade, WithoutTx, Live
  <2>5. CASE CreateRx
    BY <2>5 DEF CreateRx, Unmade, WithoutTx, WithoutRx
  <2>6. CASE CreateMutex
    BY <2>6 DEF CreateMutex
  <2>7. CASE ProbeRequestIrq
    BY <2>7 DEF ProbeRequestIrq
  <2> QED
    BY <1>3, <2>1, <2>2, <2>3, <2>4, <2>5, <2>6, <2>7 DEF axs_ts_probe, axs_debug_create_sysfs
<1>4. CASE Remove
  <2>1. CASE FreeTx
    BY <2>1 DEF FreeTx
  <2>2. CASE FreeRx
    BY <2>2 DEF FreeRx
  <2>3. CASE CloseSysfs
    BY <2>3 DEF CloseSysfs
  <2>4. CASE DrainSysfs
    BY <2>4 DEF DrainSysfs
  <2>5. CASE CloseProc
    BY <2>5 DEF CloseProc
  <2>6. CASE DrainProc
    BY <2>6 DEF DrainProc
  <2>7. CASE RemoveFree
    BY <2>7 DEF RemoveFree
  <2>8. CASE RemoveHollow
    BY <2>8 DEF RemoveHollow
  <2> QED
    BY <1>4, <2>1, <2>2, <2>3, <2>4, <2>5, <2>6, <2>7, <2>8 DEF Remove,
      axs_debug_remove_sysfs, axs_release_proc_file
<1>5. CASE axs_ts_interrupt
  BY <1>5 DEF axs_ts_interrupt
<1>6. CASE UNCHANGED vars
  BY <1>6
<1> QED
  BY <1>1, <1>2, <1>3, <1>4, <1>5, <1>6 DEF Next

LEMMA WaitsStep ==
    Values /\ CallTypes /\ Places /\ Drains /\ Buffers /\ Held /\ Unmade /\ Passed /\ Waits
    /\ [Next]_vars => Waits'
<1> SUFFICES ASSUME Values /\ CallTypes /\ Places /\ Drains /\ Buffers
                    /\ Held /\ Unmade /\ Passed /\ Waits,
                    [Next]_vars
             PROVE  Waits'
  OBVIOUS
<1> USE DEF Values, CallTypes, Places, Held, Inside, UnderMutex, Passed, Waits,
  Storing, Broken, Content, Null, Refused, Failed, Arrived, Overwritten, Disturbed, Unanswered,
  Miss, vars, driver, bufs, locks, regs, history, At, Goto, Return, Fault,
  File, Text, NoCall, Step, Unlock, Keep
<1>1. ASSUME NEW c \in Callers, Proceed(c)
      PROVE  Waits'
  <2>1. CASE StoreCheck(c)
    BY <2>1 DEF StoreCheck
  <2>2. CASE StoreFill(c)
    BY <2>2 DEF StoreFill
  <2>3. CASE StoreLen(c)
    BY <2>3 DEF StoreLen
  <2>4. CASE ShowFormat(c)
    BY <2>4 DEF ShowFormat
  <2>5. CASE ShowReset(c)
    BY <2>5 DEF ShowReset
  <2>6. CASE BusArgs(c)
    BY <2>6 DEF BusArgs
  <2>7. CASE BusSend(c)
    BY <2>7 DEF BusSend
  <2>8. CASE BusReceive(c)
    BY <2>8 DEF BusReceive
  <2>9. CASE DumpSize(c)
    BY <2>9 DEF DumpSize
  <2>10. CASE DumpFormat(c)
    BY <2>10 DEF DumpFormat
  <2>11. CASE VersionRead(c)
    BY <2>11 DEF VersionRead
  <2>12. CASE VersionPrint(c)
    BY <2>12 DEF VersionPrint
  <2>13. CASE LoadCommand(c)
    BY <2>13 DEF LoadCommand
  <2>14. CASE LoadEnd(c)
    BY <2>14 DEF LoadEnd
  <2>15. CASE ProcCheck(c)
    BY <2>15 DEF ProcCheck
  <2>16. CASE ProcCopy(c)
    BY <2>16 DEF ProcCopy
  <2>17. CASE ProcMode(c)
    BY <2>17 DEF ProcMode
  <2>18. CASE ProcSend(c)
    BY <2>18 DEF ProcSend
  <2>19. CASE ProcReset(c)
    BY <2>19 DEF ProcReset
  <2>20. CASE ProcReadCheck(c)
    BY <2>20 DEF ProcReadCheck
  <2>21. CASE ProcReceive(c)
    BY <2>21 DEF ProcReceive
  <2>22. CASE ProcOut(c)
    BY <2>22 DEF ProcOut
  <2>23. CASE Lock(c)
    BY <2>23, LockTarget DEF Lock
  <2>24. CASE axs_hw_reset_show(c)
    BY <2>24 DEF axs_hw_reset_show
  <2>25. CASE LockUninitialised(c)
    BY <2>25 DEF LockUninitialised
  <2> QED
    BY <1>1, <2>1, <2>2, <2>3, <2>4, <2>5, <2>6, <2>7, <2>8, <2>9,
       <2>10, <2>11, <2>12, <2>13, <2>14, <2>15, <2>16, <2>17, <2>18,
       <2>19, <2>20, <2>21, <2>22, <2>23, <2>24, <2>25
    DEF Proceed, axs_tprwreg_store, axs_tprwreg_show, axs_write_bytes_read_bytes,
      axs_diff_show, axs_driverversion_show, axs_fwupgrade_store, axs_proc_write,
      axs_proc_read
<1>2. ASSUME NEW c \in Callers, NEW f \in SysfsCalls \cup ProcCalls, Call(c, f)
      PROVE  Waits'
  BY <1>2, CallTarget DEF Call, Texts
<1>3. CASE axs_ts_probe
  <2>1. CASE ProbeAllocate
    BY <2>1 DEF ProbeAllocate, Unmade, WithoutTx, WithoutRx
  <2>2. CASE axs_create_proc_file
    BY <2>2 DEF axs_create_proc_file
  <2>3. CASE CreateGroup
    BY <2>3 DEF CreateGroup
  <2>4. CASE CreateTx
    BY <2>4 DEF CreateTx
  <2>5. CASE CreateRx
    BY <2>5 DEF CreateRx, Unmade, WithoutTx, WithoutRx
  <2>6. CASE CreateMutex
    BY <2>6 DEF CreateMutex
  <2>7. CASE ProbeRequestIrq
    BY <2>7 DEF ProbeRequestIrq
  <2> QED
    BY <1>3, <2>1, <2>2, <2>3, <2>4, <2>5, <2>6, <2>7 DEF axs_ts_probe, axs_debug_create_sysfs
<1>4. CASE Remove
  <2>1. CASE FreeTx
    BY <2>1 DEF FreeTx
  <2>2. CASE FreeRx
    BY <2>2 DEF FreeRx
  <2>3. CASE CloseSysfs
    BY <2>3 DEF CloseSysfs
  <2>4. CASE DrainSysfs
    BY <2>4 DEF DrainSysfs
  <2>5. CASE CloseProc
    BY <2>5 DEF CloseProc
  <2>6. CASE DrainProc
    BY <2>6 DEF DrainProc
  <2>7. CASE RemoveFree
    BY <2>7 DEF RemoveFree
  <2>8. CASE RemoveHollow
    BY <2>8 DEF RemoveHollow
  <2> QED
    BY <1>4, <2>1, <2>2, <2>3, <2>4, <2>5, <2>6, <2>7, <2>8 DEF Remove,
      axs_debug_remove_sysfs, axs_release_proc_file
<1>5. CASE axs_ts_interrupt
  BY <1>5 DEF axs_ts_interrupt
<1>6. CASE UNCHANGED vars
  BY <1>6
<1> QED
  BY <1>1, <1>2, <1>3, <1>4, <1>5, <1>6 DEF Next

LEMMA AnswerInit == Init => AnswerInv
<1> SUFFICES ASSUME Init PROVE AnswerInv
  OBVIOUS
<1>1. DebugInv
  BY DebugInit
<1>2. Unmade /\ Passed /\ Waits
  BY DEF Init, Unmade, WithoutTx, WithoutRx, Passed, Waits
<1>3. BrokenHeld /\ BusHeld
  BY DEF Init, NoCall, BrokenHeld, Broken, BusHeld, At
<1> QED
  BY <1>1, <1>2, <1>3 DEF AnswerInv

LEMMA AnswerStep == AnswerInv /\ [Next]_vars => AnswerInv'
<1> SUFFICES ASSUME AnswerInv, [Next]_vars PROVE AnswerInv'
  OBVIOUS
<1>1. Values /\ CallTypes /\ Places /\ Drains /\ Buffers /\ Taken /\ Held
  BY TypeParts DEF AnswerInv, DebugInv
<1>2. DebugInv'
  BY DebugStep DEF AnswerInv
<1>3. Unmade' /\ BrokenHeld' /\ BusHeld'
  BY <1>1, UnmadeStep, BrokenStep, BusHeldStep DEF AnswerInv
<1>4. Passed' /\ Waits'
  BY <1>1, PassedStep, WaitsStep DEF AnswerInv
<1> QED
  BY <1>2, <1>3, <1>4 DEF AnswerInv

\* What ShowsOwnAnswer says of one step.
OwnAnswer ==
    \A c \in Callers :
        ShowFormat(c) /\ ~At(c, "fault")' /\ s_rd_len = 1 /\ asked # "other" /\ ~early =>
            rx = asked

\* Whoever shows an answer holds the mutex, so that no store is between its fill and its length.
LEMMA OwnAnswerShown == AnswerInv => OwnAnswer
<1> SUFFICES ASSUME AnswerInv, NEW c \in Callers, ShowFormat(c), s_rd_len = 1,
                    asked # "other", ~early
             PROVE  rx = asked
  BY DEF OwnAnswer
<1>1. Inside(c) /\ At(c, "format")
  BY DEF ShowFormat, At, Inside, UnderMutex
<1>2. ASSUME NEW d \in Callers, Storing(d) PROVE FALSE
  <2>1. CASE Broken(d)
    <3>1. mutex = d /\ mutex = c
      BY <1>1, <2>1 DEF AnswerInv, DebugInv, BrokenHeld, Held
    <3> QED
      BY <1>1, <2>1, <3>1 DEF Broken, At
  <2>2. CASE calls[d].step \in {"args", "send", "recv", "len"} /\ File(d) # "dump"
    <3>1. Inside(d)
      BY <2>2 DEF Inside, UnderMutex
    <3>2. c = d
      BY <1>1, <3>1 DEF AnswerInv, DebugInv, Held
    <3> QED
      BY <1>1, <2>2, <3>2 DEF At
  <2> QED
    BY <1>2, <2>1, <2>2 DEF Storing
<1> QED
  BY <1>2 DEF AnswerInv, Waits

\* The inductive invariant of the answer, for any callers and register commands.
THEOREM AnswerCorrect == Spec => []AnswerInv
BY AnswerInit, AnswerStep, PTL DEF Spec

\* axs_tprwreg_show shows the answer to the register command written last, whatever other
\* threads do with the files that work under s_device_mutex and whenever probe and removal
\* happen: only a transfer that failed, a file that does not take the mutex and a mutex
\* initialised under a call can put something else into debug_rx_buf.
THEOREM OwnAnswerIsShown == Spec => ShowsOwnAnswer
<1>1. AnswerInv /\ [Next]_vars => [OwnAnswer]_vars
  BY OwnAnswerShown
<1> QED
  BY <1>1, AnswerCorrect, PTL DEF Spec, ShowsOwnAnswer, OwnAnswer

====
