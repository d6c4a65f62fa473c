---- MODULE TouchScreenProofs ----
\* Proofs about the touch screen driver: the interrupt thread, the notifier, the resume work
\* and an upgrade keep the report state, the interrupt and the flags in step, in every order
\* of their steps.
EXTENDS TouchScreen, TLAPS

----------------------------------------------------------------------------
\* The inductive invariant, in parts.

IrqPlaces    == {"idle", "check", "read", "slot", "mask", "missed", "store", "btn"}
FbPlaces     == {"idle", "cancel", "check", "irqoff", "next"} \cup RelSteps
ResumePlaces == {"idle", "check", "next", "mark"} \cup RelSteps
FwPlaces     == {"idle", "irqoff", "request", "oops", "load", "lcdoff", "lcdon", "enable", "clear"}

\* Each thread is at one of its own places.
Places ==
    /\ TypeOK
    /\ pc["irq"] \in IrqPlaces /\ pc["fb"] \in FbPlaces
    /\ pc["resume"] \in ResumePlaces /\ pc["fw"] \in FwPlaces

\* A notifier past cancel_work_sync has the resume work to itself; it suspends only what is
\* not suspended, and the work resumes only what is.
OneAtATime ==
    /\ pc["fb"] \notin {"idle", "cancel"} => Idle("resume") /\ ~queued
    /\ Suspending \/ At("fb", "irqoff") => ~suspended
    /\ pc["resume"] \in RelSteps \cup {"next", "mark"} => suspended

\* How far a release has come, and how far a report, when none met the other.
ReleaseInStep ==
    \A t \in {"fb", "resume"} :
        pc[t] \in {"relBtn", "relTouchs", "relPoint"} /\ ~overlap =>
            /\ ~Reporting
            /\ slot = 0
            /\ pc[t] # "relBtn" => btn = 0
            /\ At(t, "relPoint") => touchs = 0

ReportInStep ==
    Reporting /\ ~overlap =>
        /\ At("irq", "slot") => touch_point = 1
        /\ ~At("irq", "slot") => slot = down /\ reported
        /\ pc["irq"] \in {"missed", "store", "btn"} => touchs = down

Agreed == ~Reporting /\ ~Releasing /\ ~overlap => slot = btn /\ btn = touchs

\* From the moment suspend disables the interrupt until resume enables it, it stays
\* disabled unless an upgrade or probe enables it, and no thread reports a finger unless one
\* was running.
Quieted == Suspending \/ (suspended /\ ~At("resume", "mark"))

Silent ==
    Quieted /\ ~woken =>
        /\ masked /\ irq_disabled
        /\ ~flight =>
            /\ Idle("irq")
            /\ ~At("fb", "relSlot") => slot = 0
            /\ pc["fb"] \notin {"relSlot", "relBtn"} => btn = 0

\* Only a thread that was past its check when the upgrade began can still read.
ReadsCounted == stray <= 1 /\ (fw_loading /\ At("irq", "read") => stray = 0)

\* The steps of axs_ts_remove leave nothing behind that could start again.
RemoveInOrder ==
    /\ life \in {"nofiles", "nofb", "noirq", "noinput", "gone"} => Idle("fw")
    /\ life \in {"nofb", "noirq", "noinput", "gone"} => Idle("fb")
    /\ life \in {"noirq", "noinput", "gone"} => Idle("irq")
    /\ life = "gone" \/ (life = "noinput" /\ ~late) => ~queued /\ Idle("resume")

TouchInv ==
    /\ Places
    /\ OneAtATime
    /\ ReleaseInStep
    /\ ReportInStep
    /\ Agreed
    /\ Silent
    /\ OffMeansSuspended
    /\ ReadsCounted
    /\ RemoveInOrder

----------------------------------------------------------------------------
\* What the steps of each thread leave alone.

FbStep     == Unblank \/ Powerdown \/ CancelResume \/ axs_ts_suspend
ResumeStep == ResumeBegins \/ axs_ts_resume
FwStep     == FwBegin \/ axs_debug_fwupg

LEMMA GotoMoves ==
    ASSUME Places, NEW t \in Threads, NEW at, Goto(t, at)
    PROVE  /\ pc'[t] = at /\ pc' = [u \in Threads |-> pc'[u]]
           /\ \A u \in Threads \ {t} : pc'[u] = pc[u]
  BY DEF Places, TypeOK, Goto

LEMMA IrqSteps ==
    ASSUME Places, Interrupt \/ Thread
    PROVE  /\ UNCHANGED <<flags, queued, life, screen, flight, woken, refused, left, late>>
           /\ pc' = [t \in Threads |-> pc'[t]] /\ \A u \in Threads \ {"irq"} : pc'[u] = pc[u]
           /\ pc'["irq"] \in IrqPlaces
<1>1. "irq" \in Threads
  BY DEF Threads
<1>2. PICK at \in IrqPlaces : Goto("irq", at)
  BY DEF Interrupt, Thread, axs_ts_interrupt, axs_read_parse_touchdata, axs_input_report_b,
         ReportSlot, ReportMask, ReportMissed, ReportStore, ReportBtn, IrqPlaces
<1>3. UNCHANGED <<flags, queued, life, screen, flight, woken, refused, left, late>>
  BY DEF Interrupt, Thread, axs_ts_interrupt, axs_read_parse_touchdata, axs_input_report_b,
         ReportSlot, ReportMask, ReportMissed, ReportStore, ReportBtn, history
<1> QED
  BY <1>1, <1>2, <1>3, GotoMoves

LEMMA FbSteps ==
    ASSUME Places, FbStep
    PROVE  /\ UNCHANGED <<fw_loading, local, life, stray, left, late>>
           /\ pc' = [t \in Threads |-> pc'[t]] /\ \A u \in Threads \ {"fb"} : pc'[u] = pc[u]
           /\ pc'["fb"] \in FbPlaces
<1> USE DEF FbStep, axs_ts_suspend, axs_release_all_finger
<1>1. "fb" \in Threads
  BY DEF Threads
<1>2. UNCHANGED <<fw_loading, local, life, stray, left, late>>
  BY DEF Unblank, Powerdown, CancelResume, SuspendCheck, SuspendIrqOff, SuspendMark, ReleaseSlot,
         ReleaseBtn, ReleaseTouchs, ReleasePoint, flags, history
<1>3. CASE Unblank
  BY <1>2, <1>3 DEF Unblank, Places, TypeOK
<1>4. CASE ~Unblank
  <2>1. PICK at \in FbPlaces : Goto("fb", at)
    BY <1>4
    DEF Powerdown, CancelResume, SuspendCheck, SuspendIrqOff, SuspendMark, ReleaseSlot,
        ReleaseBtn, ReleaseTouchs, ReleasePoint, FbPlaces, RelSteps
  <2> QED
    BY <1>1, <1>2, <2>1, GotoMoves
<1> QED
  BY <1>3, <1>4

LEMMA ResumeSteps ==
    ASSUME Places, ResumeStep
    PROVE  /\ UNCHANGED <<fw_loading, local, life, screen, flight, woken, refused, stray, left,
                          late>>
           /\ pc' = [t \in Threads |-> pc'[t]] /\ \A u \in Threads \ {"resume"} : pc'[u] = pc[u]
           /\ pc'["resume"] \in ResumePlaces
<1> USE DEF ResumeStep, axs_ts_resume, axs_release_all_finger
<1>1. "resume" \in Threads
  BY DEF Threads
<1>2. PICK at \in ResumePlaces : Goto("resume", at)
  BY DEF ResumeBegins, ResumeCheck, ResumeIrqOn, ResumeMark, ReleaseSlot, ReleaseBtn,
         ReleaseTouchs, ReleasePoint, ResumePlaces, RelSteps
<1>3. UNCHANGED <<fw_loading, local, life, screen, flight, woken, refused, stray, left, late>>
  BY DEF ResumeBegins, ResumeCheck, ResumeIrqOn, ResumeMark, ReleaseSlot, ReleaseBtn,
         ReleaseTouchs, ReleasePoint, flags, history
<1> QED
  BY <1>1, <1>2, <1>3, GotoMoves

LEMMA FwSteps ==
    ASSUME Places, FwStep
    PROVE  /\ UNCHANGED <<suspended, queued, report, local, life, screen, overlap, flight,
                          refused, late>>
           /\ pc' = [t \in Threads |-> pc'[t]] /\ \A u \in Threads \ {"fw"} : pc'[u] = pc[u]
           /\ pc'["fw"] \in FwPlaces
<1> USE DEF FwStep, axs_debug_fwupg, LcdIrqOn, FwEnable, FwIrqOn
<1>1. "fw" \in Threads
  BY DEF Threads
<1>2. PICK at \in FwPlaces : Goto("fw", at)
  BY DEF FwBegin, FwIrqOff, FwRequest, FwLoadImage, LcdIrqOff, FwClear, FwPlaces
<1>3. UNCHANGED <<suspended, queued, report, local, life, screen, overlap, flight, refused, late>>
  BY DEF FwBegin, FwIrqOff, FwRequest, FwLoadImage, LcdIrqOff, FwClear, flags, history
<1> QED
  BY <1>1, <1>2, <1>3, GotoMoves

LEMMA LifeSteps ==
    ASSUME axs_ts_probe \/ axs_ts_remove
    PROVE  /\ UNCHANGED <<pc, irq_disabled, suspended, fw_loading, queued, report, local,
                          screen, overlap, flight, refused, stray, left>>
           /\ ~ProbeRequestIrq => UNCHANGED <<masked, woken>>
           /\ ~RemoveInput => UNCHANGED late
           /\ life' \in {"notified", "loaded", "nofiles", "nofb", "noirq", "noinput", "gone"}
  BY DEF axs_ts_probe, axs_ts_remove, ProbeNotifier, ProbeRequestIrq, RemoveFiles,
         RemoveNotifier, RemoveIrq, RemoveInput, RemoveQueue, flags, irq, history

\* The threads share out the steps.
LEMMA Steps ==
    Next => \/ Interrupt \/ Thread
            \/ FbStep \/ ResumeStep \/ FwStep
            \/ axs_ts_probe \/ axs_ts_remove
  BY DEF Next, FbStep, ResumeStep, FwStep

----------------------------------------------------------------------------
\* Each part of the invariant.

LEMMA TouchInvInit == Init => TouchInv
<1> USE DEF Init, Threads, RelSteps
<1> SUFFICES ASSUME Init PROVE TouchInv
  OBVIOUS
<1>1. Places
  <2>1. \A t \in Threads : pc[t] = "idle"
    OBVIOUS
  <2>2. pc \in [Threads -> {"idle", "check", "read", "slot", "mask", "missed", "store", "btn",
                           "cancel", "irqoff", "next", "mark", "request", "oops", "load",
                           "lcdoff", "lcdon", "enable", "clear"} \cup RelSteps]
    OBVIOUS
  <2>3. TypeOK
    <3> SUFFICES /\ irq_disabled \in BOOLEAN /\ masked \in BOOLEAN /\ suspended \in BOOLEAN
                 /\ fw_loading \in BOOLEAN /\ queued \in BOOLEAN /\ reported \in BOOLEAN
                 /\ overlap \in BOOLEAN /\ flight \in BOOLEAN /\ woken \in BOOLEAN
                 /\ refused \in BOOLEAN /\ left \in BOOLEAN /\ late \in BOOLEAN
      BY <2>2 DEF TypeOK
    <3> QED
      OBVIOUS
  <2> QED
    BY <2>1, <2>3 DEF Places, IrqPlaces, FbPlaces, ResumePlaces, FwPlaces
<1>2. OneAtATime /\ ReleaseInStep /\ ReportInStep /\ Agreed
  BY DEF OneAtATime, ReleaseInStep, ReportInStep, Agreed, Idle, Suspending, At, Reporting
<1>3. Silent /\ OffMeansSuspended /\ ReadsCounted /\ RemoveInOrder
  BY DEF Silent, Quieted, Suspending, OffMeansSuspended, ReadsCounted, RemoveInOrder, At
<1> QED
  BY <1>1, <1>2, <1>3 DEF TouchInv

\* Every thread stays at its own places and every variable in its range.
LEMMA PlacesStep == TouchInv /\ Next => Places'
<1> SUFFICES ASSUME TouchInv, Next PROVE Places'
  OBVIOUS
<1> USE DEF TouchInv
<1>1. ASSUME pc' = [t \in Threads |-> pc'[t]], pc'["irq"] \in IrqPlaces, pc'["fb"] \in FbPlaces,
             pc'["resume"] \in ResumePlaces, pc'["fw"] \in FwPlaces
      PROVE  pc' \in [Threads -> {"idle", "check", "read", "slot", "mask", "missed", "store",
                                  "btn", "cancel", "irqoff", "next", "mark", "request", "oops",
                                  "load", "lcdoff", "lcdon", "enable", "clear"} \cup RelSteps]
  <2>1. \A t \in Threads : pc'[t] \in IrqPlaces \cup FbPlaces \cup ResumePlaces \cup FwPlaces
    BY <1>1 DEF Threads
  <2> QED
    BY <1>1, <2>1 DEF IrqPlaces, FbPlaces, ResumePlaces, FwPlaces
<1>2. {"irq", "fb", "resume", "fw"} = Threads
  BY DEF Threads
<1>3. CASE Interrupt \/ Thread
  <2>1. /\ slot' \in {0, 1} /\ btn' \in {0, 1} /\ touchs' \in {0, 1} /\ touch_point' \in {0, 1}
        /\ down' \in {0, 1} /\ stray' \in 0..2
    BY <1>3
    DEF Interrupt, Thread, axs_ts_interrupt, axs_read_parse_touchdata, axs_input_report_b,
        ReportSlot, ReportMask, ReportMissed, ReportStore, ReportBtn, Places, TypeOK, report,
        local, history
  <2>2. reported' \in BOOLEAN /\ overlap' \in BOOLEAN
    BY <1>3
    DEF Interrupt, Thread, axs_ts_interrupt, axs_read_parse_touchdata, axs_input_report_b,
        ReportSlot, ReportMask, ReportMissed, ReportStore, ReportBtn, Places, TypeOK, Releasing,
        report, local, history
  <2> QED
    BY <1>1, <1>2, <1>3, <2>1, <2>2, IrqSteps DEF Places, TypeOK, flags, irq
<1>4. CASE FbStep
  <2>1. /\ slot' \in {0, 1} /\ btn' \in {0, 1} /\ touchs' \in {0, 1} /\ touch_point' \in {0, 1}
        /\ screen' \in {"on", "off"}
    BY <1>4
    DEF FbStep, Unblank, Powerdown, CancelResume, axs_ts_suspend, axs_release_all_finger,
        SuspendCheck, SuspendIrqOff, SuspendMark, ReleaseSlot, ReleaseBtn, ReleaseTouchs,
        ReleasePoint, Places, TypeOK, report, flags, irq, history
  <2>2. suspended' \in BOOLEAN /\ queued' \in BOOLEAN
    BY <1>4
    DEF FbStep, Unblank, Powerdown, CancelResume, axs_ts_suspend, axs_release_all_finger,
        SuspendCheck, SuspendIrqOff, SuspendMark, ReleaseSlot, ReleaseBtn, ReleaseTouchs,
        ReleasePoint, axs_irq_disable, Reporting, Idle, Places, TypeOK, report, flags, irq, history
  <2>5. overlap' = overlap \/ overlap' = Reporting
    BY <1>4
    DEF FbStep, Unblank, Powerdown, CancelResume, axs_ts_suspend, axs_release_all_finger,
        SuspendCheck, SuspendIrqOff, SuspendMark, ReleaseSlot, ReleaseBtn, ReleaseTouchs,
        ReleasePoint, history
  <2>4. flight' \in BOOLEAN /\ refused' \in BOOLEAN
    BY <1>4
    DEF FbStep, Unblank, Powerdown, CancelResume, axs_ts_suspend, axs_release_all_finger,
        SuspendCheck, SuspendIrqOff, SuspendMark, ReleaseSlot, ReleaseBtn, ReleaseTouchs,
        ReleasePoint, axs_irq_disable, Reporting, Idle, Places, TypeOK, report, flags, irq, history
  <2>3. irq_disabled' \in BOOLEAN /\ masked' \in BOOLEAN /\ woken' \in BOOLEAN
    BY <1>4
    DEF FbStep, Unblank, Powerdown, CancelResume, axs_ts_suspend, axs_release_all_finger,
        SuspendCheck, SuspendIrqOff, SuspendMark, ReleaseSlot, ReleaseBtn, ReleaseTouchs,
        ReleasePoint, axs_irq_disable, Reporting, Idle, Places, TypeOK, report, flags, irq, history
  <2>6. overlap' \in BOOLEAN
    <3>1. Reporting \in BOOLEAN /\ overlap \in BOOLEAN
      BY DEF Reporting, Places, TypeOK
    <3> QED
      BY <2>5, <3>1
  <2> QED
    BY <1>1, <1>2, <1>4, <2>1, <2>2, <2>3, <2>4, <2>6, FbSteps DEF Places, TypeOK, local
<1>5. CASE ResumeStep
  <2>1. /\ slot' \in {0, 1} /\ btn' \in {0, 1} /\ touchs' \in {0, 1} /\ touch_point' \in {0, 1}
    BY <1>5
    DEF ResumeStep, ResumeBegins, axs_ts_resume, axs_release_all_finger, ResumeCheck,
        ResumeIrqOn, ResumeMark, ReleaseSlot, ReleaseBtn, ReleaseTouchs, ReleasePoint,
        Places, TypeOK, report, flags, irq, history
  <2>2. suspended' \in BOOLEAN /\ queued' \in BOOLEAN
    BY <1>5
    DEF ResumeStep, ResumeBegins, axs_ts_resume, axs_release_all_finger, ResumeCheck,
        ResumeIrqOn, ResumeMark, ReleaseSlot, ReleaseBtn, ReleaseTouchs, ReleasePoint,
        axs_irq_enable, Reporting, Places, TypeOK, report, flags, irq, history
  <2>4. overlap' = overlap \/ overlap' = Reporting
    BY <1>5
    DEF ResumeStep, ResumeBegins, axs_ts_resume, axs_release_all_finger, ResumeCheck,
        ResumeIrqOn, ResumeMark, ReleaseSlot, ReleaseBtn, ReleaseTouchs, ReleasePoint, history
  <2>3. irq_disabled' \in BOOLEAN /\ masked' \in BOOLEAN
    BY <1>5
    DEF ResumeStep, ResumeBegins, axs_ts_resume, axs_release_all_finger, ResumeCheck,
        ResumeIrqOn, ResumeMark, ReleaseSlot, ReleaseBtn, ReleaseTouchs, ReleasePoint,
        axs_irq_enable, Reporting, Places, TypeOK, report, flags, irq, history
  <2>5. overlap' \in BOOLEAN
    <3>1. Reporting \in BOOLEAN /\ overlap \in BOOLEAN
      BY DEF Reporting, Places, TypeOK
    <3> QED
      BY <2>4, <3>1
  <2> QED
    BY <1>1, <1>2, <1>5, <2>1, <2>2, <2>3, <2>5, ResumeSteps DEF Places, TypeOK, local
<1>6. CASE FwStep
  <2>1. stray' \in 0..2
    BY <1>6
    DEF FwStep, FwBegin, axs_debug_fwupg, FwIrqOff, FwRequest, FwLoadImage, LcdIrqOff, LcdIrqOn,
        FwEnable, FwIrqOn, FwClear, axs_irq_disable, axs_irq_enable, Suspending, Places, TypeOK,
        flags, irq, history
  <2>2. /\ irq_disabled' \in BOOLEAN /\ masked' \in BOOLEAN /\ fw_loading' \in BOOLEAN
        /\ woken' \in BOOLEAN /\ left' \in BOOLEAN
    BY <1>6
    DEF FwStep, FwBegin, axs_debug_fwupg, FwIrqOff, FwRequest, FwLoadImage, LcdIrqOff, LcdIrqOn,
        FwEnable, FwIrqOn, FwClear, axs_irq_disable, axs_irq_enable, Suspending, Places, TypeOK,
        flags, irq, history
  <2> QED
    BY <1>1, <1>2, <1>6, <2>1, <2>2, FwSteps DEF Places, TypeOK, report, local
<1>7. CASE axs_ts_probe \/ axs_ts_remove
  <2>1. masked' \in BOOLEAN /\ woken' \in BOOLEAN /\ late' \in BOOLEAN
    BY <1>7, LifeSteps DEF ProbeRequestIrq, RemoveInput, Idle, Places, TypeOK
  <2> QED
    BY <1>7, <2>1, LifeSteps DEF Places, TypeOK, report, local
<1> QED
  BY <1>3, <1>4, <1>5, <1>6, <1>7, Steps

\* A notifier that waited for the resume work has it to itself.
LEMMA OneAtATimeStep == TouchInv /\ Next => OneAtATime'
<1> SUFFICES ASSUME TouchInv, Next PROVE OneAtATime'
  OBVIOUS
<1> USE DEF TouchInv
<1> {"irq", "fb", "resume", "fw"} = Threads
  BY DEF Threads
<1>1. CASE Interrupt \/ Thread
  BY <1>1, IrqSteps DEF OneAtATime, Idle, At, Suspending, flags
<1>2. CASE FbStep
  BY <1>2, FbSteps
  DEF FbStep, Unblank, Powerdown, CancelResume, axs_ts_suspend, axs_release_all_finger,
      SuspendCheck, SuspendIrqOff, SuspendMark, ReleaseSlot, ReleaseBtn, ReleaseTouchs,
      ReleasePoint, Goto, Places, TypeOK, OneAtATime, Idle, At, Suspending, RelSteps, flags
<1>3. CASE ResumeStep
  BY <1>3, ResumeSteps
  DEF ResumeStep, ResumeBegins, axs_ts_resume, axs_release_all_finger, ResumeCheck,
      ResumeIrqOn, ResumeMark, ReleaseSlot, ReleaseBtn, ReleaseTouchs, ReleasePoint,
      Goto, Places, TypeOK, OneAtATime, Idle, At, Suspending, RelSteps, flags
<1>4. CASE FwStep
  BY <1>4, FwSteps DEF OneAtATime, Idle, At, Suspending
<1>5. CASE axs_ts_probe \/ axs_ts_remove
  BY <1>5, LifeSteps DEF OneAtATime, Idle, At, Suspending
<1> QED
  BY <1>1, <1>2, <1>3, <1>4, <1>5, Steps

\* Once an upgrade has begun, a thread that reaches the check turns back.
LEMMA ReadsCountedStep == TouchInv /\ Next => ReadsCounted'
<1> SUFFICES ASSUME TouchInv, Next PROVE ReadsCounted'
  OBVIOUS
<1> USE DEF TouchInv
<1> {"irq", "fb", "resume", "fw"} = Threads
  BY DEF Threads
<1>1. CASE Interrupt \/ Thread
  BY <1>1
  DEF Interrupt, Thread, axs_ts_interrupt, axs_read_parse_touchdata, axs_input_report_b,
      ReportSlot, ReportMask, ReportMissed, ReportStore, ReportBtn, Goto, Places, TypeOK,
      ReadsCounted, At, flags, history
<1>2. CASE FbStep
  BY <1>2, FbSteps DEF ReadsCounted, At
<1>3. CASE ResumeStep
  BY <1>3, ResumeSteps DEF ReadsCounted, At
<1>4. CASE FwStep
  <2>1. \/ fw_loading' = fw_loading /\ stray' = stray
        \/ stray' = 0
        \/ stray' = stray /\ ~fw_loading'
    BY <1>4
    DEF FwStep, FwBegin, axs_debug_fwupg, FwIrqOff, FwRequest, FwLoadImage, LcdIrqOff, LcdIrqOn,
        FwEnable, FwIrqOn, FwClear, flags, history
  <2> QED
    BY <1>4, <2>1, FwSteps DEF ReadsCounted, At
<1>5. CASE axs_ts_probe \/ axs_ts_remove
  BY <1>5, LifeSteps DEF ReadsCounted, At
<1> QED
  BY <1>1, <1>2, <1>3, <1>4, <1>5, Steps

\* Whatever axs_ts_remove has waited for stays idle.
LEMMA RemoveInOrderStep == TouchInv /\ Next => RemoveInOrder'
<1> SUFFICES ASSUME TouchInv, Next PROVE RemoveInOrder'
  OBVIOUS
<1> USE DEF TouchInv
<1> {"irq", "fb", "resume", "fw"} = Threads
  BY DEF Threads
<1>1. CASE Interrupt \/ Thread
  <2>1. life \in {"loaded", "nofiles", "nofb"} \/ ~Idle("irq")
    BY <1>1
    DEF Interrupt, Thread, axs_ts_interrupt, axs_read_parse_touchdata, axs_input_report_b,
        ReportSlot, ReportMask, ReportMissed, ReportStore, ReportBtn, At, Idle
  <2> QED
    BY <1>1, <2>1, IrqSteps DEF RemoveInOrder, Idle, flags
<1>2. CASE FbStep
  <2>1. life \in {"notified", "loaded", "nofiles"} \/ ~Idle("fb")
    BY <1>2
    DEF FbStep, Unblank, Powerdown, CancelResume, axs_ts_suspend, axs_release_all_finger,
        SuspendCheck, SuspendIrqOff, SuspendMark, ReleaseSlot, ReleaseBtn, ReleaseTouchs,
        ReleasePoint, At, Idle
  <2> QED
    BY <1>2, <2>1, FbSteps DEF RemoveInOrder, Idle
<1>3. CASE ResumeStep
  <2>1. queued \/ ~Idle("resume")
    BY <1>3
    DEF ResumeStep, ResumeBegins, axs_ts_resume, axs_release_all_finger, ResumeCheck,
        ResumeIrqOn, ResumeMark, ReleaseSlot, ReleaseBtn, ReleaseTouchs, ReleasePoint, At, Idle
  <2> QED
    BY <1>3, <2>1, ResumeSteps DEF RemoveInOrder, Idle
<1>4. CASE FwStep
  <2>1. life \in {"files", "notified", "loaded"} \/ ~Idle("fw")
    BY <1>4
    DEF FwStep, FwBegin, axs_debug_fwupg, FwIrqOff, FwRequest, FwLoadImage, LcdIrqOff, LcdIrqOn,
        FwEnable, FwIrqOn, FwClear, At, Idle
  <2> QED
    BY <1>4, <2>1, FwSteps DEF RemoveInOrder, Idle
<1>5. CASE RemoveInput
  BY <1>5 DEF RemoveInput, RemoveInOrder, Idle
<1>6. CASE axs_ts_probe \/ RemoveFiles \/ RemoveNotifier \/ RemoveIrq \/ RemoveQueue
  BY <1>6
  DEF axs_ts_probe, ProbeNotifier, ProbeRequestIrq, RemoveFiles, RemoveNotifier, RemoveIrq,
      RemoveQueue, RemoveInOrder, Idle
<1> QED
  BY <1>1, <1>2, <1>3, <1>4, <1>5, <1>6, Steps DEF axs_ts_remove

\* The last event decides: the notifier runs one at a time and cancels the resume first.
LEMMA OffMeansSuspendedStep == TouchInv /\ Next => OffMeansSuspended'
<1> SUFFICES ASSUME TouchInv, Next PROVE OffMeansSuspended'
  OBVIOUS
<1> USE DEF TouchInv
<1> {"irq", "fb", "resume", "fw"} = Threads
  BY DEF Threads
<1>1. CASE Interrupt \/ Thread
  BY <1>1, IrqSteps DEF OffMeansSuspended, Idle, flags
<1>2. CASE FbStep
  BY <1>2, FbSteps
  DEF FbStep, Unblank, Powerdown, CancelResume, axs_ts_suspend, axs_release_all_finger,
      SuspendCheck, SuspendIrqOff, SuspendMark, ReleaseSlot, ReleaseBtn, ReleaseTouchs,
      ReleasePoint, Goto, Places, TypeOK, OneAtATime, OffMeansSuspended, Idle, At, RelSteps, flags
<1>3. CASE ResumeStep
  <2>1. queued \/ ~Idle("resume")
    BY <1>3
    DEF ResumeStep, ResumeBegins, axs_ts_resume, axs_release_all_finger, ResumeCheck,
        ResumeIrqOn, ResumeMark, ReleaseSlot, ReleaseBtn, ReleaseTouchs, ReleasePoint, At, Idle
  <2> QED
    BY <1>3, <2>1, ResumeSteps DEF OffMeansSuspended, Idle
<1>4. CASE FwStep
  BY <1>4, FwSteps DEF OffMeansSuspended, Idle
<1>5. CASE axs_ts_probe \/ axs_ts_remove
  BY <1>5, LifeSteps DEF OffMeansSuspended, Idle
<1> QED
  BY <1>1, <1>2, <1>3, <1>4, <1>5, Steps

\* A step that touches neither the input device, the report state nor the places of a report
\* or a release.
LEMMA ReportsUntouched ==
    ASSUME TouchInv, UNCHANGED <<report, local, overlap>>,
           Reporting' = Reporting,
           pc'["irq"] = pc["irq"] \/ ~Reporting,
           \A t \in {"fb", "resume"} :
               pc'[t] = pc[t] \/ (pc'[t] \notin RelSteps \ {"relSlot"} /\ pc[t] \notin RelSteps)
    PROVE  ReleaseInStep' /\ ReportInStep' /\ Agreed'
<1> USE DEF TouchInv, report, local
<1>1. ReleaseInStep'
  BY DEF ReleaseInStep, At, RelSteps
<1>2. ReportInStep'
  BY DEF ReportInStep, At, Reporting
<1>3. Releasing => Releasing'
  BY DEF Releasing, RelSteps
<1>4. Agreed'
  BY <1>3 DEF Agreed
<1> QED
  BY <1>1, <1>2, <1>4

\* The steps of a release: from its first store on it is alone, or overlap says so.
LEMMA ReleaseKeepsReports ==
    ASSUME TouchInv, NEW t \in {"fb", "resume"}, axs_release_all_finger(t)
    PROVE  ReleaseInStep' /\ ReportInStep' /\ Agreed'
<1> USE DEF TouchInv
<1>1. PICK at \in RelSteps \cup {"next"} :
        /\ pc' = [pc EXCEPT ![t] = at] /\ at # "relSlot"
        /\ pc[t] = "relSlot" => at = "relBtn" /\ (overlap' <=> Reporting) /\ slot' = 0
                                /\ UNCHANGED <<btn, touchs, touch_point, local>>
        /\ pc[t] = "relBtn" => at = "relTouchs" /\ btn' = 0
                               /\ UNCHANGED <<slot, touchs, touch_point, local, overlap>>
        /\ pc[t] = "relTouchs" => at = "relPoint" /\ touchs' = 0
                               /\ UNCHANGED <<slot, btn, touch_point, local, overlap>>
        /\ pc[t] = "relPoint" => at = "next" /\ touch_point' = 0
                               /\ UNCHANGED <<slot, btn, touchs, local, overlap>>
  BY DEF axs_release_all_finger, ReleaseSlot, ReleaseBtn, ReleaseTouchs, ReleasePoint, At, Goto,
         RelSteps, history
<1>2. pc[t] \in RelSteps
  BY DEF axs_release_all_finger, ReleaseSlot, ReleaseBtn, ReleaseTouchs, ReleasePoint, At,
         RelSteps
<1>3. pc'[t] = at /\ \A u \in Threads \ {t} : pc'[u] = pc[u]
  BY <1>1 DEF Places, TypeOK, Threads
<1>4. \A u \in {"fb", "resume"} \ {t} : pc[u] \notin RelSteps
  BY <1>2 DEF OneAtATime, RelSteps, Idle
<1>5. Reporting' = Reporting
  BY <1>3 DEF Reporting, Threads
<1>6. ReleaseInStep'
  <2>1. ASSUME at \in {"relBtn", "relTouchs", "relPoint"}, ~overlap'
        PROVE  ~Reporting /\ slot' = 0 /\ (at # "relBtn" => btn' = 0)
               /\ (at = "relPoint" => touchs' = 0)
    BY <1>1, <1>2, <2>1 DEF ReleaseInStep, At, RelSteps
  <2>2. \A u \in {"fb", "resume"} \ {t} : pc'[u] \notin RelSteps
    BY <1>3, <1>4 DEF Threads
  <2> QED
    BY <1>3, <1>5, <2>1, <2>2 DEF ReleaseInStep, At, RelSteps
<1>7. ReportInStep'
  <2>1. Reporting /\ ~overlap' => FALSE
    BY <1>1, <1>2 DEF ReleaseInStep, RelSteps
  <2> QED
    BY <1>5, <2>1 DEF ReportInStep
<1>8. Agreed'
  <2>1. CASE at = "next"
    BY <1>1, <1>2, <2>1 DEF ReleaseInStep, Agreed, RelSteps, At
  <2>2. CASE at # "next"
    <3>1. Releasing'
      BY <1>1, <1>3, <2>2 DEF Releasing
    <3> QED
      BY <3>1 DEF Agreed
  <2> QED
    BY <2>1, <2>2
<1> QED
  BY <1>6, <1>7, <1>8

\* The steps of a report.
LEMMA IrqKeepsReports ==
    ASSUME TouchInv, Interrupt \/ Thread
    PROVE  ReleaseInStep' /\ ReportInStep' /\ Agreed'
<1> USE DEF TouchInv
<1>1. \A u \in {"fb", "resume"} : pc'[u] = pc[u]
  BY IrqSteps DEF Threads
<1>2. Releasing' <=> Releasing
  BY <1>1 DEF Releasing
<1>3. CASE Reporting
  <2>1. axs_input_report_b
    BY <1>3
    DEF Interrupt, Thread, axs_ts_interrupt, axs_read_parse_touchdata, Reporting, At, Idle
  <2>2. overlap' = overlap
    BY <2>1 DEF axs_input_report_b, ReportSlot, ReportMask, ReportMissed, ReportStore, ReportBtn,
                history
  <2>3. ReleaseInStep'
    BY <1>1, <1>3, <2>2 DEF ReleaseInStep
  <2>4. ReportInStep' /\ Agreed'
    <3> SUFFICES ASSUME ~overlap PROVE ReportInStep' /\ Agreed'
      BY <2>2 DEF ReportInStep, Agreed
    <3> USE DEF ReportInStep, Agreed, Reporting, At, Goto, Places, TypeOK, Threads, local
    <3>1. CASE ReportSlot
      BY <3>1 DEF ReportSlot
    <3>2. CASE ReportMask
      BY <3>2 DEF ReportMask
    <3>3. CASE ReportMissed
      BY <3>3 DEF ReportMissed
    <3>4. CASE ReportStore
      BY <3>4 DEF ReportStore
    <3>5. CASE ReportBtn
      BY <3>5 DEF ReportBtn
    <3> QED
      BY <2>1, <3>1, <3>2, <3>3, <3>4, <3>5 DEF axs_input_report_b
  <2> QED
    BY <2>3, <2>4
<1>4. CASE ~Reporting
  <2>1. CASE axs_read_parse_touchdata /\ pc'["irq"] = "slot"
    <3>1. touch_point' = 1 /\ overlap' = Releasing /\ Reporting'
      BY <2>1 DEF axs_read_parse_touchdata, Goto, Places, TypeOK, Threads, Reporting
    <3>2. ReleaseInStep'
      BY <1>1, <3>1 DEF ReleaseInStep, Releasing, RelSteps
    <3>3. ReportInStep' /\ Agreed'
      BY <2>1, <3>1 DEF ReportInStep, Agreed, At
    <3> QED
      BY <3>2, <3>3
  <2>2. CASE ~(axs_read_parse_touchdata /\ pc'["irq"] = "slot")
    <3>1. UNCHANGED <<report, local, overlap>> /\ pc'["irq"] \in {"idle", "check", "read"}
      BY <1>4, <2>2
      DEF Interrupt, Thread, axs_ts_interrupt, axs_read_parse_touchdata, axs_input_report_b,
          ReportSlot, ReportMask, ReportMissed, ReportStore, ReportBtn, Reporting, At, Goto,
          Places, TypeOK, Threads, report, local, history
    <3>2. ~Reporting'
      BY <3>1 DEF Reporting
    <3> QED
      BY <1>1, <1>4, <3>1, <3>2, ReportsUntouched DEF Reporting
  <2> QED
    BY <2>1, <2>2
<1> QED
  BY <1>3, <1>4

\* Reports and releases keep the finger, the button and the driver's idea of them together.
LEMMA ReportsStep == TouchInv /\ Next => ReleaseInStep' /\ ReportInStep' /\ Agreed'
<1> SUFFICES ASSUME TouchInv, Next PROVE ReleaseInStep' /\ ReportInStep' /\ Agreed'
  OBVIOUS
<1> USE DEF TouchInv
<1> {"irq", "fb", "resume", "fw"} = Threads
  BY DEF Threads
<1>1. CASE Interrupt \/ Thread
  BY <1>1, IrqKeepsReports
<1>2. CASE axs_release_all_finger("fb") \/ axs_release_all_finger("resume")
  BY <1>2, ReleaseKeepsReports
<1>3. CASE FbStep /\ ~axs_release_all_finger("fb")
  <2>1. UNCHANGED <<report, overlap>>
        /\ \/ pc'["fb"] = pc["fb"]
           \/ pc'["fb"] \notin RelSteps \ {"relSlot"} /\ pc["fb"] \notin RelSteps
    BY <1>3
    DEF FbStep, Unblank, Powerdown, CancelResume, axs_ts_suspend, SuspendCheck, SuspendIrqOff,
        SuspendMark, Goto, Places, TypeOK, At, Idle, RelSteps, report, history
  <2> QED
    BY <1>3, <2>1, FbSteps, ReportsUntouched DEF Reporting
<1>4. CASE ResumeStep /\ ~axs_release_all_finger("resume")
  <2>1. UNCHANGED <<report, overlap>>
        /\ pc'["resume"] \notin RelSteps \ {"relSlot"} /\ pc["resume"] \notin RelSteps
    BY <1>4
    DEF ResumeStep, ResumeBegins, axs_ts_resume, ResumeCheck, ResumeIrqOn, ResumeMark, Goto,
        Places, TypeOK, At, Idle, RelSteps, report, history
  <2> QED
    BY <1>4, <2>1, ResumeSteps, ReportsUntouched DEF Reporting
<1>5. CASE FwStep
  BY <1>5, FwSteps, ReportsUntouched DEF Reporting
<1>6. CASE axs_ts_probe \/ axs_ts_remove
  BY <1>6, LifeSteps, ReportsUntouched DEF Reporting
<1> QED
  BY <1>1, <1>2, <1>3, <1>4, <1>5, <1>6, Steps

\* While it is quiet only an upgrade or probe enables the interrupt, and they say so.
LEMMA SilentStep == TouchInv /\ Next => Silent'
<1> SUFFICES ASSUME TouchInv, Next PROVE Silent'
  OBVIOUS
<1> USE DEF TouchInv
<1> {"irq", "fb", "resume", "fw"} = Threads
  BY DEF Threads
<1>1. CASE Interrupt \/ Thread
  <2>1. Suspending' = Suspending /\ Quieted' = Quieted /\ UNCHANGED <<flags, woken, flight>>
    BY <1>1, IrqSteps DEF Suspending, Quieted, At, flags
  <2>2. ~masked \/ ~Idle("irq")
    BY <1>1
    DEF Interrupt, Thread, axs_ts_interrupt, axs_read_parse_touchdata, axs_input_report_b,
        ReportSlot, ReportMask, ReportMissed, ReportStore, ReportBtn, At, Idle
  <2> QED
    BY <2>1, <2>2 DEF Silent, flags, irq
<1>2. CASE FbStep
  <2>1. /\ pc'["irq"] = pc["irq"] /\ pc'["resume"] = pc["resume"]
    BY <1>2, FbSteps
  <2> USE DEF Silent, Quieted, Suspending, OneAtATime, At, Idle, Goto, Places, TypeOK, RelSteps,
              flags, irq, report, history
  <2>2. CASE Unblank \/ Powerdown \/ CancelResume \/ SuspendCheck
    BY <2>1, <2>2 DEF Unblank, Powerdown, CancelResume, SuspendCheck
  <2>3. CASE SuspendIrqOff
    BY <2>1, <2>3 DEF SuspendIrqOff, axs_irq_disable
  <2>4. CASE axs_release_all_finger("fb")
    BY <2>1, <2>4
    DEF axs_release_all_finger, ReleaseSlot, ReleaseBtn, ReleaseTouchs, ReleasePoint
  <2>5. CASE SuspendMark
    BY <2>1, <2>5 DEF SuspendMark
  <2> QED
    BY <1>2, <2>2, <2>3, <2>4, <2>5 DEF FbStep, axs_ts_suspend
<1>3. CASE ResumeStep
  <2>1. /\ pc'["irq"] = pc["irq"] /\ pc'["fb"] = pc["fb"] /\ UNCHANGED <<woken, flight>>
    BY <1>3, ResumeSteps
  <2> USE DEF Silent, Quieted, Suspending, OneAtATime, At, Idle, Goto, Places, TypeOK, RelSteps,
              flags, irq, report
  <2>2. CASE ResumeBegins \/ ResumeCheck
    BY <2>1, <2>2 DEF ResumeBegins, ResumeCheck
  <2>3. CASE axs_release_all_finger("resume")
    BY <2>1, <2>3
    DEF axs_release_all_finger, ReleaseSlot, ReleaseBtn, ReleaseTouchs, ReleasePoint
  <2>4. CASE ResumeIrqOn
    BY <2>1, <2>4 DEF ResumeIrqOn
  <2>5. CASE ResumeMark
    BY <2>1, <2>5 DEF ResumeMark
  <2> QED
    BY <1>3, <2>2, <2>3, <2>4, <2>5 DEF ResumeStep, axs_ts_resume
<1>4. CASE FwStep
  <2>1. Suspending' = Suspending /\ Quieted' = Quieted
        /\ UNCHANGED <<suspended, slot, btn, flight>>
        /\ pc'["irq"] = pc["irq"] /\ pc'["fb"] = pc["fb"]
    BY <1>4, FwSteps DEF Suspending, Quieted, At, report
  <2>2. CASE LcdIrqOn \/ FwEnable
    BY <2>1, <2>2 DEF LcdIrqOn, FwEnable, FwIrqOn, Silent, Quieted
  <2>3. CASE ~(LcdIrqOn \/ FwEnable)
    <3>1. CASE FwIrqOff \/ LcdIrqOff
      BY <2>1, <3>1 DEF FwIrqOff, LcdIrqOff, axs_irq_disable, Silent, At, Idle, history
    <3>2. CASE ~(FwIrqOff \/ LcdIrqOff)
      <4>1. UNCHANGED <<irq, woken>>
        BY <1>4, <2>3, <3>2
        DEF FwStep, FwBegin, axs_debug_fwupg, FwRequest, FwLoadImage, FwClear, flags, history
      <4> QED
        BY <2>1, <4>1 DEF Silent, At, Idle, irq
    <3> QED
      BY <3>1, <3>2
  <2> QED
    BY <2>2, <2>3
<1>5. CASE axs_ts_probe \/ axs_ts_remove
  <2>1. CASE ProbeRequestIrq
    BY <2>1 DEF ProbeRequestIrq, Silent, Quieted, Suspending, At
  <2>2. CASE ~ProbeRequestIrq
    BY <1>5, <2>2, LifeSteps DEF Silent, Quieted, Suspending, At, Idle, report
  <2> QED
    BY <2>1, <2>2
<1> QED
  BY <1>1, <1>2, <1>3, <1>4, <1>5, Steps

LEMMA TouchInvStep == TouchInv /\ [Next]_vars => TouchInv'
<1>1. TouchInv /\ UNCHANGED vars => TouchInv'
  BY DEF TouchInv, vars, flags, irq, report, local, history, Places, TypeOK, OneAtATime,
         ReleaseInStep, ReportInStep, Agreed, Silent, Quieted, OffMeansSuspended, ReadsCounted,
         RemoveInOrder, At, Idle, Suspending, Reporting, Releasing
<1>2. TouchInv /\ Next => TouchInv'
  BY PlacesStep, OneAtATimeStep, ReportsStep, SilentStep, OffMeansSuspendedStep,
     ReadsCountedStep, RemoveInOrderStep
  DEF TouchInv
<1> QED
  BY <1>1, <1>2

\* The threads of the driver keep the whole invariant, in every order of their steps.
THEOREM TouchCorrect == Spec => []TouchInv
  BY TouchInvInit, TouchInvStep, PTL DEF Spec

\* Types of TouchScreen: touchs stays a mask of the one finger.
THEOREM TypeCorrect == Spec => []TypeOK
<1>1. TouchInv => TypeOK
  BY DEF TouchInv, Places
<1> QED
  BY <1>1, TouchCorrect, PTL

\* Between reports the finger, BTN_TOUCH and the driver's own idea of the finger agree, when
\* the last report and the last release did not meet.
THEOREM ReportsAgree == Spec => []SlotsAgree
<1>1. TouchInv => SlotsAgree
  BY DEF TouchInv, Agreed, SlotsAgree, Reporting, Idle
<1> QED
  BY <1>1, TouchCorrect, PTL

\* A suspended screen has its interrupt disabled and no finger down, unless a thread was
\* running when suspend disabled it or an upgrade or probe enabled it since.
THEOREM SuspendSilences == Spec => []SuspendedIsSilent
<1>1. TouchInv => SuspendedIsSilent
  BY DEF TouchInv, Silent, Quieted, SuspendedIsSilent, OneAtATime, Suspending, At, Idle,
         RelSteps
<1> QED
  BY <1>1, TouchCorrect, PTL

\* The last event of the framebuffer decides: a screen last told to power down is suspended
\* and nothing is on its way to wake it, unless the suspend was refused.
THEOREM LastEventDecides == Spec => []OffMeansSuspended
<1>1. TouchInv => OffMeansSuspended
  BY DEF TouchInv
<1> QED
  BY <1>1, TouchCorrect, PTL

\* The interrupt thread reads the bus at most once during an upgrade.
THEOREM UpgradeHasTheBus == Spec => []AtMostOneStrayRead
<1>1. TouchInv => AtMostOneStrayRead
  BY DEF TouchInv, ReadsCounted, AtMostOneStrayRead
<1> QED
  BY <1>1, TouchCorrect, PTL

\* axs_ts_remove leaves no thread and no work behind.
THEOREM RemoveLeavesNothing == Spec => []RemoveWaitsForAll
<1>1. TouchInv => RemoveWaitsForAll
  BY DEF TouchInv, RemoveInOrder, RemoveWaitsForAll, Threads, Idle
<1> QED
  BY <1>1, TouchCorrect, PTL
====
