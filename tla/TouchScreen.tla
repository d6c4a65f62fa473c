---- MODULE TouchScreen ----
\* The touch screen driver axs_core.c: the interrupt thread that reports the finger, the
\* framebuffer notifier that suspends, the work that resumes, and a firmware upgrade
\* through sysfs (axs_upgrade.c, axs_download.c) meet in the interrupt, in fw_loading,
\* suspended and in the report state, none of which a lock protects.  The controller
\* reports one finger (AXS_MAX_TOUCH_NUMBER is 1).
EXTENDS Naturals

VARIABLES
    pc,                              \* where each thread is
    irq_disabled, suspended, fw_loading,
    masked,                          \* the interrupt is really disabled
    queued,                          \* resume_work is pending
    slot, btn,                       \* what the input device was told: finger, BTN_TOUCH
    touchs, touch_point,             \* the report state of axs_ts_data
    down, reported,                  \* locals of the interrupt thread: down_points, va_reported
    life,                            \* the end of axs_ts_probe, "loaded", then the steps of axs_ts_remove
    screen, overlap, flight, woken, refused, stray, left, late  \* history, read by properties only

report  == <<slot, btn, touchs, touch_point>>
local   == <<down, reported>>
irq     == <<irq_disabled, masked>>
flags   == <<irq, suspended, fw_loading>>
history == <<screen, overlap, flight, woken, refused, stray, left, late>>
vars == <<pc, flags, queued, report, local, life, history>>

Threads == {"irq", "fb", "resume", "fw"}

\* From the moment the sysfs files are there.
Init ==
    /\ pc = [t \in Threads |-> "idle"]
    /\ irq_disabled = FALSE /\ suspended = FALSE /\ fw_loading = FALSE
    /\ masked = TRUE
    /\ queued = FALSE
    /\ slot = 0 /\ btn = 0 /\ touchs = 0 /\ touch_point = 0
    /\ down = 0 /\ reported = FALSE
    /\ life = "files"
    /\ screen = "on" /\ overlap = FALSE /\ flight = FALSE /\ woken = FALSE /\ refused = FALSE
    /\ stray = 0 /\ left = FALSE /\ late = FALSE

At(t, step)   == pc[t] = step
Goto(t, step) == pc' = [pc EXCEPT ![t] = step]
Idle(t)       == pc[t] = "idle"

\* A release of all fingers is in progress.
RelSteps  == {"relSlot", "relBtn", "relTouchs", "relPoint"}
Releasing == \E t \in {"fb", "resume"} : pc[t] \in RelSteps

\* A report of a frame is in progress.
Reporting == pc["irq"] \in {"slot", "mask", "missed", "store", "btn"}

----------------------------------------------------------------------------
\* The interrupt thread.  IRQF_ONESHOT: no second one while it runs.

Interrupt ==
    /\ Idle("irq") /\ ~masked
    /\ life \in {"loaded", "nofiles", "nofb"}
    /\ Goto("irq", "check")
    /\ UNCHANGED <<flags, queued, report, local, life, history>>

\* Mutant: the flag is not looked at.
axs_ts_interrupt_NoCheck ==
    /\ At("irq", "check")
    /\ Goto("irq", "read")
    /\ UNCHANGED <<flags, queued, report, local, life, history>>

axs_ts_interrupt ==
    /\ At("irq", "check")
    /\ Goto("irq", IF fw_loading THEN "idle" ELSE "read")
    /\ UNCHANGED <<flags, queued, report, local, life, history>>

\* A frame that is lost, damaged, a gesture, or has no point that counts reports nothing.
axs_read_parse_touchdata ==
    /\ At("irq", "read")
    /\ \/ /\ Goto("irq", "idle")
          /\ UNCHANGED <<touch_point, down, overlap>>
       \/ /\ Goto("irq", "slot")
          /\ touch_point' = 1 /\ down' \in {0, 1}
          /\ overlap' = Releasing
    /\ stray' = IF fw_loading /\ stray < 2 THEN stray + 1 ELSE stray
    /\ UNCHANGED <<flags, queued, slot, btn, touchs, reported, life,
                   screen, flight, woken, refused, left, late>>

\* The loop over the points, one at most.  Nothing else reads touch_point: it is 0 elsewhere.
ReportSlot ==
    /\ At("irq", "slot")
    /\ IF touch_point = 1
         THEN slot' = down /\ reported' = TRUE /\ Goto("irq", "mask") /\ UNCHANGED down
         ELSE down' = 0 /\ reported' = FALSE /\ Goto("irq", "missed") /\ UNCHANGED slot
    /\ touch_point' = 0
    /\ UNCHANGED <<flags, queued, btn, touchs, life, history>>

\* Mutant: the bit is added, not set.
ReportMask_Add ==
    /\ At("irq", "mask")
    /\ touchs' = IF down = 1 THEN touchs + 1 ELSE 0
    /\ Goto("irq", "missed")
    /\ UNCHANGED <<flags, queued, slot, btn, touch_point, local, life, history>>

ReportMask ==
    /\ At("irq", "mask")
    /\ touchs' = down
    /\ Goto("irq", "missed")
    /\ UNCHANGED <<flags, queued, slot, btn, touch_point, local, life, history>>

\* A finger that the driver thinks is down and this frame does not mention goes up.
ReportMissed ==
    /\ At("irq", "missed")
    /\ IF touchs # down THEN slot' = 0 /\ reported' = TRUE ELSE UNCHANGED <<slot, reported>>
    /\ Goto("irq", "store")
    /\ UNCHANGED <<flags, queued, btn, touchs, touch_point, down, life, history>>

ReportStore ==
    /\ At("irq", "store")
    /\ touchs' = down
    /\ Goto("irq", "btn")
    /\ UNCHANGED <<flags, queued, slot, btn, touch_point, local, life, history>>

\* Mutant: BTN_TOUCH is only reported when a finger is down.
ReportBtn_DownOnly ==
    /\ At("irq", "btn")
    /\ btn' = IF reported /\ down = 1 THEN 1 ELSE btn
    /\ down' = 0 /\ reported' = FALSE
    /\ Goto("irq", "idle")
    /\ UNCHANGED <<flags, queued, slot, touchs, touch_point, life, history>>

ReportBtn ==
    /\ At("irq", "btn")
    /\ btn' = IF reported THEN down ELSE btn
    /\ down' = 0 /\ reported' = FALSE
    /\ Goto("irq", "idle")
    /\ UNCHANGED <<flags, queued, slot, touchs, touch_point, life, history>>

axs_input_report_b ==
    ReportSlot \/ ReportMask \/ ReportMissed \/ ReportStore \/ ReportBtn

Thread == axs_ts_interrupt \/ axs_read_parse_touchdata \/ axs_input_report_b

----------------------------------------------------------------------------
\* axs_release_all_finger, called by suspend and by resume with no mutex, one store at a
\* time; it ends at the step "next" of its caller.

ReleaseSlot(t) ==
    /\ At(t, "relSlot")
    /\ slot' = 0
    /\ Goto(t, "relBtn")
    /\ overlap' = Reporting
    /\ UNCHANGED <<flags, queued, btn, touchs, touch_point, local, life,
                   screen, flight, woken, refused, stray, left, late>>

ReleaseBtn(t) ==
    /\ At(t, "relBtn")
    /\ btn' = 0
    /\ Goto(t, "relTouchs")
    /\ UNCHANGED <<flags, queued, slot, touchs, touch_point, local, life, history>>

ReleaseTouchs(t) ==
    /\ At(t, "relTouchs")
    /\ touchs' = 0
    /\ Goto(t, "relPoint")
    /\ UNCHANGED <<flags, queued, slot, btn, touch_point, local, life, history>>

ReleasePoint(t) ==
    /\ At(t, "relPoint")
    /\ touch_point' = 0
    /\ Goto(t, "next")
    /\ UNCHANGED <<flags, queued, slot, btn, touchs, local, life, history>>

axs_release_all_finger(t) ==
    ReleaseSlot(t) \/ ReleaseBtn(t) \/ ReleaseTouchs(t) \/ ReleasePoint(t)

\* axs_irq_disable does not wait for the interrupt thread (disable_irq_nosync).  The
\* interrupt is only enabled by undoing a disable, and never before it was requested.
axs_irq_disable == irq_disabled' = TRUE  /\ masked' = (masked \/ ~irq_disabled)
axs_irq_enable ==
    /\ irq_disabled' = FALSE
    /\ masked' = (masked /\ (irq_disabled => life \in {"files", "notified"}))

----------------------------------------------------------------------------
\* The end of axs_ts_probe, if nothing fails (TouchDebug has what a failure leaves).

ProbeNotifier ==
    /\ life = "files"
    /\ life' = "notified"
    /\ UNCHANGED <<pc, flags, queued, report, local, history>>

\* request_threaded_irq enables the interrupt, whatever a suspend or a load asked for.
ProbeRequestIrq ==
    /\ life = "notified"
    /\ life' = "loaded"
    /\ masked' = FALSE
    /\ woken' = (woken \/ irq_disabled)
    /\ UNCHANGED <<pc, irq_disabled, suspended, fw_loading, queued, report, local,
                   screen, overlap, flight, refused, stray, left, late>>

axs_ts_probe == ProbeNotifier \/ ProbeRequestIrq

----------------------------------------------------------------------------
\* The framebuffer notifier; the kernel calls it for one event at a time.

\* FB_BLANK_UNBLANK: a work that is pending is not queued again.
Unblank ==
    /\ Idle("fb") /\ life \in {"notified", "loaded", "nofiles"}
    /\ queued' = TRUE
    /\ screen' = "on"
    /\ UNCHANGED <<pc, flags, report, local, life, overlap, flight, woken, refused, stray, left, late>>

\* FB_BLANK_POWERDOWN.
Powerdown ==
    /\ Idle("fb") /\ life \in {"notified", "loaded", "nofiles"}
    /\ Goto("fb", "cancel")
    /\ screen' = "off"
    /\ UNCHANGED <<flags, queued, report, local, life, overlap, flight, woken, refused, stray, left, late>>

\* Mutant: cancel_work, which does not wait.
CancelResume_NoWait ==
    /\ At("fb", "cancel")
    /\ queued' = FALSE
    /\ Goto("fb", "check")
    /\ UNCHANGED <<flags, report, local, life, history>>

\* cancel_work_sync waits for a resume that is running.
CancelResume ==
    /\ At("fb", "cancel") /\ Idle("resume")
    /\ queued' = FALSE
    /\ Goto("fb", "check")
    /\ UNCHANGED <<flags, report, local, life, history>>

\* axs_ts_suspend is refused during an upgrade, and nobody tries it again.
SuspendCheck ==
    /\ At("fb", "check")
    /\ Goto("fb", IF suspended \/ fw_loading THEN "idle" ELSE "irqoff")
    /\ refused' = (~suspended /\ fw_loading)
    /\ UNCHANGED <<flags, queued, report, local, life, screen, overlap, flight, woken, stray, left, late>>

\* Mutant: the interrupt stays enabled.
SuspendIrqOff_None ==
    /\ At("fb", "irqoff")
    /\ Goto("fb", "relSlot")
    /\ flight' = ~Idle("irq") /\ woken' = FALSE
    /\ UNCHANGED <<flags, queued, report, local, life,
                   screen, overlap, refused, stray, left, late>>

SuspendIrqOff ==
    /\ At("fb", "irqoff")
    /\ axs_irq_disable
    /\ Goto("fb", "relSlot")
    /\ flight' = ~Idle("irq") /\ woken' = (irq_disabled /\ ~masked)
    /\ UNCHANGED <<suspended, fw_loading, queued, report, local, life,
                   screen, overlap, refused, stray, left, late>>

SuspendMark ==
    /\ At("fb", "next")
    /\ suspended' = TRUE
    /\ Goto("fb", "idle")
    /\ UNCHANGED <<irq, fw_loading, queued, report, local, life, history>>

axs_ts_suspend ==
    SuspendCheck \/ SuspendIrqOff \/ axs_release_all_finger("fb") \/ SuspendMark

----------------------------------------------------------------------------
\* The resume work.

ResumeBegins ==
    /\ queued /\ Idle("resume")
    /\ queued' = FALSE
    /\ Goto("resume", "check")
    /\ UNCHANGED <<flags, report, local, life, history>>

ResumeCheck ==
    /\ At("resume", "check")
    /\ Goto("resume", IF suspended THEN "relSlot" ELSE "idle")
    /\ UNCHANGED <<flags, queued, report, local, life, history>>

ResumeIrqOn ==
    /\ At("resume", "next")
    /\ axs_irq_enable
    /\ Goto("resume", "mark")
    /\ UNCHANGED <<suspended, fw_loading, queued, report, local, life, history>>

ResumeMark ==
    /\ At("resume", "mark")
    /\ suspended' = FALSE
    /\ Goto("resume", "idle")
    /\ UNCHANGED <<irq, fw_loading, queued, report, local, life, history>>

axs_ts_resume ==
    ResumeCheck \/ axs_release_all_finger("resume") \/ ResumeIrqOn \/ ResumeMark

----------------------------------------------------------------------------
\* axs_debug_fwupg and axs_debug_download_app, one at a time under s_device_mutex.  What
\* they send to the controller is one step here; FwLoad models it.

FwBegin ==
    /\ Idle("fw") /\ life \in {"files", "notified", "loaded"}
    /\ fw_loading' = TRUE
    /\ stray' = 0
    /\ Goto("fw", "irqoff")
    /\ UNCHANGED <<irq, suspended, queued, report, local, life,
                   screen, overlap, flight, woken, refused, left, late>>

FwIrqOff ==
    /\ At("fw", "irqoff")
    /\ axs_irq_disable
    /\ Goto("fw", "request")
    /\ UNCHANGED <<suspended, fw_loading, queued, report, local, life, history>>

\* A file that is not there ends it at once; if there is no memory for it, the file is
\* used after it was released and the thread dies with the mutex.
FwRequest ==
    /\ At("fw", "request")
    /\ \/ Goto("fw", "idle") /\ left' = TRUE
       \/ Goto("fw", "oops") /\ UNCHANGED left
       \/ Goto("fw", "enable") /\ UNCHANGED left   \* its length is out of range
       \/ Goto("fw", "load") /\ UNCHANGED left
    /\ UNCHANGED <<flags, queued, report, local, life, screen, overlap, flight, woken, refused, stray, late>>

\* An upgrade that could select the flash ends with a reset of the controller and the LCD.
FwLoadImage ==
    /\ At("fw", "load")
    /\ Goto("fw", "enable") \/ Goto("fw", "lcdoff")
    /\ UNCHANGED <<flags, queued, report, local, life, history>>

\* axs_reset_and_lcd_init.
LcdIrqOff ==
    /\ At("fw", "lcdoff")
    /\ axs_irq_disable
    /\ Goto("fw", "lcdon")
    /\ UNCHANGED <<suspended, fw_loading, queued, report, local, life, history>>

\* Suspend has disabled the interrupt and is not over.
Suspending == pc["fb"] \in RelSteps \cup {"next"}

\* The interrupt is enabled whether or not the screen is suspended.
FwIrqOn(from, to) ==
    /\ At("fw", from)
    /\ axs_irq_enable
    /\ Goto("fw", to)
    /\ woken' = (woken \/ suspended \/ Suspending)
    /\ UNCHANGED <<suspended, fw_loading, queued, report, local, life,
                   screen, overlap, flight, refused, stray, left, late>>

LcdIrqOn == FwIrqOn("lcdon", "enable")

\* Mutant: the interrupt is left to the reset.
FwEnable_None ==
    /\ At("fw", "enable")
    /\ Goto("fw", "clear")
    /\ UNCHANGED <<flags, queued, report, local, life, history>>

FwEnable == FwIrqOn("enable", "clear")

FwClear ==
    /\ At("fw", "clear")
    /\ fw_loading' = FALSE
    /\ Goto("fw", "idle")
    /\ UNCHANGED <<irq, suspended, queued, report, local, life, history>>

axs_debug_fwupg ==
    FwIrqOff \/ FwRequest \/ FwLoadImage \/ LcdIrqOff \/ LcdIrqOn \/ FwEnable \/ FwClear

----------------------------------------------------------------------------
\* axs_ts_remove.

\* The removal of the sysfs files waits for a store that is running.
RemoveFiles ==
    /\ life = "loaded" /\ Idle("fw")
    /\ life' = "nofiles"
    /\ UNCHANGED <<pc, flags, queued, report, local, history>>

\* fb_unregister_client waits for the notifier.
RemoveNotifier ==
    /\ life = "nofiles" /\ Idle("fb")
    /\ life' = "nofb"
    /\ UNCHANGED <<pc, flags, queued, report, local, history>>

\* Mutant: the thread is not waited for.
RemoveIrq_NoWait ==
    /\ life = "nofb"
    /\ life' = "noirq"
    /\ UNCHANGED <<pc, flags, queued, report, local, history>>

\* free_irq waits for the thread.
RemoveIrq ==
    /\ life = "nofb" /\ Idle("irq")
    /\ life' = "noirq"
    /\ UNCHANGED <<pc, flags, queued, report, local, history>>

RemoveInput ==
    /\ life = "noirq"
    /\ life' = "noinput"
    /\ late' = (queued \/ ~Idle("resume"))
    /\ UNCHANGED <<pc, flags, queued, report, local,
                   screen, overlap, flight, woken, refused, stray, left>>

\* destroy_workqueue runs what is queued, then axs_ts_data is freed.
RemoveQueue ==
    /\ life = "noinput" /\ ~queued /\ Idle("resume")
    /\ life' = "gone"
    /\ UNCHANGED <<pc, flags, queued, report, local, history>>

axs_ts_remove == \/ RemoveFiles \/ RemoveNotifier \/ RemoveIrq \/ RemoveInput \/ RemoveQueue

Next ==
    \/ axs_ts_probe
    \/ Interrupt \/ Thread
    \/ Unblank \/ Powerdown \/ CancelResume \/ axs_ts_suspend
    \/ ResumeBegins \/ axs_ts_resume
    \/ FwBegin \/ axs_debug_fwupg
    \/ axs_ts_remove

\* The kernel runs every thread that has something to do until it is idle.
Fairness ==
    /\ WF_vars(Thread)
    /\ WF_vars(CancelResume \/ axs_ts_suspend)
    /\ WF_vars(ResumeBegins \/ axs_ts_resume)
    /\ WF_vars(axs_debug_fwupg)

Spec == Init /\ [][Next]_vars /\ Fairness

----------------------------------------------------------------------------
\* Every variable stays in its range: the reports are about the one finger there is, and
\* touchs is a mask of that finger whatever reports and releases meet.
TypeOK ==
    /\ pc \in [Threads -> {"idle", "check", "read", "slot", "mask", "missed", "store", "btn",
                           "cancel", "irqoff", "next", "mark", "request", "oops", "load",
                           "lcdoff", "lcdon", "enable", "clear"} \cup RelSteps]
    /\ irq_disabled \in BOOLEAN /\ masked \in BOOLEAN /\ suspended \in BOOLEAN
    /\ fw_loading \in BOOLEAN /\ queued \in BOOLEAN
    /\ slot \in {0, 1} /\ btn \in {0, 1} /\ touchs \in {0, 1} /\ touch_point \in {0, 1}
    /\ down \in {0, 1} /\ reported \in BOOLEAN
    /\ life \in {"files", "notified", "loaded", "nofiles", "nofb", "noirq", "noinput", "gone"}
    /\ screen \in {"on", "off"} /\ overlap \in BOOLEAN /\ flight \in BOOLEAN /\ woken \in BOOLEAN
    /\ refused \in BOOLEAN /\ stray \in 0..2 /\ left \in BOOLEAN /\ late \in BOOLEAN

\* Between reports the finger, BTN_TOUCH and the driver's own idea of the finger agree,
\* if the last report and the last release did not run at the same time
\* (axs_input_report_b, axs_release_all_finger).
SlotsAgree == Idle("irq") /\ ~Releasing /\ ~overlap => slot = btn /\ btn = touchs

\* A suspended screen has its interrupt disabled and no finger down, unless an interrupt
\* thread was running when suspend disabled it, an upgrade enabled it since, or probe
\* requested it while the driver took it for disabled.
SuspendedIsSilent ==
    suspended /\ Idle("resume") /\ Idle("irq") /\ ~flight /\ ~woken =>
        masked /\ slot = 0 /\ btn = 0

\* A screen that was last told to power down is suspended and no resume is on its way to
\* wake it, unless the suspend was refused because of an upgrade.
OffMeansSuspended ==
    screen = "off" /\ Idle("fb") /\ ~refused => suspended /\ Idle("resume") /\ ~queued

\* The bus is read by the interrupt thread at most once during an upgrade, by a thread
\* that was past its check when the upgrade began, although the interrupt is enabled
\* before fw_loading is cleared (axs_reset_and_lcd_init).
AtMostOneStrayRead == stray <= 1

\* A screen that is switched on works again some time later, whatever upgrades run, unless
\* one left early or died, or the screen is switched off again or removed.
ScreenComesBack ==
    screen = "on" ~>
        \/ ~suspended /\ ~masked /\ ~fw_loading
        \/ screen = "off" \/ life # "loaded" \/ left \/ At("fw", "oops")

\* Nothing uses the input device once it is unregistered, unless a resume was pending then,
\* and nothing at all is left at the end (axs_ts_remove).
RemoveWaitsForAll ==
    life = "gone" \/ (life = "noinput" /\ ~late) =>
        ~queued /\ \A t \in Threads : Idle(t)
====
