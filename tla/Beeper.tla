---- MODULE Beeper ----
\* The beeper driver, ug_sataio_beeper.c, on the iDX6011 Pro: writes to its proc file, the
\* kernel timer that repeats the beep and the delayed work that ends a beep run on
\* different CPUs with no lock between them.  A write of the beeper register
\* (superio_write_byte) is one step here; EcShared models its bytes.
EXTENDS Naturals

CONSTANTS
    RepMax,   \* the largest repeat count given to "rep"
    Writers   \* threads that write to the proc file

ASSUME RepMaxAssumption == RepMax \in Nat \ {0}

\* A count above every g_count never equals one: larger counts are one value.
CountCap == RepMax + 1

VARIABLES
    beep,           \* the beeper register: 1 sounds
    timer,          \* beeper_timer is pending
    handler,        \* where beeperTimerHandle is, or "idle"
    work, running,  \* beeper_delay_work is pending; its function has begun
    timerStatus, g_count, count,
    cmd, at,        \* the writers: "on", "off", "one" or another command, and the place in
                    \* beeper_write
    module,         \* "loaded", then the steps of sataio_beep_exit, then "gone"
    raced, cut, done, calm, off  \* history, read by properties only; after raced the others rest

driver  == <<timerStatus, g_count, count>>
writers == <<cmd, at>>
history == <<raced, cut, done, calm, off>>
vars == <<beep, timer, handler, work, running, driver, writers, module, history>>

Init ==
    /\ beep = 0
    /\ timer = FALSE /\ handler = "idle"
    /\ work = FALSE /\ running = FALSE
    /\ timerStatus = 0 /\ g_count = 0 /\ count = 0
    /\ cmd = [w \in Writers |-> "other"] /\ at = [w \in Writers |-> "idle"]
    /\ module = "loaded"
    /\ raced = FALSE /\ cut = FALSE /\ done = 0 /\ calm = FALSE /\ off = TRUE

----------------------------------------------------------------------------
\* beeper_write.  "on", "off" and "one" stop the timer; "timer" and "rep" start it.

Idle(w)     == at[w] = "idle"
Goto(w, to) == at' = [at EXCEPT ![w] = to]

\* The write returns.
Return(w) == Goto(w, "idle") /\ cmd' = [cmd EXCEPT ![w] = "other"]

\* A write meets a handler, or another write; off is the last command that was begun.
MeetsHandler == raced' = (raced \/ handler # "idle")
Meets(w)     == \E v \in Writers \ {w} : ~Idle(v)

WriteStop(w) ==
    /\ module = "loaded" /\ Idle(w)
    /\ \E c \in {"on", "off", "one"} : cmd' = [cmd EXCEPT ![w] = c] /\ off' = (c = "off" /\ ~raced)
    /\ Goto(w, "del")
    /\ raced' = (raced \/ Meets(w))
    /\ UNCHANGED <<beep, timer, handler, work, running, driver, module, cut, done, calm>>

\* The delays only matter for when the timer fires, which may be at any time here.
WriteStart(w) ==
    /\ module = "loaded" /\ Idle(w)
    /\ \/ UNCHANGED <<g_count, cut>>                                     \* "timer"
       \/ g_count' \in 0..RepMax /\ cut' = (cut \/ (timerStatus = 1 /\ ~raced))     \* "rep"
    /\ IF timerStatus = 0 THEN Goto(w, "add") ELSE UNCHANGED at
    /\ raced' = (raced \/ handler # "idle" \/ Meets(w))
    /\ off' = FALSE
    /\ UNCHANGED <<beep, timer, handler, work, running, timerStatus, count, cmd, module, done, calm>>

\* Mutant: the timer is left armed.
WriteDelTimer_Armed(w) ==
    /\ at[w] = "del"
    /\ Goto(w, "clear")
    /\ UNCHANGED <<beep, timer, handler, work, running, driver, cmd, module, history>>

\* del_timer does not wait for a handler that is already running.
WriteDelTimer(w) ==
    /\ at[w] = "del"
    /\ timer' = FALSE
    /\ Goto(w, "clear")
    /\ MeetsHandler
    /\ cut' = (cut \/ (timer /\ g_count # 0 /\ ~raced))
    /\ UNCHANGED <<beep, handler, work, running, driver, cmd, module, done, calm, off>>

WriteClear(w) ==
    /\ at[w] = "clear"
    /\ timerStatus' = 0
    /\ Goto(w, "set")
    /\ UNCHANGED <<beep, timer, handler, work, running, g_count, count, cmd, module, history>>

WriteSet(w) ==
    /\ at[w] = "set"
    /\ beep' = IF cmd[w] = "off" THEN 0 ELSE 1
    /\ IF cmd[w] = "one" THEN Goto(w, "sched") /\ UNCHANGED cmd ELSE Return(w)
    /\ UNCHANGED <<timer, handler, work, running, driver, module, history>>

\* schedule_delayed_work does nothing if the work is pending.
WriteSched(w) ==
    /\ at[w] = "sched"
    /\ work' = TRUE
    /\ Return(w)
    /\ UNCHANGED <<beep, timer, handler, running, driver, module, history>>

\* add_timer of a pending timer is refused with a warning.
WriteAddTimer(w) ==
    /\ at[w] = "add"
    /\ timer' = TRUE
    /\ Goto(w, "mark")
    /\ MeetsHandler
    /\ done' = 0
    /\ UNCHANGED <<beep, handler, work, running, driver, cmd, module, cut, calm, off>>

WriteMark(w) ==
    /\ at[w] = "mark"
    /\ timerStatus' = 1
    /\ Return(w)
    /\ MeetsHandler
    /\ UNCHANGED <<beep, timer, handler, work, running, g_count, count, module, cut, done, calm, off>>

\* A write that has begun goes on.
WriteOn(w) == \/ WriteDelTimer(w) \/ WriteClear(w) \/ WriteSet(w)
              \/ WriteSched(w) \/ WriteAddTimer(w) \/ WriteMark(w)

Write(w) == WriteStop(w) \/ WriteStart(w) \/ WriteOn(w)

----------------------------------------------------------------------------
\* beeperTimerHandle.

TimerFires ==
    /\ timer /\ handler = "idle"
    /\ timer' = FALSE
    /\ handler' = "set"
    /\ raced' = (raced \/ \E w \in Writers : at[w] \in {"clear", "mark"})
    /\ UNCHANGED <<beep, work, running, driver, writers, module, cut, done, calm, off>>

HandlerSet ==
    /\ handler = "set"
    /\ beep' = 1
    /\ handler' = "sched"
    /\ done' = IF raced \/ cut THEN 0 ELSE IF done < CountCap THEN done + 1 ELSE done
    /\ UNCHANGED <<timer, work, running, driver, writers, module, raced, cut, calm, off>>

\* Mutant: a repetition does not schedule the end of its beeps.
HandlerSched_TimerOnly ==
    /\ handler = "sched"
    /\ work' = (work \/ g_count = 0)
    /\ handler' = "mod"
    /\ UNCHANGED <<beep, timer, running, driver, writers, module, history>>

HandlerSched ==
    /\ handler = "sched"
    /\ work' = TRUE
    /\ handler' = "mod"
    /\ UNCHANGED <<beep, timer, running, driver, writers, module, history>>

HandlerModTimer ==
    /\ handler = "mod"
    /\ timer' = TRUE
    /\ handler' = IF g_count = 0 THEN "idle" ELSE "count"
    /\ UNCHANGED <<beep, work, running, driver, writers, module, history>>

HandlerCount ==
    /\ handler = "count"
    /\ count' = IF count < CountCap THEN count + 1 ELSE count
    /\ handler' = IF g_count = count' THEN "stop" ELSE "idle"
    /\ UNCHANGED <<beep, timer, work, running, timerStatus, g_count, writers, module, history>>

HandlerStop ==
    /\ handler = "stop"
    /\ timer' = FALSE
    /\ handler' = "reset"
    /\ UNCHANGED <<beep, work, running, driver, writers, module, history>>

\* Mutant: the count is not reset.
HandlerReset_KeepCount ==
    /\ handler = "reset"
    /\ timerStatus' = 0
    /\ handler' = "idle"
    /\ UNCHANGED <<beep, timer, work, running, g_count, count, writers, module, history>>

HandlerReset ==
    /\ handler = "reset"
    /\ timerStatus' = 0 /\ count' = 0
    /\ handler' = "idle"
    /\ UNCHANGED <<beep, timer, work, running, g_count, writers, module, history>>

Handler == \/ HandlerSet \/ HandlerSched \/ HandlerModTimer
           \/ HandlerCount \/ HandlerStop \/ HandlerReset

----------------------------------------------------------------------------
\* beeper_delay_work_func: the work is no longer pending when its function begins.

WorkBegins ==
    /\ work /\ ~running
    /\ work' = FALSE /\ running' = TRUE
    /\ UNCHANGED <<beep, timer, handler, driver, writers, module, history>>

WorkSilences ==
    /\ running
    /\ beep' = 0
    /\ running' = FALSE
    /\ UNCHANGED <<timer, handler, work, driver, writers, module, history>>

----------------------------------------------------------------------------
\* sataio_beep_exit.

\* procfs_remove waits for the writes in progress and lets no other begin.
ExitProc ==
    /\ module = "loaded" /\ \A w \in Writers : Idle(w)
    /\ module' = "cancel"
    /\ calm' = (~raced /\ timerStatus = 0 /\ handler = "idle")
    /\ UNCHANGED <<beep, timer, handler, work, running, driver, writers, raced, cut, done, off>>

\* Mutant: cancel_delayed_work, which does not wait.
ExitCancelWork_NoWait ==
    /\ module = "cancel"
    /\ work' = FALSE
    /\ module' = "deltimer"
    /\ UNCHANGED <<beep, timer, handler, running, driver, writers, history>>

\* cancel_delayed_work_sync waits for the function, not for later scheduling.
ExitCancelWork ==
    /\ module = "cancel" /\ ~running
    /\ work' = FALSE
    /\ module' = "deltimer"
    /\ UNCHANGED <<beep, timer, handler, running, driver, writers, history>>

ExitDelTimer ==
    /\ module = "deltimer"
    /\ timer' = IF timerStatus = 1 THEN FALSE ELSE timer
    /\ module' = "gone"
    /\ UNCHANGED <<beep, handler, work, running, driver, writers, history>>

Exit == ExitProc \/ ExitCancelWork \/ ExitDelTimer

Next == (\E w \in Writers : Write(w)) \/ TimerFires \/ Handler \/ WorkBegins \/ WorkSilences \/ Exit

\* The kernel runs a handler and a write that have begun, and the work queue.
Fairness ==
    /\ WF_vars(Handler)
    /\ WF_vars(WorkBegins \/ WorkSilences)
    /\ \A w \in Writers : WF_vars(WriteOn(w))

Spec == Init /\ [][Next]_vars /\ Fairness

----------------------------------------------------------------------------
\* Every variable stays in its range: the status is one of the two defines, the counts of
\* beeps are never negative (beeperTimerHandle).
TypeOK ==
    /\ beep \in {0, 1} /\ timer \in BOOLEAN /\ work \in BOOLEAN /\ running \in BOOLEAN
    /\ handler \in {"idle", "set", "sched", "mod", "count", "stop", "reset"}
    /\ timerStatus \in {0, 1} /\ g_count \in 0..RepMax /\ count \in 0..CountCap
    /\ cmd \in [Writers -> {"on", "off", "one", "other"}]
    /\ at \in [Writers -> {"idle", "del", "clear", "set", "sched", "add", "mark"}]
    /\ module \in {"loaded", "cancel", "deltimer", "gone"}
    /\ raced \in BOOLEAN /\ cut \in BOOLEAN /\ done \in 0..CountCap /\ calm \in BOOLEAN
    /\ off \in BOOLEAN

\* As long as no write met a running handler or another write, "off" is obeyed and the next
\* command is not misled, whatever is still pending: between writes timerStatus tells
\* whether the timer is armed, and after "off" neither the timer nor a work sounds the beeper.
OffIsSilent ==
    ~raced /\ handler = "idle" /\ (\A w \in Writers : Idle(w)) =>
        /\ module = "loaded" => (timerStatus = 1 <=> timer)
        /\ off => beep = 0 /\ ~timer

\* A repetition that ends by itself made as many beeps as it was told, if no command cut
\* short or changed a running repetition and no write met a handler or another write.
RepeatsExactly ==
    [][handler = "reset" /\ handler' = "idle" /\ ~raced /\ ~cut => done = g_count]_vars

\* A beep started by the timer or by "one" ends, whatever is written meanwhile and by how
\* many writers, unless the module is removed (sataio_beep_exit cancels the work that
\* would end it).
BeepEnds ==
    handler = "sched" \/ (\E w \in Writers : at[w] = "sched") ~> beep = 0 \/ module # "loaded"

\* Once the module is gone nothing of it is left to run, if at removal the timer was
\* stopped and no write had met a handler or another write.
ExitLeavesNothing == module = "gone" /\ calm => ~timer /\ handler = "idle" /\ ~work /\ ~running
====
