---- MODULE LedMcu ----
\* The LED driver leds-mcu.c with its triggers: for each LED a thread that writes its
\* brightness and trigger (the LED core lets one in at a time), one that writes its color
\* and one that writes the delays of its trigger (the core orders neither with the first),
\* and a brightness work.  They send commands to one microcontroller (MCU) and poll its
\* receive flag for the answer (i2c_iDX601x_write_led); the writers hold a mutex while they
\* do, the works do not.  The reboot notifier sends a command of its own to the same MCU
\* and asks for no answer.  When leds_blink_set fails the LED core blinks by software,
\* which is not modelled: it counts as a loss, after which nothing is said of the LEDs.
EXTENDS Naturals, Sequences

CONSTANTS
    Leds,      \* the LEDs of the board
    Levels,    \* brightness values a user writes, out of 0..255
    Triggers,  \* those of this package, and the timer of the kernel for all that have none
               \* of their own in leds_blink_set
    Tries,     \* attempts of a transfer, and of a poll for its answer
    Reboots,   \* whether the reboot notifier may be called
    None       \* nobody holds the mutex, no command to run

LED_FULL == 255
Patterns   == {"breath", "timer2"}      \* triggers that the MCU plays by itself
HaveDelays == Patterns \cup {"timer"}  \* those with the files delay_on and delay_off

user(l)  == <<"user", l>>
delay(l) == <<"delay", l>>
color(l) == <<"color", l>>
work(l)  == <<"work", l>>
Users   == UNION {{user(l), delay(l), color(l)} : l \in Leds}
Blinkers == UNION {{user(l), delay(l)} : l \in Leds}  \* those that call leds_blink_set
Works   == {work(l) : l \in Leds}
Threads == Users \cup Works
Boot    == <<"boot">>  \* the reboot notifier, which runs in one go

Modes   == {"light", "unset"} \cup Patterns  \* unset: what the memory happened to hold
Kinds   == Modes \cup {"switch", "color", "shutdown"}
Command == [led : Leds, kind : Kinds, val : 0..255]
Message == [from : Threads \cup {Boot}, cmd : Command]

ASSUME LedAssumption ==
    /\ Levels \subseteq 0..255 /\ Triggers \subseteq HaveDelays \cup {"normal"}
    /\ Tries \in Nat \ {0} /\ Reboots \in BOOLEAN
    /\ None \notin Threads \cup Command \cup Message

VARIABLES
    trigger, light, pending,  \* the trigger, status->light and the queued work of each LED
    mode,                     \* status->mode, which only leds_blink_set reads and writes
    pc, job, left, mutex,     \* the threads
    buf, flag, last,          \* the MCU: command to run, receive flag, and of each LED the
                              \* last command run that is not about its color
    life,                     \* "loaded", then the steps of leds_ugreen_remove
    ran, met, want            \* history, read by properties only: the exchanges whose
                              \* command was run, those that met another one, and of each
                              \* LED what the MCU is to have run last

ledVars    == <<trigger, light, pending, mode>>
threadVars == <<pc, job, left, mutex>>
mcuVars    == <<buf, flag, last>>
history    == <<ran, met, want>>
vars == <<ledVars, threadVars, mcuVars, life, history>>

Cmd(l, kind, val) == [led |-> l, kind |-> kind, val |-> val]

\* The MCU's own start-up state, as iDX601x_led_init leaves it.
Init ==
    /\ trigger = [l \in Leds |-> "none"]
    /\ light = [l \in Leds |-> 0] /\ pending = [l \in Leds |-> FALSE]
    /\ mode = [l \in Leds |-> "unset"]
    /\ pc = [t \in Threads |-> "idle"] /\ job = [t \in Threads |-> <<>>]
    /\ left = [t \in Threads |-> Tries] /\ mutex = None
    /\ buf = None /\ flag = 1
    /\ last = [l \in Leds |-> Cmd(l, "light", LED_FULL)]
    /\ life = "loaded"
    /\ ran = {} /\ met = {}
    /\ want = [l \in Leds |-> {last[l]}]

----------------------------------------------------------------------------
\* A sysfs write to an LED.  Brightness 0 and a new trigger remove the old trigger, and
\* with it the brightness goes to 0.

\* What leds_blink_set sends for a trigger: "normal" switches the LED on at level 0, and a
\* trigger it does not know sends the mode that was set last.  Without a trigger it is
\* -EINVAL before the mutex, but no caller gets there: the LED core sets the trigger before
\* it calls activate, and removes the delay files before it clears it.
leds_blink_set(l, tr) ==
    CASE tr = "none" -> <<>>
      [] tr = "normal" -> << Cmd(l, "switch", 255), Cmd(l, "light", 0) >>
      [] tr \in Patterns -> << Cmd(l, tr, 0) >>
      [] tr = "timer" -> << Cmd(l, mode[l], 0) >>

blink_mode(l, tr) ==
    CASE tr = "normal" -> "light"
      [] tr \in Patterns -> tr
      [] tr \in {"none", "timer"} -> mode[l]

\* Mutant: a work that is running is not queued again.
leds_brightness_set_IfIdle(l, v) ==
    /\ light' = [light EXCEPT ![l] = IF v = 1 THEN LED_FULL ELSE v]
    /\ pending' = [pending EXCEPT ![l] = @ \/ pc[work(l)] = "idle"]

\* leds_brightness_set: 1 is full brightness; the work is queued once.
leds_brightness_set(l, v) ==
    /\ light' = [light EXCEPT ![l] = IF v = 1 THEN LED_FULL ELSE v]
    /\ pending' = [pending EXCEPT ![l] = TRUE]

\* The sysfs files are there until the LED is unregistered.
Registered == life \in {"loaded", "cancelled"}

\* activate of a trigger is in leds_blink_set; user(l) waits nowhere else.
Activating(l) == pc[user(l)] # "idle"

\* led_access: the LED core lets one writer of brightness or trigger in at a time.
Free(l) == Registered /\ ~Activating(l)

\* A trigger is removed when nobody is inside its delay files any more.
Drained(l) == pc[delay(l)] = "idle"

\* The brightness the work of the LED is still to send, and the last commands that its
\* writers are.
LightToCome(l) ==
    IF pending[l] THEN {Cmd(l, "light", light[l])}
                  ELSE {Head(job[t]) : t \in {u \in {work(l)} : pc[u] = "send"}}
BlinkToCome(l) ==
    {job[t][Len(job[t])] : t \in
        {u \in {user(l), delay(l)} : pc[u] # "idle" /\ (pc[u] = "ack" => Len(job[u]) > 1)}}

\* The commands one of which the MCU is to have run last for the LED: more than one when a
\* command is on its way already that nothing orders with the new one, none that is known
\* once a command has been lost.
Ask(l, cmds) == want' = [want EXCEPT ![l] = IF @ = {} THEN {} ELSE cmds]

\* If cond holds, a command is lost in this step.
Lose(cond) == want' = IF cond THEN [l \in Leds |-> {}] ELSE want

Start(t, cmds, at) ==
    /\ pc' = [pc EXCEPT ![t] = at]
    /\ job' = [job EXCEPT ![t] = cmds]
    /\ left' = [left EXCEPT ![t] = Tries]

\* led_blink_set in thread t, for trigger tr.
Blink(t, l, tr) ==
    /\ Start(t, leds_blink_set(l, tr), "lock")
    /\ mode' = [mode EXCEPT ![l] = blink_mode(l, tr)]

\* What a trigger's commands end with.
Final(l, tr) == leds_blink_set(l, tr)[Len(leds_blink_set(l, tr))]

SetBrightness(l) ==
    /\ Free(l)
    /\ \E v \in Levels :
        /\ v = 0 => Drained(l)
        /\ leds_brightness_set(l, v)
        /\ trigger' = IF v = 0 THEN [trigger EXCEPT ![l] = "none"] ELSE trigger
        /\ Ask(l, {Cmd(l, "light", light'[l])} \cup BlinkToCome(l))
    /\ UNCHANGED <<mode, threadVars, mcuVars, life, ran, met>>

SetTrigger(l) ==
    /\ Free(l) /\ Drained(l)
    /\ IF trigger[l] = "none" THEN UNCHANGED <<light, pending>> ELSE leds_brightness_set(l, 0)
    /\ \E tr \in (Triggers \cup {"none"}) \ {trigger[l]} :
        /\ trigger' = [trigger EXCEPT ![l] = tr]
        /\ IF tr = "none"
             THEN UNCHANGED <<pc, job, left, mode>> /\ Ask(l, {Cmd(l, "light", 0)})
             ELSE Blink(user(l), l, tr) /\ Ask(l, {Final(l, tr)} \cup LightToCome(l)')
    /\ UNCHANGED <<mutex, mcuVars, life, ran, met>>

\* delay_on and delay_off of the triggers that have them.  The stores take no lock of the LED
\* core, so that any brightness may be written while one waits for the mutex; but the LED
\* core creates the files when activate has returned, and removes them, which waits for the
\* stores, before it takes the trigger away.
SetDelay(l) ==
    /\ Registered /\ trigger[l] \in HaveDelays
    /\ ~Activating(l) /\ pc[delay(l)] = "idle"
    /\ Blink(delay(l), l, trigger[l])
    /\ Ask(l, {Final(l, trigger[l])} \cup LightToCome(l))
    /\ UNCHANGED <<trigger, light, pending, mutex, mcuVars, life, ran, met>>

color_set(l) ==
    /\ Registered /\ pc[color(l)] = "idle"
    /\ Start(color(l), << Cmd(l, "color", 0) >>, "lock")
    /\ UNCHANGED <<ledVars, mutex, mcuVars, life, history>>

----------------------------------------------------------------------------
\* i2c_iDX601x_write_led, one command of a thread.

Exchanging == {"send", "ack"}
Busy(t)   == pc[t] \in Exchanging
Inside(t) == pc[t] = "check" \/ Busy(t)  \* between mutex_lock and mutex_unlock

Exchangers == {t \in Threads : Busy(t)}

\* Thread t enters its exchanges: who else is in one meets it.
Enter(t) ==
    /\ pc' = [pc EXCEPT ![t] = "send"]
    /\ met' = IF Exchangers = {} THEN met ELSE met \cup Exchangers \cup {t}

\* mutex_lock: leds_blink_set goes on to its exchanges, color_set looks at the text first.
Lock(t) ==
    /\ t \in Users /\ pc[t] = "lock" /\ mutex = None
    /\ mutex' = t
    /\ IF t \in Blinkers THEN Enter(t) ELSE pc' = [pc EXCEPT ![t] = "check"] /\ UNCHANGED met
    /\ UNCHANGED <<ledVars, job, left, mcuVars, life, ran, want>>

\* The text is a color and the device an LED.
color_set_accepted(l) ==
    /\ pc[color(l)] = "check"
    /\ Enter(color(l))
    /\ UNCHANGED <<ledVars, job, left, mutex, mcuVars, life, ran, want>>

\* Mutant: the off level is sent as a switch command.
brightness_work_Switch(l) ==
    /\ pending[l] /\ pc[work(l)] = "idle" /\ life # "freed"
    /\ pending' = [pending EXCEPT ![l] = FALSE]
    /\ Enter(work(l))
    /\ job' = [job EXCEPT ![work(l)] = << Cmd(l, IF light[l] = 0 THEN "switch" ELSE "light", light[l]) >>]
    /\ left' = [left EXCEPT ![work(l)] = Tries]
    /\ UNCHANGED <<trigger, light, mode, mutex, mcuVars, life, ran, want>>

\* brightness_work: the level is the one stored when it runs.
brightness_work(l) ==
    /\ pending[l] /\ pc[work(l)] = "idle" /\ life # "freed"
    /\ pending' = [pending EXCEPT ![l] = FALSE]
    /\ Enter(work(l))
    /\ job' = [job EXCEPT ![work(l)] = << Cmd(l, "light", light[l]) >>]
    /\ left' = [left EXCEPT ![work(l)] = Tries]
    /\ UNCHANGED <<trigger, light, mode, mutex, mcuVars, life, ran, want>>

\* The function that sent commands returns; its history ends.
Return(t) ==
    /\ Start(t, <<>>, "idle")
    /\ mutex' = IF mutex = t THEN None ELSE mutex
    /\ ran' = ran \ {t} /\ met' = met \ {t}

\* Mutant: the text is looked at without giving the mutex back.
color_set_refused_Locked(l) ==
    /\ pc[color(l)] = "check"
    /\ Start(color(l), <<>>, "idle")
    /\ UNCHANGED <<ledVars, mutex, mcuVars, life, history>>

\* color_set of a text that is no color, or for a device that is none of the LEDs.
color_set_refused(l) ==
    /\ pc[color(l)] = "check"
    /\ Return(color(l))
    /\ UNCHANGED <<ledVars, mcuVars, life, want>>

\* The command returns -EBUSY, and with it blink_set, color_set or the work.
GiveUp(t) == Return(t)

\* A transfer or a poll failed: it is tried again, Tries times in all.
Retry(t) ==
    IF left[t] > 1
      THEN left' = [left EXCEPT ![t] = @ - 1] /\ UNCHANGED <<pc, job, mutex, ran, met>>
      ELSE GiveUp(t)

\* Mutant: the count is not restarted for the poll.
Send_OneBudget(t) ==
    /\ pc[t] = "send"
    /\ \/ /\ Retry(t)
          /\ Lose(left[t] = 1)
          /\ UNCHANGED <<buf, flag>>
       \/ /\ buf' = [from |-> t, cmd |-> Head(job[t])] /\ flag' = 0
          /\ pc' = [pc EXCEPT ![t] = "ack"] /\ left' = [left EXCEPT ![t] = @ - 1]
          /\ ran' = ran \ {t}
          /\ Lose(buf # None)
          /\ UNCHANGED <<job, mutex, met>>
    /\ UNCHANGED <<ledVars, last, life>>

\* A transfer that arrives clears the receive flag and replaces a command that the MCU
\* has not run yet.
Send(t) ==
    /\ pc[t] = "send"
    /\ \/ /\ Retry(t)
          /\ Lose(left[t] = 1)
          /\ UNCHANGED <<buf, flag>>
       \/ /\ buf' = [from |-> t, cmd |-> Head(job[t])] /\ flag' = 0
          /\ pc' = [pc EXCEPT ![t] = "ack"] /\ left' = [left EXCEPT ![t] = Tries]
          /\ ran' = ran \ {t}
          /\ Lose(buf # None)
          /\ UNCHANGED <<job, mutex, met>>
    /\ UNCHANGED <<ledVars, last, life>>

\* Mutant: any answer of the poll that is not an error counts as success.
AckOk_AnyFlag(t) ==
    /\ pc[t] = "ack"
    /\ IF Len(job[t]) > 1
         THEN Start(t, Tail(job[t]), "send") /\ UNCHANGED <<mutex, ran, met>>
         ELSE Return(t)
    /\ UNCHANGED <<ledVars, mcuVars, life, want>>

\* The poll finds the flag set: the command succeeded, on to the next one.
AckOk(t) ==
    /\ pc[t] = "ack" /\ flag = 1
    /\ IF Len(job[t]) > 1
         THEN Start(t, Tail(job[t]), "send") /\ UNCHANGED <<mutex, ran, met>>
         ELSE Return(t)
    /\ UNCHANGED <<ledVars, mcuVars, life, want>>

\* The poll finds it clear, or fails; for leds_blink_set to give up counts as a loss.
AckMiss(t) ==
    /\ pc[t] = "ack"
    /\ Retry(t)
    /\ Lose(left[t] = 1 /\ t \in Blinkers)
    /\ UNCHANGED <<ledVars, mcuVars, life>>

Exchange(t) == Send(t) \/ AckOk(t) \/ AckMiss(t)

\* The MCU runs the command it holds, or finds its checksum wrong.
McuRun ==
    /\ buf # None /\ buf' = None
    /\ last' = IF buf.cmd.kind \in {"color", "shutdown"} THEN last
                                                     ELSE [last EXCEPT ![buf.cmd.led] = buf.cmd]
    /\ ran' = ran \cup {t \in Threads : t = buf.from /\ pc[t] = "ack"}
    /\ flag' = 1
    /\ UNCHANGED <<ledVars, threadVars, life, met, want>>

McuReject ==
    /\ buf # None
    /\ buf' = None
    /\ Lose(TRUE)
    /\ UNCHANGED <<ledVars, threadVars, flag, last, life, ran, met>>

\* ug_notifier_call: one transfer without the mutex, to the client that remove leaves in
\* ug_led_client; the LED in the record stands for all of them.
ug_notifier_call ==
    /\ Reboots
    /\ \E l \in Leds : buf' = [from |-> Boot, cmd |-> Cmd(l, "shutdown", 0)]
    /\ flag' = 0
    /\ met' = met \cup Exchangers
    /\ Lose(TRUE)
    /\ UNCHANGED <<ledVars, threadVars, last, life, ran>>

----------------------------------------------------------------------------
\* leds_ugreen_remove.

\* cancel_work_sync of each LED's work.
RemoveCancel ==
    /\ life = "loaded"
    /\ \A l \in Leds : pc[work(l)] = "idle"
    /\ pending' = [l \in Leds |-> FALSE]
    /\ life' = "cancelled"
    /\ UNCHANGED <<trigger, light, mode, threadVars, mcuVars, history>>

\* led_classdev_unregister: no sysfs write is left; the LED is told to go off.
RemoveUnregister ==
    /\ life = "cancelled"
    /\ \A t \in Users : pc[t] = "idle"
    /\ trigger' = [l \in Leds |-> "none"]
    /\ light' = [l \in Leds |-> 0]
    /\ pending' = [l \in Leds |-> TRUE]
    /\ life' = "unregistered"
    /\ UNCHANGED <<mode, threadVars, mcuVars, history>>

\* The memory of the LEDs and of their works is freed.
RemoveFree ==
    /\ life = "unregistered"
    /\ life' = "freed"
    /\ UNCHANGED <<ledVars, threadVars, mcuVars, history>>

Next ==
    \/ \E l \in Leds : \/ SetBrightness(l) \/ SetTrigger(l) \/ SetDelay(l) \/ color_set(l)
                       \/ color_set_accepted(l)
                       \/ color_set_refused(l) \/ brightness_work(l)
    \/ \E t \in Threads : Lock(t) \/ Exchange(t)
    \/ McuRun \/ McuReject \/ ug_notifier_call
    \/ RemoveCancel \/ RemoveUnregister \/ RemoveFree

\* The kernel runs a work that is queued until it returns; the MCU deals with every command.
Fairness ==
    /\ \A l \in Leds : WF_vars(brightness_work(l)) /\ WF_vars(Exchange(work(l)))
    /\ WF_vars(McuRun \/ McuReject)

Spec == Init /\ [][Next]_vars /\ Fairness

----------------------------------------------------------------------------
\* Every variable stays in its range: the tries left of an exchange are within the bound of
\* the loops of i2c_iDX601x_write_led, both for the transfers and for the polls.
TypeOK ==
    /\ trigger \in [Leds -> Triggers \cup {"none"}]
    /\ light \in [Leds -> (Levels \cup {0, LED_FULL}) \ {1}] /\ pending \in [Leds -> BOOLEAN]
    /\ mode \in [Leds -> Modes]
    /\ pc \in [Threads -> {"idle", "lock", "check"} \cup Exchanging]
    /\ job \in [Threads -> Seq(Command)]
    /\ left \in [Threads -> 1..Tries] /\ mutex \in Users \cup {None}
    /\ buf = None \/ buf \in Message
    /\ flag \in {0, 1}
    /\ last \in [Leds -> Command] /\ want \in [Leds -> SUBSET Command]
    /\ life \in {"loaded", "cancelled", "unregistered", "freed"}
    /\ ran \subseteq Threads /\ met \subseteq Threads

\* The exchange of thread t for one command returns success in this step.
Succeeds(t) == Busy(t) /\ AckOk(t)

\* A command that is reported done was run by the MCU: the protection brightness_work
\* expects of i2c_write_led when it takes no lock.
AckIsOwn == [][\A t \in Threads : Succeeds(t) => t \in ran]_vars

\* The same for a thread that met no other one during its exchanges.
AckIsOwnAlone == [][\A t \in Threads : Succeeds(t) /\ t \notin met => t \in ran]_vars

\* The mutex is held by a writer between its mutex_lock and its return and by nobody else:
\* every path out of leds_blink_set and color_set gives it back, a failed transfer, a failed
\* poll and a refused color included, and no two writers are inside.
MutexGuardsExchange == \A t \in Users : Inside(t) <=> mutex = t

\* A brightness that is asked for is shown at some time, or replaced by a later one,
\* as long as no transfer was given up, no command was rejected and none overwritten.
BrightnessShown ==
    \A l \in Leds : \A v \in {0, LED_FULL} :
        pending[l] /\ light[l] = v ~>
            last[l] = Cmd(l, "light", v) \/ light[l] # v \/ want[l] = {} \/ life # "loaded"

Quiet(l) ==
    ~pending[l] /\ (\A t \in {user(l), delay(l), work(l)} : pc[t] = "idle") /\ buf = None

\* When an LED has come to rest, the last command the MCU ran for it is the one that the
\* last sysfs write stands for, or one that was on its way when it was written and that
\* nothing orders with it: the brightness a queued work is to send against a trigger or
\* a delay, and a delay that is being stored against a brightness.
LastAskedIsLast ==
    \A l \in Leds : life = "loaded" /\ Quiet(l) /\ want[l] # {} => last[l] \in want[l]

\* No brightness work is queued or running once the memory it uses is freed (what
\* cancelling the works before anything else in leds_ugreen_remove is there for).
NoWorkAfterFree == life = "freed" => \A l \in Leds : ~pending[l] /\ pc[work(l)] = "idle"
====
