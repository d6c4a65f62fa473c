---- MODULE EcFunctions ----
\* The functions of ug_it55pro_functions.c as jobs on the EC bus: fans, watchdog,
\* wake-up switches, power level, backlight, and what module removal writes.
EXTENDS EcBus, Naturals

MIN_TIMEOUT == 1
MAX_TIMEOUT == 10000

DEVICE_FAN1_MODE == 176
DEVICE_FAN1_PWM  == 177
DEVICE_FAN2_MODE == 178
DEVICE_FAN2_PWM  == 179
DEVICE_FAN3_MODE == 180
DEVICE_FAN3_PWM  == 181
DEVICE_FAN4_MODE == 182
DEVICE_FAN4_PWM  == 183
DEVICE_FAN1_SPEED_MBS == 52
EC_PWR_ENABLE    == 160
EC_PWR_VALUE     == 161
G3_WAKEUP_ADR    == 154
LAN_WAKEUP_ADR   == 153
EC_IT55_WDT_SWITCH   == 152
EC_IT55_WDT_TIME_MSB == 162
EC_IT55_WDT_TIME_LSB == 163
BKLT_PWM_Value   == 165

ReadCall(a)     == [op |-> "read", addr |-> a, val |-> 0]
WriteCall(a, v) == [op |-> "write", addr |-> a, val |-> v]

\* fan_write accepts pwm values up to 255; set_*_fan cut them at 198.
Clamp(pwm) == IF pwm >= 198 THEN 198 ELSE pwm

set_cpu_fan(pwm) ==
    << WriteCall(DEVICE_FAN1_MODE, 1), WriteCall(DEVICE_FAN1_PWM, Clamp(pwm)),
       WriteCall(DEVICE_FAN2_MODE, 1), WriteCall(DEVICE_FAN2_PWM, Clamp(pwm)) >>

\* Mutant: only the first of the two fans gets the clamped speed.
set_sys_fan_OneClamp(pwm) ==
    << WriteCall(DEVICE_FAN3_MODE, 1), WriteCall(DEVICE_FAN3_PWM, Clamp(pwm)),
       WriteCall(DEVICE_FAN4_MODE, 1), WriteCall(DEVICE_FAN4_PWM, pwm) >>

set_sys_fan(pwm) ==
    << WriteCall(DEVICE_FAN3_MODE, 1), WriteCall(DEVICE_FAN3_PWM, Clamp(pwm)),
       WriteCall(DEVICE_FAN4_MODE, 1), WriteCall(DEVICE_FAN4_PWM, Clamp(pwm)) >>

\* Two bytes of each of the four fan speeds, high byte first.
fan_read == [i \in 1..8 |-> ReadCall(DEVICE_FAN1_SPEED_MBS + i - 1)]

pwr_write(level) == << WriteCall(EC_PWR_ENABLE, 1), WriteCall(EC_PWR_VALUE, level) >>
pwr_read         == << ReadCall(EC_PWR_VALUE) >>

g3wakeup_write(text) == << WriteCall(G3_WAKEUP_ADR, IF text = "on" THEN 1 ELSE 0) >>
g3wakeup_read        == << ReadCall(G3_WAKEUP_ADR) >>

\* The two strncmp results are used without "== 0": everything but "on" writes 1, and
\* "on" fails the first test and passes the second.
lanwakeup_write(text) == << WriteCall(LAN_WAKEUP_ADR, IF text # "on" THEN 1 ELSE 0) >>
lanwakeup_read        == << ReadCall(G3_WAKEUP_ADR) >>

MSB(t) == t \div 256
LSB(t) == t % 256

\* Mutant: the high byte is not written.
wdt_update_LowOnly(t) == << WriteCall(EC_IT55_WDT_TIME_LSB, LSB(t)) >>

wdt_update(t) ==
    << WriteCall(EC_IT55_WDT_TIME_MSB, MSB(t)), WriteCall(EC_IT55_WDT_TIME_LSB, LSB(t)) >>

\* There is no ping operation, so the watchdog core calls wdt_start for every keepalive.
wdt_start(t) == wdt_update(t) \o << WriteCall(EC_IT55_WDT_SWITCH, 1) >>
wdt_stop     == << WriteCall(EC_IT55_WDT_SWITCH, 0) >>

mipi_backlight_update_status(b) == << WriteCall(BKLT_PWM_Value, b) >>

\* Module removal, without the region.
functions_exit ==
    << WriteCall(DEVICE_FAN1_MODE, 0), WriteCall(DEVICE_FAN2_MODE, 0),
       WriteCall(DEVICE_FAN3_MODE, 0), WriteCall(DEVICE_FAN4_MODE, 0),
       WriteCall(EC_PWR_ENABLE, 1) >>

\* What the proc files, the watchdog core and the backlight make a client run; the core
\* only passes timeouts in the range of wdt_dev.
FunctionJobs ==
    {set_sys_fan(pwm) : pwm \in 0..255} \cup {set_cpu_fan(pwm) : pwm \in 0..255}
    \cup {pwr_write(level) : level \in 0..7}
    \cup {g3wakeup_write(text) : text \in {"on", "off"}}
    \cup {lanwakeup_write(text) : text \in {"on", "off"}}
    \cup {fan_read, pwr_read, g3wakeup_read, lanwakeup_read, wdt_stop}
    \cup {wdt_start(t) : t \in MIN_TIMEOUT..MAX_TIMEOUT}
    \cup {mipi_backlight_update_status(b) : b \in 0..198}

\* The registers that JobsWhole is about.
GroupedRegisters ==
    {DEVICE_FAN1_MODE, DEVICE_FAN1_PWM, DEVICE_FAN2_MODE, DEVICE_FAN2_PWM,
     DEVICE_FAN3_MODE, DEVICE_FAN3_PWM, DEVICE_FAN4_MODE, DEVICE_FAN4_PWM,
     EC_IT55_WDT_SWITCH, EC_IT55_WDT_TIME_MSB, EC_IT55_WDT_TIME_LSB}

ASSUME FunctionsAssumption ==
    /\ \A c \in Clients \ Unlocked : Jobs[c] \subseteq FunctionJobs
    /\ GroupedRegisters \cup {1} \subseteq Byte

----------------------------------------------------------------------------
\* No call is on the way: nobody holds the ports and the EC has emptied its buffer.
Quiet == region = NoClient /\ ecst = "idle" /\ ibf.port = "none"

WdtTime == 256 * mem[EC_IT55_WDT_TIME_MSB] + mem[EC_IT55_WDT_TIME_LSB]

\* A job of several calls is whole: with several jobs at once and no timeout so far, between
\* jobs both fans of a group run in the same mode at the same speed (fan_write), and a
\* running watchdog holds a timeout in the range the driver promises the watchdog core
\* (.min_timeout, .max_timeout of wdt_dev), never half of a new one.  Within a job
\* neither is true: each byte is a call of its own (wdt_update).
JobsWhole ==
    Quiet /\ ~failed =>
        /\ mem[DEVICE_FAN1_PWM] = mem[DEVICE_FAN2_PWM]
        /\ mem[DEVICE_FAN3_PWM] = mem[DEVICE_FAN4_PWM]
        /\ mem[DEVICE_FAN1_MODE] = mem[DEVICE_FAN2_MODE]
        /\ mem[DEVICE_FAN3_MODE] = mem[DEVICE_FAN4_MODE]
        /\ mem[EC_IT55_WDT_SWITCH] = 1 => WdtTime \in MIN_TIMEOUT..MAX_TIMEOUT
====
