---- MODULE GpioButton ----
\* The power and reset buttons, ug_gpio_btn.c.  A timer scans both GPIO registers every
\* 50 ms, counts for how many scans a button has been held and reports key events to an
\* input device; probe and remove run beside the scans with no lock between them.
\* The polarity of a pin is left out: held means val == active, pre means prestate == active.
EXTENDS Naturals

CONSTANTS
    PowerAt,       \* the scan that reports F20 down: 1, or ReleaseAfter on the DXP2800 GT
    ReleaseAfter,  \* F20 is reported up after this many scans (100)
    ResetAt,       \* the scan that reports F24 down (260)
    SeenMax        \* seen stops there (1200)

ASSUME ButtonAssumption ==
    /\ {ReleaseAfter, ResetAt, SeenMax} \subseteq Nat
    /\ 1 < ReleaseAfter /\ ReleaseAfter < ResetAt /\ ResetAt < SeenMax
    /\ PowerAt \in {1, ReleaseAfter}

Buttons == {"power", "reset"}

VARIABLES
    held,             \* the pins
    seen, pre, base,  \* btnSatate
    key, dev,         \* the input core's key states; the input device ug_key points to
    timer, at,        \* x86btn_timer is pending; where btn_monitor is
    life,             \* the step of probe or remove that comes next, or what they ended with
    last, edge, flight, \* history, read by properties only: the count of the last press,
    told, lost          \* and what the listeners know of F24

btnSatate == <<seen, pre, base>>
input     == <<key, dev>>
history   == <<last, edge, flight, told, lost>>
vars == <<held, btnSatate, input, timer, at, life, history>>

Idle == [step |-> "idle", btn |-> "power"]

Init ==
    /\ held \in [Buttons -> BOOLEAN]
    /\ seen = [b \in Buttons |-> 0]
    /\ pre = [b \in Buttons |-> FALSE]
    /\ base = [b \in Buttons |-> FALSE]
    /\ key = [b \in Buttons |-> 0] /\ dev = "none"
    /\ timer = FALSE /\ at = Idle
    /\ life = "map"
    /\ last = [b \in Buttons |-> 0] /\ edge = FALSE /\ flight = FALSE
    /\ told = FALSE /\ lost = FALSE

\* Somebody presses or releases a button.
Push(b) ==
    /\ held' = [held EXCEPT ![b] = ~@]
    /\ UNCHANGED <<btnSatate, input, timer, at, life, history>>

----------------------------------------------------------------------------
\* btn_monitor.

TimerFires ==
    /\ timer /\ at = Idle
    /\ timer' = FALSE
    /\ at' = [step |-> "check", btn |-> "power"]
    /\ edge' = (edge \/ life \in {"alloc", "failed"})
    /\ UNCHANGED <<held, btnSatate, input, life, last, flight, told, lost>>

After(b) == IF b = "power" THEN [step |-> "check", btn |-> "reset"]
                           ELSE [step |-> "rearm", btn |-> "reset"]

\* Mutants: the mapping is not checked; a button without one ends the scan.
ScanCheck_None ==
    /\ at.step = "check"
    /\ at' = [step |-> "read", btn |-> at.btn]
    /\ UNCHANGED <<held, btnSatate, input, timer, life, history>>

ScanCheck_Return ==
    /\ at.step = "check"
    /\ at' = IF base[at.btn] THEN [step |-> "read", btn |-> at.btn] ELSE Idle
    /\ UNCHANGED <<held, btnSatate, input, timer, life, history>>

ScanCheck ==
    /\ at.step = "check"
    /\ at' = IF base[at.btn] THEN [step |-> "read", btn |-> at.btn] ELSE After(at.btn)
    /\ UNCHANGED <<held, btnSatate, input, timer, life, history>>

Count(n) == IF n < SeenMax THEN n + 1 ELSE n

\* What a scan of a held button reports: 1 at one count, nothing at the others.
DownAt(b) == IF b = "power" THEN PowerAt ELSE ResetAt

PressReports(b) == seen[b] < SeenMax /\ Count(seen[b]) = DownAt(b)

\* Mutants: the bound of F24 is one too high; F20 goes up on a scan that saw it up before.
ReleaseReports_LateF24(b) ==
    IF b = "reset" THEN seen[b] > ResetAt + 1 ELSE seen[b] >= ReleaseAfter /\ pre[b]

ReleaseReports_SamePre(b) ==
    IF b = "reset" THEN seen[b] > ResetAt ELSE seen[b] >= ReleaseAfter /\ ~pre[b]

\* What a scan of a released button reports.
ReleaseReports(b) ==
    IF b = "reset" THEN seen[b] > ResetAt ELSE seen[b] >= ReleaseAfter /\ pre[b]

Reports(b) == IF held[b] THEN PressReports(b) ELSE ReleaseReports(b)

\* input_report_key.  A device that is not there yet is a null pointer; one that was
\* freed is read and written all the same, which may or may not go unnoticed.
Report(b) ==
    /\ IF dev \in {"allocated", "registered"}
         THEN key' = [key EXCEPT ![b] = IF held[b] THEN 1 ELSE 0]
         ELSE UNCHANGED key
    /\ \/ life' = "oops" /\ dev \in {"none", "freed"}
       \/ life' = life   /\ dev # "none"

\* The input core passes on a change of a key, to whoever listens to a registered device:
\* told is that the present press of reset was passed on, lost that the core has F24 down
\* although nobody holds reset (a release was not reported) or that nobody listened.
Listen(b) ==
    IF b = "power" THEN UNCHANGED <<told, lost>>
    ELSE IF held[b]
      THEN /\ told' = (told \/ (PressReports(b) /\ dev = "registered" /\ key[b] = 0))
           /\ lost' = (lost \/ (PressReports(b) /\ dev # "registered"))
      ELSE /\ told' = FALSE
           /\ lost' = (~ReleaseReports(b) /\ (lost \/ key[b] = 1))

Scan(b) ==
    /\ Listen(b)
    /\ seen' = [seen EXCEPT ![b] = IF held[b] THEN Count(@) ELSE 0]
    /\ pre' = [pre EXCEPT ![b] = held[b]]
    /\ last' = IF held[b] \/ seen[b] = 0 THEN last ELSE [last EXCEPT ![b] = seen[b]]

\* A read of a register that was unmapped after the check faults.
ScanRead ==
    /\ at.step = "read"
    /\ LET b == at.btn
       IN IF base[b]
            THEN /\ Scan(b)
                 /\ IF Reports(b) THEN Report(b) ELSE UNCHANGED <<key, life>>
                 /\ at' = After(b)
            ELSE life' = "oops" /\ UNCHANGED <<seen, pre, key, last, at, told, lost>>
    /\ UNCHANGED <<held, base, dev, timer, edge, flight>>

ScanRearm ==
    /\ at.step = "rearm"
    /\ timer' = TRUE
    /\ at' = Idle
    /\ UNCHANGED <<held, btnSatate, input, life, history>>

Monitor == ScanCheck \/ ScanRead \/ ScanRearm

----------------------------------------------------------------------------
\* ug_gpiokey_probe: the timer runs before the input device exists.

IsDXP2800GT == PowerAt = ReleaseAfter

\* hwinit; ioremap may fail for a button, and on the DXP2800 GT probe dies of it.
ProbeMap ==
    /\ life = "map"
    /\ base' \in [Buttons -> BOOLEAN]
    /\ life' = IF IsDXP2800GT /\ \E b \in Buttons : ~base'[b] THEN "died" ELSE "arm"
    /\ UNCHANGED <<held, seen, pre, input, timer, at, history>>

ProbeArm ==
    /\ life = "arm"
    /\ timer' = TRUE
    /\ life' = "alloc"
    /\ UNCHANGED <<held, btnSatate, input, at, history>>

\* A probe that fails leaves the timer running; the device, if any, is freed.
ProbeAlloc ==
    /\ life = "alloc"
    /\ \/ dev' = "allocated" /\ life' = "register"
       \/ dev' = "none" /\ life' = "failed"
    /\ UNCHANGED <<held, btnSatate, key, timer, at, history>>

ProbeRegister ==
    /\ life = "register"
    /\ \/ dev' = "registered" /\ life' = "loaded" /\ UNCHANGED edge
       \/ dev' = "freed" /\ life' = "failed" /\ edge' = (edge \/ at # Idle)
    /\ UNCHANGED <<held, btnSatate, key, timer, at, last, flight, told, lost>>

Probe == ProbeMap \/ ProbeArm \/ ProbeAlloc \/ ProbeRegister

\* ug_gpiokey_remove.

RemoveUnmap ==
    /\ life = "loaded"
    /\ base' = [b \in Buttons |-> FALSE]
    /\ life' = "deltimer"
    /\ edge' = (edge \/ at # Idle)
    /\ UNCHANGED <<held, seen, pre, input, timer, at, last, flight, told, lost>>

\* Mutant: the timer is not deleted.
RemoveDelTimer_None ==
    /\ life = "deltimer"
    /\ life' = "free"
    /\ flight' = (at # Idle)
    /\ UNCHANGED <<held, btnSatate, input, timer, at, last, edge, told, lost>>

\* del_timer does not wait for a scan that is running.
RemoveDelTimer ==
    /\ life = "deltimer"
    /\ timer' = FALSE
    /\ life' = "free"
    /\ flight' = (at # Idle)
    /\ UNCHANGED <<held, btnSatate, input, at, last, edge, told, lost>>

RemoveFree ==
    /\ life = "free"
    /\ dev' = "freed"
    /\ life' = "gone"
    /\ UNCHANGED <<held, btnSatate, key, timer, at, history>>

Remove == RemoveUnmap \/ RemoveDelTimer \/ RemoveFree

Next ==
    /\ life # "oops"
    /\ \/ \E b \in Buttons : Push(b)
       \/ TimerFires \/ Monitor \/ Probe \/ Remove

\* The kernel runs a timer that is due and a handler that has begun.
Fairness == WF_vars(life # "oops" /\ TimerFires) /\ WF_vars(life # "oops" /\ Monitor)

Spec == Init /\ [][Next]_vars /\ Fairness

----------------------------------------------------------------------------
\* Every variable stays in its range: the scan counts of a button stop at the bound of
\* btn_monitor, and a scan is at one of its steps.
TypeOK ==
    /\ held \in [Buttons -> BOOLEAN] /\ pre \in [Buttons -> BOOLEAN]
    /\ seen \in [Buttons -> 0..SeenMax] /\ last \in [Buttons -> 0..SeenMax]
    /\ base \in [Buttons -> BOOLEAN]
    /\ key \in [Buttons -> {0, 1}] /\ dev \in {"none", "allocated", "registered", "freed"}
    /\ timer \in BOOLEAN
    /\ at \in [step : {"idle", "check", "read", "rearm"}, btn : Buttons]
    /\ life \in {"map", "arm", "alloc", "register", "loaded", "failed",
                 "deltimer", "free", "gone", "died", "oops"}
    /\ {edge, flight, told, lost} \subseteq BOOLEAN

\* A released button whose key still counts as pressed was last held for too few scans:
\* a longer press always gets its release reported (the two release conditions of
\* btn_monitor), whatever presses came before it.
StuckOnlyAfterShortPress ==
    dev # "freed" =>
        /\ seen["power"] = 0 /\ key["power"] = 1 => last["power"] < ReleaseAfter
        /\ seen["reset"] = 0 /\ key["reset"] = 1 => last["reset"] <= ResetAt

\* btn_monitor touches no unmapped register and no missing device, as long as no scan
\* ran before probe had the device, after a probe that failed, or across the unmapping.
FaultsOnlyAtTheEdges == life = "oops" => edge

\* After remove no timer is pending, unless a scan was running when it was deleted.
RemoveLeavesNothing == life = "gone" /\ ~flight => ~timer /\ at = Idle

\* A reset button held for good is passed on to the listeners, if its register could be
\* mapped, unless the press before it was released too early for its report, or this one
\* was reported before the device was registered.
HeldResetReported ==
    <>[](held["reset"] /\ life = "loaded" /\ base["reset"]) => <>[](told \/ lost)
====
