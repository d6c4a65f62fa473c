# Verification of ugreen-frontpanel

TLA+ models of the kernel drivers behind the front panel of UGREEN NAS devices, the
TLC runs that check them and the TLAPS proofs of their main properties.  Every
definition that models code is mapped to its lines in `PROJECT.json`.

## The system

| Component | Source | State | Operations |
|---|---|---|---|
| EC port protocol | `ugreen-sio/it55_helper.[ch]` | the two EC ports, the port region, the EC's own registers | `ec_read_memory`, `ec_write_memory`, `ec_request_ports`, `ec_release_ports`, the bounded waits |
| EC functions | `ugreen-sio/ug_it55pro_functions.c` | EC registers of fans, power level, wake-up, watchdog, backlight | proc files, watchdog operations, backlight, `functions_exit` |
| Beeper | `ugreen-sio/ug_sataio_beeper.c` | the beeper register, `beeper_timer`, `beeper_delay_work`, `timerStatus`, `g_count`, `count` | proc commands on, off, one, timer, rep; timer handler; work; module exit; `superio_write_byte` |
| GPIO buttons | `ugreen-sio/ug_gpio_btn.c` | the GPIO mapping, `btnSatate`, the scan timer, the input device | `btn_monitor`, probe, remove |
| MCU LEDs | `ugreen-leds-mcu/*.c` | per LED: brightness, trigger, queued work; the mutex; the MCU's receive flag | sysfs brightness, trigger, delays and color; `brightness_work`; `i2c_iDX601x_write_led`; reboot notifier; remove |
| Touch screen | `axs-touch/src/axs_core.c`, `axs_esd.c`, `axs_i2c.c` | interrupt enable, `suspended`, `fw_loading`, touch slots, work queue | interrupt thread, suspend, resume, framebuffer notifier, probe, remove |
| Touch firmware | `axs-touch/src/axs_upgrade.c`, `axs_download.c` | flash and PRAM of the controller, `fw_loading` | upgrade, download |
| Touch debug files | `axs-touch/src/axs_debug.c`, `axs_i2c.c` | `debug_tx_buf`, `debug_rx_buf`, `s_rd_len`, `proc_opmode`, `s_device_mutex`, `bus_mutex` | sysfs and proc files, their creation and removal |
| SATA slots, boot beep | `ugreen-sio/ug_sataio_beeper.c` | mapped slot registers, a CMOS byte behind ports 0x70 and 0x71 | proc files, `hwinit`, `hw_unioremap` |
| Power status | `ugreen-sio/ug_it55pro_functions.c` | one bit of a memory-mapped register | proc file |

How they interact:

- The EC functions and (on the iDX6011 Pro) the beeper share the EC ports.  The
  functions hold the muxed port region for a whole job, `functions_exit` and
  `superio_write_byte` do not take it.
- The beeper's proc writes, its timer and its work run on different CPUs and share
  plain integers with no lock.
- The button scan is a timer that runs beside probe and remove.
- The LED drivers share one I2C microcontroller and its single receive flag: sysfs
  writers use a mutex, the brightness works do not.
- The touch driver has an interrupt thread, a framebuffer notifier, a resume work,
  debug files, probe and remove; they meet in `fw_loading`, `suspended` and the interrupt,
  and the debug files also in two buffers and two mutexes.
- The boot beep shares the CMOS ports with the real-time clock driver of the kernel.

What is hard in this code: interleavings with no lock or a lock that not everybody
takes, `del_timer` and `disable_irq_nosync` that do not wait for a running handler,
errors that are ignored in the middle of a sequence, a fixed delay where a flag should be
polled, unbounded or bounded polling of a
device that may hang, and the order of the steps of removal.  `PROJECT.json` lists
each hazard at its line.

What makes each component correct:

- EC: a call acts on its own register with its own value and at most once, also after
  timeouts; a read gets its own register; the port region is always given back; jobs
  of several calls do not mix.
- Beeper: the status tells whether the timer is armed; "off" is silent; a repetition
  makes the number of beeps asked for; each beep ends; removal leaves nothing behind.
- Buttons: each press that is long enough has its release reported; a held reset button
  is reported; scans touch nothing that is not there; removal leaves nothing behind.
- LEDs: a command reported done was run; the mutex is always given back; a brightness
  asked for is shown; no work outlives its memory.
- Touch screen: the finger, `BTN_TOUCH` and the driver's own mask agree; no finger stays
  down through suspend and the suspended screen is silent; a screen that is switched on
  works again; the bus is left to a firmware load; removal leaves nothing behind.
- Firmware: a load that reports success wrote the whole image; the flash is only driven
  when it is ready; a load ends.
- Debug files: one register access at a time; a file shows the answer to its own command;
  memory that is not there is not used; removal ends.
- SATA slots and boot beep: a read shows each slot's own switch; the boot beep changes its
  own bit and no byte of the clock.

## The modules

| Module | Models |
|---|---|
| `EcRegisters` | abstract: a register file on which each call acts at most once |
| `EcJobs` | abstract: jobs one after the other, each call once and in order, until one times out |
| `EcBus` | the port protocol: clients, EC, region, timeouts; implements `EcRegisters` and `EcJobs` |
| `EcFunctions` | the jobs of `ug_it55pro_functions.c`, and properties of whole jobs |
| `EcShared` | `EcBus` with threads inside `superio_write_byte` |
| `Beeper` | the beeper driver: writers, timer, work, exit |
| `GpioButton` | the button driver: scan, probe, remove |
| `LedMcu` | the LED driver, the works, the MCU, the reboot notifier, remove |
| `TouchScreen` | the touch driver's threads: interrupt, suspend, resume, firmware files, the end of probe, remove |
| `TouchDebug` | the debug files of the touch driver from probe to removal |
| `FwLoad` | the commands of a firmware upgrade or download, the flash and the PRAM |
| `SataBeep` | the slot and boot beep files, loading and removal, the clock driver |
| `EcProofs` | the theorems about `EcBus`, `EcFunctions` and `EcShared`, and their proofs |
| `BeeperProofs`, `GpioButtonProofs`, `LedMcuProofs`, `TouchScreenProofs`, `TouchDebugProofs`, `SataBeepProofs`, `FwLoadProofs` | the theorems about each other module, and their proofs |
| `MCEcFunctions`, `MCEcShared`, `MCFwLoad`, `MCSataBeep` | values for TLC |

Modules that meet are composed in this way: `EcShared` adds the beeper's bytes to `EcBus`,
and `EcFunctions` is `EcBus` with the jobs of the driver; `TouchScreen` and `TouchDebug`
share a firmware load, of which each has what its own threads see, and `FwLoad` has the
commands.

### EcBus, EcRegisters, EcJobs, EcFunctions, EcShared

`pc[c]` is the point a thread is at in `ec_read_memory` or `ec_write_memory`, `job[c]`
the calls that are left of its job, `left[c]` the polls that are left of the present
wait.  A wait that gives up ends the call, not the job: no caller looks at the error.
The clients in `Unlocked` do not take the region; `functions_exit` is one.  Its removal
of the proc files is merged with the end of its job: no job begins after it.  A proc write
may be in progress when it begins (`ec_exit`); a watchdog start may not, because the
watchdog core holds a reference to the module.  With `MayRefuse` the kernel may refuse the region
(`ec_request_ports` returns -EBUSY): no caller looks at it, so the job runs without the region, and
`ec_release_ports` then frees what somebody else may hold.  `ec_shared` has such a client.  In
`ec_functions` the region is always granted, because there the question is what holds
under it.

The controller itself is not in the repository.  `EcTake` models what the code expects
of it: it takes one byte at a time from the input buffer, a command byte starts a
transaction whatever came before, a byte nobody expects is lost.  It has no fairness in
`EcBus`, so it may hang at any time.  The beeper register becomes 2 some time after 1
is written, because `superio_write_byte` accepts 2 for 1.

`superio_write_byte` does not look at the input buffer: it sends a byte, waits for a
millisecond and sends the next.  The EC may not have taken the byte by then, and the next
one replaces it.  `TooShort` names the bytes of the loop at which that may happen.  `reading[b]`
(history) says that since it sent the command that reads its register the thread was alone
on the ports and each of its bytes was taken within its delay.  Only then does leaving the
loop mean anything (`WriteVerified`); whatever happened to the bytes of the write before, the
loop then goes round until they took effect.

The jobs are what the code does, which is not always what its names say: the read of the
LAN wake-up reads the G3 register, and the comparison of the text that is written to the
wake-up file is inverted.

`EcRegisters` is what callers count on.  `RegistersSpec` states that `EcBus` implements
it: `mem` and `call` map to themselves, and a call is live while the EC has a byte or a
transaction left to deal with.  It holds whatever times out.  `EcJobs` is what a job of several
calls counts on, and it promises nothing once a call has timed out, because the callers go
on with the next call of the job.  `JobsInOrder` states that `EcBus` implements it: the
queue of calls is the write whose value the EC has not taken yet (`Sent`), which may outlive
the region, and then what is left of the job that has the region, without a read that is
answered already (`Remaining`).

`FunctionJobs` are the jobs of the proc files, the watchdog core and the backlight;
`FunctionsAssumption` says that clients of the region run no others.

### Beeper

One step per access to a shared variable.  The delays are left out: the timer may fire
and the work may begin at any time after they are set.  Any number of `Writers` may be
inside the proc file, each at its own place `at[w]` with its own command `cmd[w]`: nothing
in the driver orders them.  `raced` records that a write met a handler that was running or
another write, `cut` that a command changed a repetition in progress, `off` that the
command begun last was "off"; the properties that mention them say what holds without such
a meeting.  The counts stop at `CountCap`, one above every value they are compared with.

### GpioButton

One step for each of: the check of the mapping, the read with the report, the re-arming
of the timer; and for each step of probe and remove.  `held` is the pin, so polarity is
left out.  An access to memory that is not mapped or to a null device ends in "oops";
one to a freed device may or may not.  On the DXP2800 GT, where power-down is reported at
`ReleaseAfter`, probe dies when a register cannot be mapped ("died").  The input core drops
a key event that changes nothing (external).  `edge` and `flight` record a scan that met
probe or remove.  `told` (history) says that the listeners were passed the F24 of the present
press, `lost` that they could not be: the key was still down from a release that was too early, or
the device was not registered.

### LedMcu

Three kinds of threads per LED write sysfs files: one the brightness and the trigger (the
LED core lets one in at a time), one the delays of the trigger, one the color.  The delay stores
take no lock of the LED core: any brightness may be written while one waits for the
mutex.  They exist from the end of the activation of their trigger, and its removal waits for
them.  One delay store per LED at a time is an abstraction: two in a row have the
commands of one.  The fourth thread is the work.

`leds_blink_set` sends one or two commands under the mutex, and for a trigger it has no case
for, such as the kernel's `timer`, the mode it set last (`mode[l]`, which is not
initialised).  Its early -EINVAL is for an LED without a trigger; none of its callers gets
there, because the core sets the trigger before it activates it and removes the delay files
before it clears it.  When it fails the core blinks by software, which is not modelled: from
then on nothing is said of the LED.  `color_set` takes the mutex before it looks at the
text, so a text that is no color, or a device that is no LED, leaves with the mutex held and
gives it back on the way (`color_set_refused`).  The work sends one command without the
mutex.

A transfer may fail, a poll may fail or find the flag clear; each is repeated `Tries`
times (3 in the code).  The MCU holds one command; a command that arrives clears the flag
and replaces a command that has not been run (external, from how the code polls).  The
reboot notifier sends one transfer without the mutex and asks for no answer;
`leds_ugreen_remove` never unregisters it, so it may come at any time, also when the LEDs are gone.
The LED core sets brightness 0 when a trigger is removed or the LED unregistered
(external).  All LEDs are unregistered in one step.

`last[l]` is the command the MCU ran last for an LED, color apart, and `want[l]` (history)
the set of those it is to have run last when it comes to rest: the one the last sysfs write
stands for, and those that were on their way then and that nothing orders with it.  These are a
queued brightness against a trigger or a delay (the activate functions do not wait for the off
brightness of the trigger they replace), and a delay that is being stored against a
brightness.  It is empty, and nothing is promised, once a command was lost.

### TouchScreen

Four threads: the interrupt thread (`irq`), the framebuffer notifier (`fb`), the resume
work (`resume`) and a writer of one of the two firmware files of sysfs (`fw`).  `pc[t]`
is the step a thread is at; a step is one access to a variable another thread uses, or
one call that reports to the input device.  The controller reports one finger
(`AXS_MAX_TOUCH_NUMBER` is 1), so slots and masks are 0 or 1; a frame brings it down or
up, or is lost.  The commands of a load are left to `FwLoad`: here a load is one step
that succeeds, fails on one of its early returns, or dies on a null pointer where the code
can.  External, from how the code uses them: the input core drops an event that changes
nothing, `IRQF_ONESHOT` keeps a second interrupt thread away, `request_threaded_irq`
enables the interrupt whatever was asked before, `free_irq`,
`cancel_work_sync` and the removal of sysfs files wait for what is running.

`life` begins where probe has created the files.  From there a load may begin, from the
next step on the notifier may be called, and only then is the interrupt requested:
`irq_disabled`, what the driver thinks, and `masked`, what is true, may differ from then
on, until the next enable.

The history variables say what met what: `overlap` (a report and a release of all fingers),
`flight` (a suspend while an interrupt thread ran), `woken` (an interrupt enabled by a load
while suspended, or by probe while the driver took it for disabled), `refused` (a suspend
that a load turned away), `left` (a load that returned early), `late` (a resume that was
pending when the input device went), `stray` (reads of the interrupt thread during a load).
The properties state exactly which of them they exclude.

### TouchDebug

`calls[c]` is what a caller does: the file, the text it was given and the next step.  A
step is one access to a buffer, a mutex, `g_axs_data` or the controller.  The files that
take `s_device_mutex` too late (`diff`, `rawdata`, `debug_str`) or never (the proc file)
have the same steps as in the code, so they may write `debug_rx_buf` and `debug_tx_buf` in
the middle of a register access.  The two transfers of `axs_write_bytes_read_bytes` hold
`bus_mutex` between command and answer; the controller answers the command it got last.

Probe creates the proc file before the sysfs files, these before the buffers, and the
buffers before it initialises the mutex that the files use.  So a call may be under the
mutex, or wait for it, when it is initialised: `early` records the first, and a caller that
was waiting may be forgotten (step "lost").  Before that, and for ever when there is no
memory for the platform data, the static mutex is all zero (`ready` is false): it can be
taken and given back, but it has no list of waiters, so a call that finds it taken uses a
null pointer (step "crash") or is never woken (`LockUninitialised`).  A probe that has no
memory for the platform data reports success and leaves the driver bound without state
("hollow"); one whose interrupt is refused frees the state and leaves the files ("orphan").
Using memory that is not there ends in the step "fault", in which a thread keeps what it
holds.  `stale` records an answer that a removal left to the next probe, `asked` the
register command whose undisturbed answer is in the buffer.

One register is enough: everything else a buffer may hold is the value "other", and the
properties only ask whether an answer is the one asked for.

### SataBeep

The two files are there before `hwinit` maps the slots and until after `hw_unioremap`, so
a read may see no mapping, or one that goes between its check and its use ("fault").
`val`, the local variable of `sata_satate_read`, has any value at first and is kept from
slot to slot.  `whole` records a read that began when all slots had been dealt with.  A CMOS
byte is abstracted to what it means: the boot beep's own byte, the time, a new time, or a
byte of the clock in which the boot beep's bit was changed.  `crossed` records that the
clock driver (external) and a caller were between their two ports at once; the driver's
callers among each other need no such exception, because they select the same byte.

### FwLoad

A function of `axs_upgrade.c` or `axs_download.c` is the list of commands it sends, with the
address and size of each packet computed as in the code; `todo` is what is left of the list.
One action per kind of command; each may succeed, or fail and end the attempt, and a command
that fails may still have been obeyed.  A byte is 1 where the flash is erased and
programming takes it to 0, which tells an unerased, an unwritten and a written byte apart.
The flash (external) obeys a write enable when it is not busy and an operation when the
write is enabled; it may silently fail to do it and may stay busy for ever.  A read of the
read check may come back short without an error, because `axs_write_bytes_read_bytes` only
reports negative values: then the buffer keeps what it had (`short` records that).  The
controller is taken to obey a selection of flash or PRAM in whatever mode it is, as the code
does.  `reset_gpio` is never assigned in this build, so the reset at the end of an upgrade
may do nothing (`axs_reset_proc`), and nothing is promised of what the controller runs then;
after a failed erase there would be no program anyway.  What a load shares with the other
threads is in `TouchScreen`.

## What TLC checks

| Run | Shows |
|---|---|
| `ec_functions` | two threads, each with jobs of several calls and any number of timeouts: the ports implement the register file, reads answer their call, jobs are carried out in order and do not mix, no half of a job stays behind (both fans of a pair agree, a running watchdog has a timeout in its range) |
| `ec_shared` | the beeper's bytes, one of which may be overrun, with a client that may be refused the region: the loop is left with the byte in the register if its reading back was in peace, the region comes back, the loop ends once it is left alone |
| `ec_exit` | finding: the bytes of `functions_exit` and of a fan write in progress meet in the input buffer, so that two calls are in the EC at once and one of them loses its command |
| `beeper` | two writers of any command: status and silence, number of beeps, end of each beep, removal |
| `gpio` | release of keys, faults, removal; the listeners are told of a reset button that is held |
| `leds` | the mutex on every path, answers of threads that met nobody, brightness shown, the last command run is one asked for last, with delay stores, refused colors and a reboot notifier that cuts in |
| `led_ack` | finding: the work overwrites the command of a writer, and the writer takes the answer to the work for its own; without a reboot |
| `led_remove` | finding: works are queued again after they were cancelled, then freed |
| `touch` | fingers reported, silence while suspended, suspend and resume in every order with the end of probe, a load and removal, the bus during a load, the screen comes back |
| `touch_debug` | two callers of any debug files from a probe that may fail to a removal, before and after their mutex is initialised: one inside at a time, a file shows the answer to its own command, when memory that is not there is used, removal ends |
| `sata_beep` | two callers of the slot and boot beep files against loading, removal and the clock: the boot beep changes its bit alone, a read shows each slot's own switch |
| `fwload` | what a load that reports success wrote, the order of the flash commands, that a load ends |

Several properties name the meetings they exclude.  What happens in those is no finding,
because no document of the repository promises otherwise, but it is what the code does: a
register shown by `axs_rw_reg` may be another file's answer, a write to the boot beep may
change a byte of the clock, an interrupt may be enabled on a suspended screen, and "off"
may be undone by a timer handler that was running.

Bounds.  `EcTimeout` = 1: a wait succeeds at once, after one poll, or times out, which are
all the outcomes a longer wait has.  In `ec_shared` the delay is too short for the value of
the write (`TooShort` = {3}); the proof is for any bytes.  Two clients are enough for every
interleaving of two jobs; the jobs chosen are the longest ones that share registers.
`RepMax` = 2 gives no repetition, one that stops at its first beep and one that goes on; two
writers meet in every way two commands can.  The scan counts 1, 100, 260 and 1200 are scaled
to 1, 2, 3 and 5: they keep their order, and the proofs are for all counts; power-down is at
the first scan, and the proofs are also for the board where it is not. One LED has all four
threads that can meet; the proofs are for any number.  `Tries` is 3 in the code, in
`led_ack` and in `led_remove`, and 2 in `leds`, which keeps a first, a repeated and a last
attempt; `leds` has a trigger of each effect that matters, one that sends two commands and
has no delays (`normal`) and one that sends one and has them (`timer`), and the others have
all four.  The proofs are for any number of tries and any triggers.  `touch_debug` has two
callers, which is enough for one file that holds a mutex and one that does not, and removal
and probe as third and fourth thread.  `sata_beep` has two callers and two slots with
different switches, the smallest number in which a slot can show the value of another.  The
watchdog timeout of `ec_functions` is 256, whose low byte is 0: a value of which one byte
alone is out of range.  `TouchScreen` has no bound but `stray` <= 2, one above what the
property allows.  `FwLoad`: packets of 2 bytes and images of 3 to 4 give a last packet that
is full and one that is not; there is an image below and one above the sizes that are
accepted; two polls give a poll that succeeds at once, late or never.  The proofs are for
all sizes and any number of polls.

Fairness.  `EcBus`: a client inside a job keeps running (it is a kernel thread), the EC does
not.  `EcShared`: the EC does answer, or the unbounded loop could not end; that it does so
within the delay is a premise of `LoopEnds` (`EcKeepsUp`), from some time on. `Beeper`: a
handler and a write that have begun go on, and the work queue runs. `SataBeep` asks for none
and states no liveness. `GpioButton`: a timer that is due fires and its handler goes on.
`LedMcu`: queued works run and the MCU deals with each command it gets.  `TouchScreen`: a
thread that has something to do goes on (each is a kernel thread or a system call), a queued
work begins. `TouchDebug`: a call that has begun and a removal that has begun go on; probe
may fail or wait.  `FwLoad`: the driver goes on; nothing is asked of the flash or the bus.

`CHECK_DEADLOCK FALSE` is given only where the system really stops: after a module was
removed (`beeper`, `gpio`, `leds`, `touch`), after an oops or with every thread waiting
for a mutex whose holder died (`gpio`, `touch`, `touch_debug`), or after the jobs of
`functions_exit` (`ec_exit`).

## What is proved

The proofs hold for every value of the constants that the named assumptions allow.

- `EcBus`: `TypeCorrect`; and if every client gets the region (`Unlocked = {}`,
  `~MayRefuse`), `ReadsCorrect` and the refinements `BusImplementsRegisters` and
  `BusRunsJobsInOrder`.  The types alone are not inductive: `TypeInv` adds that a client
  inside a job has calls left (`JobsPending`).  `BusInv` adds that only the holder of the
  region is inside a job, that the holder's place in its call determines what the buffers
  hold and how far the controller is, and that an answer, once there, is the register's
  value. Each step then changes only the holder's part.  For the jobs, `OrderInv` adds that
  a client that asks for the region has a job of its own and one that gives it back has no
  calls left (`JobPlaces`).  Without the assumption on `Unlocked` these results are false:
  `ec_exit` is the counterexample.
- `EcFunctions`: `JobsAreWhole`, for any clients that run `FunctionJobs` and get the region.
  Between the bytes of a job neither fans nor watchdog are as `JobsWhole` says, so
  `WholeInv` is about where the job is heading: `Ends(r, v)` says that register `r` will
  hold `v` when the job is over, from a call still to be made, from the byte on its way, or
  from the register.  Every step but the start of a job leaves all `Ends` as they are
  (`DestinationKept`), and the start moves the registers of a pair together because each job
  in `FunctionJobs` does (`FunctionJobsWhole`).
- `EcShared`: `BeeperByteVerified` and `SharedTypeCorrect`, for any clients and beeper
  threads, any delays that are too short and with no assumption on the region.  `ReadingInv`
  says, for a thread that has asked for its register and was in peace since, how far the
  controller is at each place of the reading back (`ReadInStep`): a step of another thread
  or a late EC ends that, any other step keeps it.
- `GpioButton`: `ButtonTypes`, `StuckKeysAreShort`, `FaultsAreAtTheEdges` and
  `RemoveIsComplete` from one inductive invariant, `ButtonInv`: besides the types and the
  properties it says what each step of probe and remove guarantees, how the count of a
  button bounds its key, and what the place of a scan implies.
- `LedMcu`: `MutexCorrect`, `AnswersAloneAreOwn`, `LedTypes` and `LastAskedShown`, for any
  number of LEDs and tries. `MutexCorrect` is about every path out of the two functions that
  take the mutex. `LedInv` adds to the mutex that two threads in an exchange have recorded
  their meeting (`OverlapIsMet`) and that the flag and the command of a thread that met
  nobody are its own (`AnswerIsOwn`).  For the last command it adds what is still to come
  for an LED whose `want` is not empty: whatever is queued, in a thread's job or in the MCU
  ends with a command in `want`, and when there is no such thing left the last command run
  is one of them (`OnItsWay`); and each thread's job is about its own LED (`JobsOwn`).
- `Beeper`: `BeeperTypes`, `OffSilences`, `RepeatsAreExact` and `ExitIsComplete`, for any
  number of writers and of repetitions.  `BeeperInv` ties the place of the writer that met
  nobody to the status and the timer (`Writing`, `Tracking`), says who may still sound the
  beeper after "off" (`Silenced`), that `count` and the beeps made agree until the
  repetition ends (`Counting`), and what each step of removal leaves (`Leaving`).  As long
  as `raced` is false at most one writer is inside, whatever their number.
- `TouchScreen`: `TypeCorrect`, `ReportsAgree`, `SuspendSilences`, `LastEventDecides`,
  `UpgradeHasTheBus` and `RemoveLeavesNothing`, from one invariant, `TouchInv`.  The model
  has no constants and TLC has seen all its states; what the proofs add is the reason.
  `Places` and `OneAtATime` say which threads can be where while the others are where they
  are, `ReleaseInStep` and `ReportInStep` what the mask, the slot and the button are at each
  step of a release or a report (so that they agree again at its end), `Silent` what each
  step of a suspend has already made quiet, `ReadsCounted` that a stray read means a thread
  past its check, and `RemoveInOrder` what each step of removal has waited for.
- `TouchDebug`: `DebugTypes`, `OneIsInside`, `FaultsAreAtTheEdges` and `OwnAnswerIsShown`,
  for any number of callers and registers.  `DebugInv` says who may be at a step while probe
  and removal are where they are (`Places`, `Drains`), when the buffers are there
  (`Buffers`), that who holds the mutex is under it or ended there (`Taken`), and that the
  caller under the mutex holds it (`Held`).  For the answer, `AnswerInv` follows the command
  of the store that `asked` names: it is in the transmit buffer, then with the controller,
  then in the receive buffer (`Passed`), and stays there while no store is in progress
  (`Waits`). That needs `bus_mutex` to be held between command and answer (`BusHeld`), and
  that a store which ended with a fault did so after probe and keeps `s_device_mutex`
  (`BrokenHeld`), so that nobody gets to show what it left.
- `SataBeep`: `BootBitOnly` and `SlotsAreShown`, for any number of callers and slots and any
  switches.  `SataInv` says that while nothing crossed, the port selects the byte of the one
  who is between the ports (`Selected`), and which slots are mapped at each place of loading
  and removal (`Mapped`).
- `FwLoad`: `TypesHold`, `UpgradeChecks`, `DownloadArrives` and `FlashReady`, for every size
  of packet and image, every file and any number of polls. It is first shown that the
  packets of an image cover it and stay inside it (`PacketsCover`, `PacketInside`,
  `ByteInPacket`, the arithmetic of the packet loops) and from that what is true of the
  whole lists (`UpgradeList`, `DownloadList`).  The types alone are not inductive: `Control`
  ties the place in the driver to what is left of the list.  Each property then has a part
  of its own: `Checked` (each byte is compared later, or the checks have begun and the byte
  was right), `Arriving` (each byte is still to be sent, or arrived), `Ready` (the flash is
  ready in time for the operation that is next or next but one).  `CommandEffect` reduces
  the eleven kinds of commands to one form (`Commanded`), so each part is shown once and not
  per command.

Assumed, by name: `Unlocked` is a set of clients, the timeout is positive, 0 and the byte of
an idle port are bytes, the jobs are sequences of calls that are not empty (`EcBus`);
clients of the region run the jobs of the driver's own files, and the registers of these are
bytes (`EcFunctions`); beeper threads are no clients, the beeper's register and the values 1
and 2 are bytes, and `TooShort` are bytes of the loop (`EcShared`); the order of the scan
counts and when power-down is reported (`GpioButton`); levels are bytes, triggers are those
of the driver and `timer`, there is at least one try and `None` is no thread or command
(`LedMcu`); `RepMax` is positive (`Beeper`); `None` is no caller and no register is called
"other" or "null" (`TouchDebug`); at least one slot, and a switch for each (`SataBeep`);
positive sizes and polls, the smallest image not above the largest, files that are sequences
of bytes (`FwLoad`).

Only model-checked:

- every liveness property, and with them the ends of loops and of removal: their proofs
  need ENABLED, which the prover does not have;
- the runs `ec_exit`, `led_ack` and `led_remove`, whose counterexamples are the findings.

Every invariant and action property of the other runs is proved.

What a recursive definition computes for every input is out of the prover's reach, too;
the packet lists of `FwLoad` are therefore written as functions over an index.

## Plan

All parts of the first plan are done but for these, in order of what they would add:

1. A partial failure of the LED probe: it ignores a failed initialisation, which has
   unregistered the LEDs, and remove unregisters them again.
2. What a failed probe of the touch driver leaves to the framebuffer notifier, which
   `TouchDebug` has for the files alone.
3. The disk activity script on top of `LedMcu`.
4. An abstract specification of the beeper (a sequence of beeps that ends in silence) and
   of the input device (a finger that is down or up) with `Beeper` and `TouchScreen` shown
   to implement them when nothing met.
5. The two bytes of a fan speed, which `fan_read` takes from two calls and, if a call
   failed, from what was there before.

## Not modelled

Gesture wake-up, the SPI bus, the ESD check, keys and the other touch chips: switched off
in the build's configuration.  The power status after AC loss: one bit of a register that
no other writer in this code changes, mapped for as long as its file is there.  The disk
activity script, the packaging and the rpm files.  The PC speaker and U.2 lines of other
products.  Formatting and parsing of the files' texts, and the values of fan speeds.
Where a component is modelled in part, its note in `PROJECT.json` says what is left out.
