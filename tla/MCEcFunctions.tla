---- MODULE MCEcFunctions ----
\* Values for TLC.  Two threads use the EC at once: each sets the two system fans, one
\* also starts the watchdog and the other reads the power level.  The third
\* client is module removal (exit); it can meet a fan write, but no call of the watchdog
\* core, which keeps the module loaded while the watchdog is open.
EXTENDS EcFunctions, TLC

CONSTANTS fan, user, exit

MCJobs == (fan  :> {set_sys_fan(255), wdt_start(256)}) @@
          (user :> {set_sys_fan(0), pwr_read})

MCExitJobs == (fan :> {set_sys_fan(255)}) @@ (exit :> {functions_exit})

MCByte == {0, 1, 198, 255,
           DEVICE_FAN1_MODE, DEVICE_FAN1_PWM, DEVICE_FAN2_MODE, DEVICE_FAN2_PWM,
           DEVICE_FAN3_MODE, DEVICE_FAN3_PWM, DEVICE_FAN4_MODE, DEVICE_FAN4_PWM,
           EC_PWR_ENABLE, EC_PWR_VALUE,
           EC_IT55_WDT_SWITCH, EC_IT55_WDT_TIME_MSB, EC_IT55_WDT_TIME_LSB}
====
