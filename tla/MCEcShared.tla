---- MODULE MCEcShared ----
\* Values for TLC: one beeper thread, one client that reads the wake-up switch.
EXTENDS EcShared, EcFunctions, TLC

CONSTANTS user

MCClients == {user}
MCByte == {0, 1, 2, 255, BEEPER_ADR_6011PRO, G3_WAKEUP_ADR} \cup GroupedRegisters
MCJobs == (user :> {g3wakeup_read})
====
