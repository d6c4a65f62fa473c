---- MODULE MCSataBeep ----
\* SataBeep with two slots in different positions, and callers that may be exchanged.
EXTENDS SataBeep, TLC

SlotsUsed == 2
PowerSeen == [s \in 1..SlotsUsed |-> s = 1]

Symmetric == Permutations(Callers)
====
