---- MODULE EcRegisters ----
\* What the callers of ec_write_memory and ec_read_memory count on: the embedded
\* controller is a file of byte registers, a call acts on the register it names
\* and on no other, a write stores the value it was given, and it does so at most
\* once.  A call may also have no effect (the controller did not answer in time and
\* the caller gave up), and its effect may come after the caller has returned.
CONSTANTS Byte    \* register addresses and register values

VARIABLES mem,    \* the registers
          call,   \* the call whose command was sent last
          live    \* that call may still take effect

Call == [op : {"read", "write"}, addr : Byte, val : Byte]

Init ==
    /\ mem \in [Byte -> Byte]
    /\ call \in Call
    /\ live = FALSE

\* A caller starts a call; whatever the call before it had left to do is dropped.
Issue ==
    /\ call' \in Call
    /\ live' = TRUE
    /\ UNCHANGED mem

\* The controller carries out the call, once.
Effect ==
    /\ live
    /\ live' = FALSE
    /\ mem' = IF call.op = "write" THEN [mem EXCEPT ![call.addr] = call.val] ELSE mem
    /\ UNCHANGED call

Next == Issue \/ Effect

Spec == Init /\ [][Next]_<<mem, call, live>>
====
