---- MODULE EcJobs ----
\* What a job of several EC calls counts on: as long as no call has timed out, the jobs
\* that get the region are carried out one after the other, each call of a job once and
\* in the job's order, and a read answers with the register as the calls before it left
\* it.  The last write of a job may still be on its way when the region is given back.
EXTENDS Naturals, Sequences

CONSTANTS
    Byte,      \* register addresses and register values
    Clients,   \* threads that run jobs
    Jobs,      \* Jobs[c]: the call sequences client c may run
    NoClient   \* the region is free

VARIABLES mem,     \* the registers
          answer,  \* the byte the controller answered last
          holder,  \* whose job has the region
          todo,    \* calls the controller has still to carry out, in order
          failed   \* a call has timed out

Init ==
    /\ mem \in [Byte -> Byte] /\ answer \in Byte
    /\ holder = NoClient /\ todo = <<>>
    /\ failed = FALSE

\* A job gets the region.
Start(c) ==
    /\ holder = NoClient /\ holder' = c
    /\ \E j \in Jobs[c] : todo' = todo \o j
    /\ UNCHANGED <<mem, answer, failed>>

\* The controller carries out the next call.
Read ==
    /\ todo # <<>> /\ Head(todo).op = "read"
    /\ answer' = mem[Head(todo).addr]
    /\ todo' = Tail(todo)
    /\ UNCHANGED <<mem, holder, failed>>

Write ==
    /\ todo # <<>> /\ Head(todo).op = "write"
    /\ mem' = [mem EXCEPT ![Head(todo).addr] = Head(todo).val]
    /\ todo' = Tail(todo)
    /\ UNCHANGED <<answer, holder, failed>>

\* The job ends: its calls are done, but for the last byte of a write.
Finish ==
    /\ holder # NoClient /\ holder' = NoClient
    /\ todo = <<>> \/ (Len(todo) = 1 /\ Head(todo).op = "write")
    /\ UNCHANGED <<mem, answer, todo, failed>>

\* After a call that timed out nothing is promised.
GiveUp == failed' = TRUE

Next == Read \/ Write \/ Finish \/ GiveUp \/ \E c \in Clients : Start(c)

Spec == Init /\ [][Next]_<<mem, answer, holder, todo, failed>>
====
