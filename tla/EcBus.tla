---- MODULE EcBus ----
\* The two I/O ports of the IT5571 embedded controller (EC) and the kernel threads
\* that talk to it through it55_helper.c.  A thread sends a command byte, an address
\* byte and, for a write, a value byte; each byte waits until the EC has emptied its
\* input buffer, at most EcTimeout polls.  A thread that uses ec_request_ports holds
\* the port region for a whole job (several calls); every caller ignores the error of
\* a call that timed out and goes on with the next call of its job.
EXTENDS Naturals, Sequences

CONSTANTS
    Clients,    \* threads that run jobs of EC calls
    Unlocked,   \* the clients among them that do not take the port region
    Byte,       \* register addresses and register values
    Jobs,       \* Jobs[c]: the call sequences client c may run
    EcTimeout,  \* polls before a wait gives up (EC_TIMEOUT_US)
    MayRefuse,  \* the kernel may refuse the port region
    NoClient    \* the region is free

\* What an inb of a port reads when nothing answers.
IdleByte == 255

\* One call of ec_read_memory or ec_write_memory (val is unused by a read).
Call == [op : {"read", "write"}, addr : Byte, val : Byte]

ASSUME ClientsAssumption == Unlocked \subseteq Clients /\ NoClient \notin Clients
ASSUME RefuseAssumption == MayRefuse \in BOOLEAN
ASSUME TimeoutAssumption == EcTimeout \in Nat \ {0}
ASSUME ByteAssumption == Byte \subseteq Nat /\ {0, IdleByte} \subseteq Byte
ASSUME JobsAssumption == \A c \in Clients : \A j \in Jobs[c] : j \in Seq(Call) /\ j # <<>>

EC_C_READ_MEM  == 128
EC_C_WRITE_MEM == 129

VARIABLES
    mem, ibf, obf, odata, ecst, eaddr,  \* the EC
    region,                             \* who holds the port region
    pc, job, left,                      \* the clients
    call, abandoned, failed             \* history, read by properties only

ecVars     == <<mem, ibf, obf, odata, ecst, eaddr>>
clientVars == <<pc, job, left>>
history    == <<call, abandoned, failed>>
vars       == <<ecVars, region, clientVars, history>>

Empty == [port |-> "none", byte |-> 0]

Polling == {"waitCmd", "waitAddr", "waitVal", "waitObf"}
Inside  == Polling \cup {"outCmd", "outAddr", "outVal", "inByte", "release"}

Init ==
    /\ mem = [r \in Byte |-> 0]
    /\ ibf = Empty /\ obf = FALSE /\ odata = IdleByte
    /\ ecst = "idle" /\ eaddr = 0
    /\ region = NoClient
    /\ pc = [c \in Clients |-> "idle"]
    /\ job = [c \in Clients |-> <<>>]
    /\ left = [c \in Clients |-> EcTimeout]
    /\ call = [op |-> "read", addr |-> 0, val |-> 0]
    /\ abandoned = FALSE /\ failed = FALSE

----------------------------------------------------------------------------
\* The controller: it empties its input buffer one byte at a time.  A command byte
\* starts a transaction whatever the state; a data byte that none expects is lost.

EcCommand ==
    /\ ibf.port = "C"
    /\ ecst' = IF ibf.byte = EC_C_WRITE_MEM THEN "waddr" ELSE "raddr"
    /\ eaddr' = 0
    /\ UNCHANGED <<mem, obf, odata>>

EcReadAddress ==
    /\ ibf.port = "D" /\ ecst = "raddr"
    /\ odata' = mem[ibf.byte] /\ obf' = TRUE
    /\ ecst' = "idle"
    /\ UNCHANGED <<mem, eaddr>>

EcWriteAddress ==
    /\ ibf.port = "D" /\ ecst = "waddr"
    /\ eaddr' = ibf.byte
    /\ ecst' = "wdata"
    /\ UNCHANGED <<mem, obf, odata>>

EcWriteValue ==
    /\ ibf.port = "D" /\ ecst = "wdata"
    /\ mem' = [mem EXCEPT ![eaddr] = ibf.byte]
    /\ ecst' = "idle" /\ eaddr' = 0
    /\ UNCHANGED <<obf, odata>>

EcStrayByte ==
    /\ ibf.port = "D" /\ ecst = "idle"
    /\ UNCHANGED <<mem, obf, odata, ecst, eaddr>>

EcTake ==
    /\ \/ EcCommand \/ EcReadAddress \/ EcWriteAddress \/ EcWriteValue \/ EcStrayByte
    /\ ibf' = Empty
    /\ UNCHANGED <<region, clientVars, history>>

----------------------------------------------------------------------------
\* The clients.

Goto(c, at) == pc' = [pc EXCEPT ![c] = at] /\ left' = [left EXCEPT ![c] = EcTimeout]

\* An ec_*_memory call returns: the job goes on with its next call, or ends.
EndCall(c) ==
    /\ Goto(c, IF Len(job[c]) = 1 THEN "release" ELSE "waitCmd")
    /\ job' = [job EXCEPT ![c] = Tail(@)]

\* Module removal ends with its proc files gone: no job starts after that.
Loaded == \A u \in Unlocked : pc[u] # "gone"

Begin(c) ==
    /\ pc[c] = "idle" /\ Loaded
    /\ \E j \in Jobs[c] : job' = [job EXCEPT ![c] = j]
    /\ Goto(c, IF c \in Unlocked THEN "waitCmd" ELSE "request")
    /\ UNCHANGED <<ecVars, region, history>>

\* Mutant: the result of the region request is not waited for.
RequestPorts_NoWait(c) ==
    /\ pc[c] = "request"
    /\ region' = c
    /\ Goto(c, "waitCmd")
    /\ UNCHANGED <<ecVars, job, history>>

\* ec_request_ports: request_muxed_region sleeps until the region is free.  It may fail
\* (-EBUSY: a region of somebody else that is not muxed, no memory), but no caller looks at
\* the result, and the job runs without the region.
RequestPorts(c) ==
    /\ pc[c] = "request"
    /\ \E granted \in {TRUE, ~MayRefuse} :
        /\ granted => region = NoClient
        /\ region' = IF granted THEN c ELSE region
    /\ Goto(c, "waitCmd")
    /\ UNCHANGED <<ecVars, job, history>>

\* release_region frees the region whoever holds it.  A client that never asks for it is
\* functions_exit: it is gone when it ends.
ReleasePorts(c) ==
    /\ pc[c] = "release"
    /\ region' = IF c \in Unlocked THEN region ELSE NoClient
    /\ Goto(c, IF c \in Unlocked THEN "gone" ELSE "idle")
    /\ UNCHANGED <<ecVars, job, history>>

\* What a wait waits for: a byte from the EC, or room for one to it.
Ready(c) == IF pc[c] = "waitObf" THEN obf ELSE ibf.port = "none"

AfterWait(p) ==
    CASE p = "waitCmd"  -> "outCmd"
      [] p = "waitAddr" -> "outAddr"
      [] p = "waitVal"  -> "outVal"
      [] OTHER          -> "inByte"

\* Mutant: the wait ends without a look at the status.
PollReady_NoLook(c) ==
    /\ pc[c] \in Polling /\ left[c] > 0
    /\ Goto(c, AfterWait(pc[c]))
    /\ UNCHANGED <<ecVars, region, job, history>>

PollReady(c) ==
    /\ pc[c] \in Polling /\ left[c] > 0 /\ Ready(c)
    /\ Goto(c, AfterWait(pc[c]))
    /\ UNCHANGED <<ecVars, region, job, history>>

\* Mutants: the count is decremented past zero; the count is not decremented.
PollBusy_PastZero(c) ==
    /\ pc[c] \in Polling /\ ~Ready(c)
    /\ left' = [left EXCEPT ![c] = @ - 1]
    /\ UNCHANGED <<ecVars, region, pc, job, history>>

PollBusy_NoCount(c) ==
    /\ pc[c] \in Polling /\ left[c] > 0 /\ ~Ready(c)
    /\ UNCHANGED vars

PollBusy(c) ==
    /\ pc[c] \in Polling /\ left[c] > 0 /\ ~Ready(c)
    /\ left' = [left EXCEPT ![c] = @ - 1]
    /\ UNCHANGED <<ecVars, region, pc, job, history>>

\* The wait returns -ETIMEDOUT and with it the whole call.  A read given up while it
\* waits for its answer leaves an answer behind that nobody collects.
PollTimeout(c) ==
    /\ pc[c] \in Polling /\ left[c] = 0
    /\ EndCall(c)
    /\ failed' = TRUE
    /\ abandoned' = (abandoned \/ pc[c] = "waitObf")
    /\ UNCHANGED <<ecVars, region, call>>

\* outb: a byte still in the buffer is overwritten.
SendByte(port, b) ==
    /\ ibf' = [port |-> port, byte |-> b]
    /\ UNCHANGED <<mem, obf, odata, ecst, eaddr>>

CommandOf(k) == IF k.op = "read" THEN EC_C_READ_MEM ELSE EC_C_WRITE_MEM

SendCommand(c) ==
    /\ pc[c] = "outCmd"
    /\ SendByte("C", CommandOf(Head(job[c])))
    /\ Goto(c, "waitAddr")
    /\ call' = Head(job[c])
    /\ UNCHANGED <<region, job, abandoned, failed>>

\* Mutant: a read does not wait for the output buffer.
SendAddress_NoWait(c) ==
    /\ pc[c] = "outAddr"
    /\ SendByte("D", Head(job[c]).addr)
    /\ Goto(c, IF Head(job[c]).op = "read" THEN "inByte" ELSE "waitVal")
    /\ UNCHANGED <<region, job, history>>

SendAddress(c) ==
    /\ pc[c] = "outAddr"
    /\ SendByte("D", Head(job[c]).addr)
    /\ Goto(c, IF Head(job[c]).op = "read" THEN "waitObf" ELSE "waitVal")
    /\ UNCHANGED <<region, job, history>>

SendValue(c) ==
    /\ pc[c] = "outVal"
    /\ SendByte("D", Head(job[c]).val)
    /\ EndCall(c)
    /\ UNCHANGED <<region, history>>

ReceiveData(c) ==
    /\ pc[c] = "inByte"
    /\ obf' = FALSE
    /\ EndCall(c)
    /\ UNCHANGED <<mem, ibf, odata, ecst, eaddr, region, history>>

Poll(c) == PollReady(c) \/ PollBusy(c) \/ PollTimeout(c)
Transfer(c) == SendCommand(c) \/ SendAddress(c) \/ SendValue(c) \/ ReceiveData(c)

\* Everything a client does once its job has the ports: the kernel keeps running it.
Run(c) == Poll(c) \/ Transfer(c) \/ ReleasePorts(c)

ClientStep(c) == Begin(c) \/ RequestPorts(c) \/ Run(c)

Next == EcTake \/ \E c \in Clients : ClientStep(c)

\* No fairness of the EC: it may hang.
Fairness == \A c \in Clients : WF_vars(Run(c))

Spec == Init /\ [][Next]_vars /\ Fairness

----------------------------------------------------------------------------
\* Every variable stays in its range: the bytes in the two buffers, the place of a client in
\* its call, and the polls left, which never go below 0 (ec_wait_command_ready).
TypeOK ==
    /\ mem \in [Byte -> Byte]
    /\ ibf \in [port : {"none", "C", "D"}, byte : Byte \cup {EC_C_READ_MEM, EC_C_WRITE_MEM}]
    /\ ibf.port = "D" => ibf.byte \in Byte
    /\ obf \in BOOLEAN /\ odata \in Byte
    /\ ecst \in {"idle", "raddr", "waddr", "wdata"} /\ eaddr \in Byte
    /\ region \in Clients \cup {NoClient}
    /\ pc \in [Clients -> Inside \cup {"idle", "request", "gone"}]
    /\ job \in [Clients -> Seq(Call)]
    /\ left \in [Clients -> 0..EcTimeout]
    /\ call \in Call
    /\ abandoned \in BOOLEAN /\ failed \in BOOLEAN

\* Every register access is one call's: seen from outside, the ports behave as a
\* register file on which each call acts at most once, on its own register, with its
\* own value, even when calls time out half way (ec_write_memory, ec_read_memory).
Registers == INSTANCE EcRegisters WITH live <- ~(ecst = "idle" /\ ibf.port = "none")
RegistersSpec == Registers!Spec

\* The calls the EC has still to carry out: a write whose value is in the buffer, then what
\* is left of the job that has the region, but for a read that is answered already.
Sent == IF ibf.port = "D" /\ ecst = "wdata" THEN <<call>> ELSE <<>>
ReadDone(c) == pc[c] \in {"waitObf", "inByte"} /\ ibf.port = "none"
Remaining ==
    IF region = NoClient THEN <<>>
    ELSE IF ReadDone(region) THEN Tail(job[region]) ELSE job[region]

\* Jobs do not mix: until a call times out, the calls of a job that holds the region
\* (ec_request_ports) are carried out in order, each exactly once, with no call of another
\* job in between, and each answer is the value its register has at that point.
InOrder == INSTANCE EcJobs WITH holder <- region, todo <- Sent \o Remaining, answer <- odata
JobsInOrder == InOrder!Spec

\* A read that gets a byte gets the register it named, as long as no earlier read was
\* given up while it waited for its answer (ec_read_memory, ec_receive_data).
ReadAnswersCall ==
    \A c \in Clients : pc[c] = "inByte" /\ ~abandoned => odata = mem[Head(job[c]).addr]

\* A job ends and gives the region back even if the EC never answers again: every
\* wait is bounded (ec_wait_command_ready, ec_wait_data_ready, ec_release_ports).
PortsReleased == \A c \in Clients : region = c ~> region = NoClient
====
