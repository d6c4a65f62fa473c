---- MODULE EcProofs ----
\* Proofs about the EC ports, for any number of clients and any timeout: type
\* correctness; when every client gets the region, that the ports implement the
\* register file of EcRegisters, that a read gets the register it names, and that the
\* jobs of EcFunctions are whole; and that a beeper thread of EcShared that reads back in
\* peace returns only with its byte in place.
EXTENDS EcShared, EcFunctions, SequenceTheorems, TLAPS

\* A client that has a call to make has it at the head of its job.
JobsPending == \A c \in Clients : pc[c] \in (Inside \ {"release"}) \cup {"request"} => job[c] # <<>>

\* Only the holder of the region is between ec_request_ports and ec_release_ports.
HoldsPorts == \A c \in Clients : pc[c] \in Inside <=> region = c

AddressState(k) == IF k.op = "read" THEN "raddr" ELSE "waddr"

\* What the EC holds belongs to the call begun last, unless a new command is in the
\* buffer, which discards it.
BusBelongsToCall ==
    /\ ibf.port = "C" => ibf.byte = CommandOf(call)
    /\ ibf.port = "D" => ecst # "idle"
    /\ ibf.port # "C" =>
        /\ ecst = "raddr" => call.op = "read"
        /\ ecst \in {"waddr", "wdata"} => call.op = "write"
        /\ ecst = "wdata" => eaddr = call.addr
        /\ ibf.port = "D" => ibf.byte = IF ecst = "wdata" THEN call.val ELSE call.addr

\* How far the client inside and the EC are, together.
InStep(c) ==
    /\ pc[c] \in {"outCmd", "outAddr", "outVal"} => ibf.port = "none"
    /\ pc[c] \in {"waitAddr", "outAddr"} =>
        /\ call = Head(job[c])
        /\ ibf.port = "C" \/ (ibf.port = "none" /\ ecst = AddressState(call))
    /\ pc[c] \in {"waitVal", "outVal"} =>
        /\ call = Head(job[c]) /\ call.op = "write"
        /\ \/ ibf.port = "D" /\ ecst = "waddr"
           \/ ibf.port = "none" /\ ecst = "wdata"
    /\ pc[c] \in {"waitObf", "inByte"} =>
        /\ call = Head(job[c]) /\ call.op = "read"
        /\ \/ ibf.port = "D" /\ ecst = "raddr"
           \/ ibf.port = "none" /\ ecst = "idle"

\* Until a read is given up, a client is waiting for whatever the EC has answered or is
\* about to answer, and a byte in the output buffer answers the call begun last.
Answering == obf \/ (ibf.port = "D" /\ ecst = "raddr")

AnswerIsFresh ==
    ~abandoned =>
        /\ Answering => \E c \in Clients : pc[c] \in {"waitObf", "inByte"}
        /\ obf => ibf.port = "none" /\ ecst = "idle" /\ odata = mem[call.addr]
        /\ \A c \in Clients : pc[c] = "inByte" => obf

TypeInv == TypeOK /\ JobsPending

BusInv ==
    /\ TypeInv
    /\ HoldsPorts
    /\ BusBelongsToCall
    /\ \A c \in Clients : InStep(c)
    /\ AnswerIsFresh

----------------------------------------------------------------------------
\* A call list that is not empty has a first call, and a rest unless it was the only one.
LEMMA TailOfCalls ==
    ASSUME NEW s \in Seq(Call), s # <<>>
    PROVE  /\ Head(s) \in Call
           /\ Tail(s) \in Seq(Call)
           /\ Len(s) # 1 => Tail(s) # <<>>
<1>1. Head(s) \in Call /\ Tail(s) \in Seq(Call) /\ Len(Tail(s)) = Len(s) - 1
  BY HeadTailProperties
<1>2. Len(s) \in Nat /\ Len(s) # 0
  BY EmptySeq
<1>3. Len(s) # 1 => Len(Tail(s)) # 0
  BY <1>1, <1>2
<1> QED
  BY <1>1, <1>3, EmptySeq

\* The part of a client's step that goes on to the next call or to the release.
LEMMA EndCallKeepsJobs ==
    ASSUME TypeInv, NEW c \in Clients, pc[c] \in Inside \ {"release"}, EndCall(c)
    PROVE  /\ pc' \in [Clients -> Inside \cup {"idle", "request", "gone"}]
           /\ job' \in [Clients -> Seq(Call)]
           /\ left' \in [Clients -> 0..EcTimeout]
           /\ JobsPending'
<1>1. job[c] \in Seq(Call) /\ job[c] # <<>>
  BY DEF TypeInv, TypeOK, JobsPending
<1>2. Tail(job[c]) \in Seq(Call) /\ (Len(job[c]) # 1 => Tail(job[c]) # <<>>)
  BY <1>1, TailOfCalls
<1>3. EcTimeout \in 0..EcTimeout
  BY TimeoutAssumption
<1> QED
  BY <1>1, <1>2, <1>3 DEF EndCall, Goto, TypeInv, TypeOK, JobsPending, Inside, Polling

\* Types hold in every state: the bytes on the ports, the registers, the clients'
\* places and jobs stay in their ranges whatever the EC and the clients do.
LEMMA TypeInvInit == Init => TypeInv
<1> SUFFICES ASSUME Init PROVE TypeInv
  OBVIOUS
<1>1. JobsPending
  BY DEF Init, JobsPending, Inside, Polling
<1>2. job \in [Clients -> Seq(Call)]
  <2>1. <<>> \in Seq(Call)
    BY EmptySeq
  <2> QED
    BY <2>1 DEF Init
<1>3. /\ left \in [Clients -> 0..EcTimeout]
      /\ pc \in [Clients -> Inside \cup {"idle", "request", "gone"}]
  BY TimeoutAssumption DEF Init
<1>4. call \in Call /\ mem \in [Byte -> Byte]
  BY ByteAssumption DEF Init, Call
<1>5. /\ ibf \in [port : {"none", "C", "D"}, byte : Byte \cup {EC_C_READ_MEM, EC_C_WRITE_MEM}]
      /\ ibf.port = "D" => ibf.byte \in Byte
  BY ByteAssumption DEF Init, Empty
<1> QED
  BY <1>1, <1>2, <1>3, <1>4, <1>5, ByteAssumption DEF Init, TypeInv, TypeOK

\* Every action keeps the types and the pending jobs.
LEMMA TypeInvStep == TypeInv /\ [Next]_vars => TypeInv'
<1> SUFFICES ASSUME TypeInv, [Next]_vars PROVE TypeInv'
  OBVIOUS
<1> USE TimeoutAssumption, ByteAssumption
<1>1. CASE EcTake
  <2>1. UNCHANGED <<region, clientVars, history>> /\ JobsPending'
    BY <1>1 DEF EcTake, TypeInv, JobsPending, clientVars
  <2>2. CASE EcCommand
    BY <1>1, <2>1, <2>2 DEF EcTake, EcCommand, TypeInv, TypeOK, Empty, clientVars, history
  <2>3. CASE EcReadAddress
    BY <1>1, <2>1, <2>3 DEF EcTake, EcReadAddress, TypeInv, TypeOK, Empty, clientVars, history
  <2>4. CASE EcWriteAddress
    BY <1>1, <2>1, <2>4 DEF EcTake, EcWriteAddress, TypeInv, TypeOK, Empty, clientVars, history
  <2>5. CASE EcWriteValue
    BY <1>1, <2>1, <2>5 DEF EcTake, EcWriteValue, TypeInv, TypeOK, Empty, clientVars, history
  <2>6. CASE EcStrayByte
    BY <1>1, <2>1, <2>6 DEF EcTake, EcStrayByte, TypeInv, TypeOK, Empty, clientVars, history
  <2> QED
    BY <1>1, <2>2, <2>3, <2>4, <2>5, <2>6 DEF EcTake
<1>2. ASSUME NEW c \in Clients, Begin(c) PROVE TypeInv'
  <2>1. PICK j \in Jobs[c] : job' = [job EXCEPT ![c] = j]
    BY <1>2 DEF Begin
  <2>2. j \in Seq(Call) /\ j # <<>>
    BY JobsAssumption
  <2> QED
    BY <1>2, <2>1, <2>2
    DEF Begin, Goto, TypeInv, TypeOK, JobsPending, Inside, Polling, ecVars, history
<1>3. ASSUME NEW c \in Clients, RequestPorts(c) PROVE TypeInv'
  BY <1>3
  DEF RequestPorts, Goto, TypeInv, TypeOK, JobsPending, Inside, Polling, ecVars, history
<1>4. ASSUME NEW c \in Clients, PollReady(c) PROVE TypeInv'
  BY <1>4
  DEF PollReady, AfterWait, Goto, TypeInv, TypeOK, JobsPending, Inside, Polling, ecVars, history
<1>5. ASSUME NEW c \in Clients, PollBusy(c) PROVE TypeInv'
  BY <1>5 DEF PollBusy, TypeInv, TypeOK, JobsPending, Inside, Polling, ecVars, history
<1>6. ASSUME NEW c \in Clients, PollTimeout(c) PROVE TypeInv'
  <2>1. pc[c] \in Inside \ {"release"} /\ EndCall(c)
    BY <1>6 DEF PollTimeout, Inside, Polling
  <2> QED
    BY <1>6, <2>1, EndCallKeepsJobs DEF PollTimeout, TypeInv, TypeOK, ecVars
<1>7. ASSUME NEW c \in Clients, SendCommand(c) PROVE TypeInv'
  <2>1. Head(job[c]) \in Call
    BY <1>7, TailOfCalls DEF SendCommand, TypeInv, TypeOK, JobsPending, Inside
  <2> QED
    BY <1>7, <2>1
    DEF SendCommand, SendByte, CommandOf, Goto, TypeInv, TypeOK, JobsPending, Inside, Polling
<1>8. ASSUME NEW c \in Clients, SendAddress(c) PROVE TypeInv'
  <2>1. Head(job[c]).addr \in Byte
    BY <1>8, TailOfCalls DEF SendAddress, TypeInv, TypeOK, JobsPending, Inside, Call
  <2> QED
    BY <1>8, <2>1
    DEF SendAddress, SendByte, Goto, TypeInv, TypeOK, JobsPending, Inside, Polling, history
<1>9. ASSUME NEW c \in Clients, SendValue(c) PROVE TypeInv'
  <2>1. Head(job[c]).val \in Byte
    BY <1>9, TailOfCalls DEF SendValue, TypeInv, TypeOK, JobsPending, Inside, Call
  <2>2. pc[c] \in Inside \ {"release"} /\ EndCall(c)
    BY <1>9 DEF SendValue, Inside
  <2> QED
    BY <1>9, <2>1, <2>2, EndCallKeepsJobs DEF SendValue, SendByte, TypeInv, TypeOK, history
<1>10. ASSUME NEW c \in Clients, ReceiveData(c) PROVE TypeInv'
  <2>1. pc[c] \in Inside \ {"release"} /\ EndCall(c)
    BY <1>10 DEF ReceiveData, Inside
  <2> QED
    BY <1>10, <2>1, EndCallKeepsJobs DEF ReceiveData, TypeInv, TypeOK, history
<1>11. ASSUME NEW c \in Clients, ReleasePorts(c) PROVE TypeInv'
  BY <1>11 DEF ReleasePorts, Goto, TypeInv, TypeOK, JobsPending, Inside, Polling, ecVars, history
<1>12. CASE UNCHANGED vars
  BY <1>12 DEF vars, ecVars, clientVars, history, TypeInv, TypeOK, JobsPending
<1> QED
  BY <1>1, <1>2, <1>3, <1>4, <1>5, <1>6, <1>7, <1>8, <1>9, <1>10, <1>11, <1>12
  DEF Next, ClientStep, Run, Poll, Transfer

\* Types of EcBus, for every client set, job set and timeout.
THEOREM TypeCorrect == Spec => []TypeOK
<1>1. TypeInv => TypeOK
  BY DEF TypeInv
<1> QED
  BY <1>1, TypeInvInit, TypeInvStep, PTL DEF Spec

----------------------------------------------------------------------------
\* At the start nobody is inside and the EC holds nothing.
LEMMA BusInvInit == Init => BusInv
<1> SUFFICES ASSUME Init PROVE BusInv
  OBVIOUS
<1>1. TypeInv
  BY TypeInvInit
<1>2. HoldsPorts
  BY ClientsAssumption DEF Init, HoldsPorts, Inside, Polling
<1>3. BusBelongsToCall
  BY DEF Init, BusBelongsToCall, Empty
<1>4. \A c \in Clients : InStep(c)
  BY DEF Init, InStep
<1>5. AnswerIsFresh
  BY DEF Init, AnswerIsFresh, Answering, Empty
<1> QED
  BY <1>1, <1>2, <1>3, <1>4, <1>5 DEF BusInv

\* Two clients are never both between requesting and releasing the ports.
LEMMA OneInside ==
    ASSUME BusInv, NEW c \in Clients, pc[c] \in Inside, NEW d \in Clients, d # c
    PROVE  pc[d] \notin Inside
  BY DEF BusInv, HoldsPorts

\* The EC takes a byte.
LEMMA EcTakeKeepsBus == BusInv /\ TypeInv' /\ EcTake => BusInv'
<1> SUFFICES ASSUME BusInv, TypeInv', EcTake PROVE BusInv'
  OBVIOUS
<1>1. UNCHANGED <<region, pc, job, call, abandoned>> /\ ibf' = Empty /\ ibf'.port = "none"
  BY DEF EcTake, clientVars, history, Empty
<1>2. HoldsPorts'
  BY <1>1 DEF BusInv, HoldsPorts
<1> USE DEF BusInv, TypeInv, TypeOK
<1>3. ~(ibf.port = "D" /\ ecst = "idle")
  BY DEF BusBelongsToCall
<1>4. BusBelongsToCall'
  <2>1. CASE EcCommand
    BY <1>1, <2>1 DEF EcCommand, BusBelongsToCall, CommandOf, EC_C_READ_MEM, EC_C_WRITE_MEM, Call
  <2>2. CASE EcReadAddress
    BY <1>1, <2>2 DEF EcReadAddress, BusBelongsToCall
  <2>3. CASE EcWriteAddress
    BY <1>1, <2>3 DEF EcWriteAddress, BusBelongsToCall
  <2>4. CASE EcWriteValue
    BY <1>1, <2>4 DEF EcWriteValue, BusBelongsToCall
  <2> QED
    BY <1>3, <2>1, <2>2, <2>3, <2>4 DEF EcTake, EcStrayByte
<1>5. ASSUME NEW c \in Clients PROVE InStep(c)'
  <2>1. InStep(c)
    BY DEF BusInv
  <2>2. CASE EcCommand
    <3>1. ecst' = AddressState(call)
      BY <2>2 DEF EcCommand, BusBelongsToCall, AddressState, CommandOf,
                  EC_C_READ_MEM, EC_C_WRITE_MEM, Call
    <3> QED
      BY <1>1, <2>1, <2>2, <3>1 DEF EcCommand, InStep
  <2>3. CASE EcReadAddress
    BY <1>1, <2>1, <2>3 DEF EcReadAddress, InStep
  <2>4. CASE EcWriteAddress
    BY <1>1, <2>1, <2>4 DEF EcWriteAddress, InStep
  <2>5. CASE EcWriteValue
    BY <1>1, <2>1, <2>5 DEF EcWriteValue, InStep
  <2> QED
    BY <1>3, <2>2, <2>3, <2>4, <2>5 DEF EcTake, EcStrayByte
<1>6. AnswerIsFresh'
  <2> SUFFICES ASSUME ~abandoned PROVE AnswerIsFresh'
    BY <1>1 DEF AnswerIsFresh
  <2>1. CASE EcReadAddress
    <3>1. Answering /\ odata' = mem[call.addr] /\ mem' = mem /\ ecst' = "idle" /\ obf'
      BY <2>1 DEF EcReadAddress, BusBelongsToCall, Answering
    <3> QED
      BY <1>1, <3>1 DEF AnswerIsFresh
  <2>2. CASE ~EcReadAddress
    <3>1. obf' = obf /\ (obf => FALSE)
      BY <2>2, <1>3 DEF AnswerIsFresh, EcTake, EcCommand, EcWriteAddress, EcWriteValue, EcStrayByte
    <3> QED
      BY <1>1, <3>1 DEF AnswerIsFresh, Answering
  <2> QED
    BY <2>1, <2>2
<1> QED
  BY <1>2, <1>4, <1>5, <1>6

\* A client outside the region is at none of the places InStep speaks of.
LEMMA OutsideInStep ==
    ASSUME NEW c \in Clients, pc'[c] \notin Inside \ {"release", "waitCmd"}
    PROVE  InStep(c)'
  BY DEF InStep, Inside, Polling

\* What a step of the client inside, c, leaves alone.
LEMMA OthersStay ==
    ASSUME BusInv, NEW c \in Clients, pc[c] \in Inside, NEW at, pc' = [pc EXCEPT ![c] = at],
           NEW d \in Clients, d # c
    PROVE  pc'[d] = pc[d] /\ pc[d] \notin Inside /\ InStep(d)'
<1>1. pc'[d] = pc[d] /\ pc[d] \notin Inside
  BY OneInside DEF BusInv, TypeInv, TypeOK
<1> QED
  BY <1>1, OutsideInStep

\* A step of the client inside that keeps it inside keeps the region's holder.
LEMMA HolderStays ==
    ASSUME BusInv, NEW c \in Clients, pc[c] \in Inside, NEW at \in Inside,
           pc' = [pc EXCEPT ![c] = at], region' = region
    PROVE  HoldsPorts'
<1>1. pc'[c] = at /\ pc' \in [Clients -> Inside \cup {"idle", "request", "gone"}]
  BY DEF BusInv, TypeInv, TypeOK
<1>2. \A d \in Clients : d # c => pc'[d] = pc[d]
  BY DEF BusInv, TypeInv, TypeOK
<1> QED
  BY <1>1, <1>2 DEF BusInv, HoldsPorts

\* Where a client goes when its call ends.
LEMMA EndCallStaysInside ==
    ASSUME NEW c \in Clients, EndCall(c)
    PROVE  \E at \in {"release", "waitCmd"} : pc' = [pc EXCEPT ![c] = at]
  BY DEF EndCall, Goto

\* A client that takes no byte of the bus: it starts a job, gets the region, polls.
LEMMA PollingKeepsBus ==
    ASSUME BusInv, TypeInv', Unlocked = {}, ~MayRefuse, NEW c \in Clients,
           Begin(c) \/ RequestPorts(c) \/ PollReady(c) \/ PollBusy(c) \/ ReleasePorts(c)
    PROVE  BusInv'
<1>1. UNCHANGED <<ecVars, history>>
  BY DEF Begin, RequestPorts, PollReady, PollBusy, ReleasePorts, history
<1>2. BusBelongsToCall'
  BY <1>1 DEF BusInv, BusBelongsToCall, ecVars, history
<1>3. pc \in [Clients -> Inside \cup {"idle", "request", "gone"}]
      /\ NoClient \notin Clients
  BY ClientsAssumption DEF BusInv, TypeInv, TypeOK
<1>4. CASE Begin(c) \/ RequestPorts(c) \/ ReleasePorts(c)
  <2>1. PICK at \in {"request", "waitCmd", "idle"} : pc' = [pc EXCEPT ![c] = at]
    BY <1>4 DEF Begin, RequestPorts, ReleasePorts, Goto
  <2>2. HoldsPorts'
    BY <1>3, <1>4
    DEF BusInv, HoldsPorts, Begin, RequestPorts, ReleasePorts, Goto, Inside, Polling
  <2>3. ASSUME NEW d \in Clients PROVE InStep(d)'
    <3>1. CASE d = c
      BY <1>3, <2>1, <3>1, OutsideInStep DEF Inside, Polling
    <3>2. CASE d # c
      <4>1. pc'[d] = pc[d]
        BY <1>3, <2>1, <3>2
      <4>2. job'[d] = job[d]
        BY <1>4, <3>2 DEF Begin, RequestPorts, ReleasePorts, BusInv, TypeInv, TypeOK
      <4> QED
        BY <1>1, <4>1, <4>2 DEF BusInv, InStep, ecVars, history
    <3> QED
      BY <3>1, <3>2
  <2>4. AnswerIsFresh'
    <3>1. pc[c] \notin {"waitObf", "inByte"}
      BY <1>4 DEF Begin, RequestPorts, ReleasePorts
    <3>2. \A d \in Clients : pc'[d] \in {"waitObf", "inByte"} <=> pc[d] \in {"waitObf", "inByte"}
      BY <1>3, <2>1, <3>1
    <3>3. \A d \in Clients : pc'[d] = "inByte" => pc[d] = "inByte"
      BY <1>3, <2>1
    <3> QED
      BY <1>1, <3>2, <3>3 DEF BusInv, AnswerIsFresh, Answering, ecVars, history
  <2> QED
    BY <1>2, <2>2, <2>3, <2>4 DEF BusInv
<1>5. CASE PollReady(c)
  <2>1. pc[c] \in Polling /\ pc' = [pc EXCEPT ![c] = AfterWait(pc[c])] /\ Ready(c)
        /\ UNCHANGED <<region, job>>
    BY <1>5 DEF PollReady, Goto
  <2>2. pc[c] \in Inside /\ AfterWait(pc[c]) \in Inside /\ pc'[c] = AfterWait(pc[c])
    BY <1>3, <2>1 DEF Inside, Polling, AfterWait
  <2>3. HoldsPorts'
    BY <2>1, <2>2, HolderStays
  <2>4. InStep(c)'
    BY <1>1, <2>1, <2>2 DEF BusInv, InStep, AfterWait, Polling, Ready, ecVars, history
  <2>5. \A d \in Clients : InStep(d)'
    BY <2>1, <2>2, <2>4, OthersStay
  <2>6. AnswerIsFresh'
    <3>1. \A d \in Clients : d # c => pc'[d] = pc[d]
      BY <1>3, <2>1
    <3>2. pc'[c] \in {"waitObf", "inByte"} <=> pc[c] \in {"waitObf", "inByte"}
      BY <2>1, <2>2 DEF AfterWait, Polling
    <3>3. pc'[c] = "inByte" => obf
      BY <2>1, <2>2 DEF AfterWait, Polling, Ready
    <3> QED
      BY <1>1, <3>1, <3>2, <3>3 DEF BusInv, AnswerIsFresh, Answering, ecVars, history
  <2> QED
    BY <1>2, <2>3, <2>5, <2>6 DEF BusInv
<1>6. CASE PollBusy(c)
  BY <1>1, <1>2, <1>6
  DEF PollBusy, BusInv, HoldsPorts, InStep, AnswerIsFresh, Answering, ecVars, history
<1> QED
  BY <1>4, <1>5, <1>6

\* A call that times out.
LEMMA TimeoutKeepsBus ==
    ASSUME BusInv, TypeInv', NEW c \in Clients, PollTimeout(c)
    PROVE  BusInv'
<1>1. UNCHANGED <<ecVars, region, call>> /\ pc[c] \in Polling
      /\ abandoned' = (abandoned \/ pc[c] = "waitObf")
  BY DEF PollTimeout
<1>2. pc[c] \in Inside
  BY <1>1 DEF Inside
<1>3. PICK at \in {"release", "waitCmd"} : pc' = [pc EXCEPT ![c] = at]
  BY EndCallStaysInside DEF PollTimeout
<1>4. pc'[c] = at /\ at \in Inside
  BY <1>3 DEF BusInv, TypeInv, TypeOK, Inside, Polling
<1>5. HoldsPorts'
  BY <1>1, <1>2, <1>3, <1>4, HolderStays
<1>6. BusBelongsToCall'
  BY <1>1 DEF BusInv, BusBelongsToCall, ecVars
<1>7. InStep(c)'
  BY <1>4, OutsideInStep
<1>8. \A d \in Clients : InStep(d)'
  BY <1>2, <1>3, <1>7, OthersStay
<1>9. AnswerIsFresh'
  <2>1. \A d \in Clients : d # c => pc'[d] = pc[d]
    BY <1>3 DEF BusInv, TypeInv, TypeOK
  <2>2. CASE pc[c] = "waitObf"
    BY <1>1, <2>2 DEF AnswerIsFresh
  <2>3. CASE pc[c] # "waitObf"
    BY <1>1, <1>4, <2>1, <2>3 DEF BusInv, AnswerIsFresh, Answering, Polling, ecVars
  <2> QED
    BY <2>2, <2>3
<1> QED
  BY <1>5, <1>6, <1>8, <1>9 DEF BusInv

\* A new command discards whatever the EC held of the call before it.
LEMMA SendCommandKeepsBus ==
    ASSUME BusInv, TypeInv', NEW c \in Clients, SendCommand(c)
    PROVE  BusInv'
<1>1. /\ pc[c] = "outCmd" /\ pc' = [pc EXCEPT ![c] = "waitAddr"]
      /\ ibf' = [port |-> "C", byte |-> CommandOf(Head(job[c]))] /\ call' = Head(job[c])
      /\ UNCHANGED <<mem, obf, odata, ecst, eaddr, region, job, abandoned>>
  BY DEF SendCommand, SendByte, Goto
<1>2. pc[c] \in Inside /\ pc'[c] = "waitAddr" /\ ibf'.port = "C"
  BY <1>1 DEF Inside, BusInv, TypeInv, TypeOK
<1>3. HoldsPorts'
  BY <1>1, <1>2, HolderStays DEF Inside, Polling
<1>4. BusBelongsToCall'
  BY <1>1, <1>2 DEF BusBelongsToCall, CommandOf
<1>5. InStep(c)'
  BY <1>1, <1>2 DEF InStep
<1>6. \A d \in Clients : InStep(d)'
  BY <1>1, <1>2, <1>5, OthersStay
<1>7. AnswerIsFresh'
  <2>1. \A d \in Clients : pc[d] \notin {"waitObf", "inByte"} /\ pc'[d] # "inByte"
    BY <1>1, <1>2, OneInside DEF BusInv, TypeInv, TypeOK, Inside, Polling
  <2> QED
    BY <1>1, <1>2, <2>1 DEF BusInv, AnswerIsFresh, Answering
<1> QED
  BY <1>3, <1>4, <1>6, <1>7 DEF BusInv

\* The address goes to an EC that expects it.
LEMMA SendAddressKeepsBus ==
    ASSUME BusInv, TypeInv', NEW c \in Clients, SendAddress(c)
    PROVE  BusInv'
<1> DEFINE at == IF Head(job[c]).op = "read" THEN "waitObf" ELSE "waitVal"
<1>1. /\ pc[c] = "outAddr" /\ pc' = [pc EXCEPT ![c] = at]
      /\ ibf' = [port |-> "D", byte |-> Head(job[c]).addr]
      /\ UNCHANGED <<mem, obf, odata, ecst, eaddr, region, job, call, abandoned>>
  BY DEF SendAddress, SendByte, Goto, history
<1>2. /\ call = Head(job[c]) /\ ibf.port = "none" /\ ecst = AddressState(call)
      /\ call.op \in {"read", "write"}
  BY <1>1 DEF BusInv, InStep, TypeInv, TypeOK, Call
<1>3. pc[c] \in Inside /\ at \in Inside /\ pc'[c] = at /\ ibf'.port = "D"
  BY <1>1 DEF Inside, Polling, BusInv, TypeInv, TypeOK
<1>4. HoldsPorts'
  BY <1>1, <1>3, HolderStays
<1>5. BusBelongsToCall'
  BY <1>1, <1>2, <1>3 DEF BusInv, BusBelongsToCall, AddressState
<1>6. InStep(c)'
  BY <1>1, <1>2, <1>3 DEF InStep, AddressState
<1>7. \A d \in Clients : InStep(d)'
  BY <1>1, <1>3, <1>6, OthersStay
<1>8. AnswerIsFresh'
  <2>1. \A d \in Clients : pc[d] \notin {"waitObf", "inByte"} /\ pc'[d] # "inByte"
    BY <1>1, <1>3, OneInside DEF BusInv, TypeInv, TypeOK, Inside, Polling
  <2>2. ecst' = "raddr" => pc'[c] = "waitObf"
    BY <1>1, <1>2, <1>3 DEF AddressState
  <2> QED
    BY <1>1, <1>3, <2>1, <2>2 DEF BusInv, AnswerIsFresh, Answering
<1> QED
  BY <1>4, <1>5, <1>7, <1>8 DEF BusInv

\* The last byte of a call: its value sent, or its answer taken.
LEMMA LastByteKeepsBus ==
    ASSUME BusInv, TypeInv', NEW c \in Clients, SendValue(c) \/ ReceiveData(c)
    PROVE  BusInv'
<1>1. /\ pc[c] \in {"outVal", "inByte"} /\ EndCall(c)
      /\ UNCHANGED <<mem, odata, ecst, eaddr, region, call, abandoned>>
  BY DEF SendValue, SendByte, ReceiveData, history
<1>2. PICK at \in {"release", "waitCmd"} : pc' = [pc EXCEPT ![c] = at]
  BY <1>1, EndCallStaysInside
<1>3. pc[c] \in Inside /\ at \in Inside /\ pc'[c] = at
  BY <1>1, <1>2 DEF Inside, Polling, BusInv, TypeInv, TypeOK
<1>4. HoldsPorts'
  BY <1>1, <1>2, <1>3, HolderStays
<1>5. InStep(c)'
  BY <1>3, OutsideInStep
<1>6. \A d \in Clients : InStep(d)'
  BY <1>2, <1>3, <1>5, OthersStay
<1>7. \A d \in Clients : pc'[d] # "inByte"
  BY <1>2, <1>3, OneInside DEF BusInv, TypeInv, TypeOK, Inside
<1>8. CASE SendValue(c)
  <2>1. /\ call = Head(job[c]) /\ call.op = "write" /\ ecst = "wdata" /\ ibf.port = "none"
        /\ ibf' = [port |-> "D", byte |-> Head(job[c]).val] /\ obf' = obf
    BY <1>8 DEF SendValue, SendByte, BusInv, InStep
  <2>2. BusBelongsToCall'
    BY <1>1, <2>1 DEF BusInv, BusBelongsToCall
  <2>3. AnswerIsFresh'
    BY <1>1, <1>7, <2>1 DEF BusInv, AnswerIsFresh, Answering
  <2> QED
    BY <1>4, <1>6, <2>2, <2>3 DEF BusInv
<1>9. CASE ReceiveData(c)
  <2>1. ibf' = ibf /\ obf' = FALSE
    BY <1>9 DEF ReceiveData
  <2>2. BusBelongsToCall'
    BY <1>1, <2>1 DEF BusInv, BusBelongsToCall
  <2>3. ~abandoned => ibf.port = "none" /\ ecst = "idle"
    BY <1>9 DEF ReceiveData, BusInv, AnswerIsFresh
  <2>4. AnswerIsFresh'
    BY <1>1, <1>7, <2>1, <2>3 DEF AnswerIsFresh, Answering
  <2> QED
    BY <1>4, <1>6, <2>2, <2>4 DEF BusInv
<1> QED
  BY <1>8, <1>9

\* Every action keeps the invariant if every client gets the region.
LEMMA BusInvStep ==
    ASSUME Unlocked = {}, ~MayRefuse, BusInv, [Next]_vars
    PROVE  BusInv'
<1>1. TypeInv'
  BY TypeInvStep DEF BusInv
<1>2. CASE UNCHANGED vars
  BY <1>1, <1>2
  DEF vars, ecVars, clientVars, history, BusInv, HoldsPorts, BusBelongsToCall, InStep,
      AnswerIsFresh, Answering
<1>3. CASE EcTake
  BY <1>1, <1>3, EcTakeKeepsBus
<1>4. ASSUME NEW c \in Clients, ClientStep(c) PROVE BusInv'
  BY <1>1, <1>4, PollingKeepsBus, TimeoutKeepsBus, SendCommandKeepsBus,
     SendAddressKeepsBus, LastByteKeepsBus
  DEF ClientStep, Run, Poll, Transfer
<1> QED
  BY <1>2, <1>3, <1>4 DEF Next

\* The bus belongs to one call at a time, for every number of clients and every timeout.
THEOREM BusCorrect ==
    ASSUME Unlocked = {}, ~MayRefuse
    PROVE  Spec => []BusInv
<1>1. BusInv /\ [Next]_vars => BusInv'
  BY BusInvStep
<1> QED
  BY <1>1, BusInvInit, PTL DEF Spec

\* A read gets the register it named, for every number of clients and every timeout, as
\* long as every client gets the region and no read has been given up.
THEOREM ReadsCorrect ==
    ASSUME Unlocked = {}, ~MayRefuse
    PROVE  Spec => []ReadAnswersCall
<1>1. BusInv => ReadAnswersCall
  BY DEF BusInv, AnswerIsFresh, InStep, ReadAnswersCall
<1> QED
  BY <1>1, BusCorrect, PTL

----------------------------------------------------------------------------
\* Every step of the bus is a step of the register file, or changes nothing it sees.
LEMMA RegistersStep ==
    ASSUME Unlocked = {}, ~MayRefuse, BusInv, BusInv', [Next]_vars
    PROVE  [Registers!Next]_<<mem, call, ~(ecst = "idle" /\ ibf.port = "none")>>
<1> USE DEF BusInv, TypeInv, TypeOK
<1>1. CASE EcTake
  <2>1. call' = call /\ ibf'.port = "none"
    BY <1>1 DEF EcTake, history, Empty
  <2>2. CASE EcCommand
    BY <1>1, <2>1, <2>2 DEF EcCommand
  <2>3. CASE EcReadAddress
    <3>1. Registers!Effect
      BY <2>1, <2>3 DEF EcReadAddress, Registers!Effect, BusBelongsToCall
    <3> QED
      BY <3>1 DEF Registers!Next
  <2>4. CASE EcWriteAddress
    BY <1>1, <2>1, <2>4 DEF EcWriteAddress
  <2>5. CASE EcWriteValue
    <3>1. Registers!Effect
      BY <2>1, <2>5 DEF EcWriteValue, Registers!Effect, BusBelongsToCall
    <3> QED
      BY <3>1 DEF Registers!Next
  <2>6. ~EcStrayByte
    BY DEF EcStrayByte, BusBelongsToCall
  <2> QED
    BY <1>1, <2>2, <2>3, <2>4, <2>5, <2>6 DEF EcTake
<1>2. ASSUME NEW c \in Clients, SendCommand(c)
      PROVE  Registers!Next
  <2>1. mem' = mem /\ ibf'.port = "C" /\ call' \in Call
    BY <1>2 DEF SendCommand, SendByte
  <2> QED
    BY <2>1 DEF Registers!Next, Registers!Issue, Registers!Call, Call
<1>3. ASSUME NEW c \in Clients, SendAddress(c) \/ SendValue(c)
      PROVE  UNCHANGED <<mem, call, ~(ecst = "idle" /\ ibf.port = "none")>>
  <2>1. ecst # "idle"
    BY <1>3 DEF SendAddress, SendValue, InStep, AddressState
  <2> QED
    BY <1>3, <2>1 DEF SendAddress, SendValue, SendByte, history
<1>4. ASSUME NEW c \in Clients,
             Begin(c) \/ RequestPorts(c) \/ Poll(c) \/ ReceiveData(c) \/ ReleasePorts(c)
      PROVE  UNCHANGED <<mem, call, ~(ecst = "idle" /\ ibf.port = "none")>>
  BY <1>4 DEF Begin, RequestPorts, Poll, PollReady, PollBusy, PollTimeout, ReceiveData,
              ReleasePorts, ecVars, history
<1>5. CASE UNCHANGED vars
  BY <1>5 DEF vars, ecVars, history
<1> QED
  BY <1>1, <1>2, <1>3, <1>4, <1>5 DEF Next, ClientStep, Run, Transfer

\* The bus of EcBus implements the register file of EcRegisters: what the run shows for
\* two clients holds for any number, any jobs and any timeout.
THEOREM BusImplementsRegisters ==
    ASSUME Unlocked = {}, ~MayRefuse
    PROVE  Spec => RegistersSpec
<1>1. Init => Registers!Init
  BY TypeInvInit DEF Init, TypeInv, TypeOK, Registers!Init, Registers!Call, Call, Empty
<1>2. BusInv /\ BusInv' /\ [Next]_vars
        => [Registers!Next]_<<mem, call, ~(ecst = "idle" /\ ibf.port = "none")>>
  BY RegistersStep
<1> QED
  BY <1>1, <1>2, BusCorrect, PTL DEF Spec, RegistersSpec, Registers!Spec

----------------------------------------------------------------------------
\* Jobs are whole.  What a register will hold when the job of the client inside ends:
\* what a call still to be made writes to it, or else the byte on its way to it, or else
\* what it holds.
Calls(s) == {s[i] : i \in DOMAIN s}

Todo == IF region = NoClient THEN {} ELSE Calls(job[region])

Written(S, r) == \E k \in S : k.op = "write" /\ k.addr = r

OneValueEach(S) ==
    \A k, l \in S : k.op = "write" /\ l.op = "write" /\ k.addr = l.addr => k.val = l.val

Latest(r) == IF ibf.port = "D" /\ ecst = "wdata" /\ eaddr = r THEN ibf.byte ELSE mem[r]

Ends(r, v) == WriteCall(r, v) \in Todo \/ (~Written(Todo, r) /\ Latest(r) = v)

EndTogether(r, s) == \A v \in Byte : Ends(r, v) <=> Ends(s, v)

FansEndTogether ==
    /\ EndTogether(DEVICE_FAN1_PWM, DEVICE_FAN2_PWM)
    /\ EndTogether(DEVICE_FAN3_PWM, DEVICE_FAN4_PWM)
    /\ EndTogether(DEVICE_FAN1_MODE, DEVICE_FAN2_MODE)
    /\ EndTogether(DEVICE_FAN3_MODE, DEVICE_FAN4_MODE)

WatchdogEndsInRange ==
    \A m, l \in Byte :
        Ends(EC_IT55_WDT_SWITCH, 1) /\ Ends(EC_IT55_WDT_TIME_MSB, m)
          /\ Ends(EC_IT55_WDT_TIME_LSB, l)
        => 256 * m + l \in MIN_TIMEOUT..MAX_TIMEOUT

JobPlaces ==
    \A c \in Clients : /\ pc[c] = "request" => job[c] \in Jobs[c]
                       /\ pc[c] = "release" => job[c] = <<>>

\* Within a job the bytes of a pair need not agree in the registers: what stays true at
\* every step is where the job is heading.
WholeInv ==
    /\ BusInv
    /\ JobPlaces
    /\ OneValueEach(Todo)
    /\ ~failed => FansEndTogether /\ WatchdogEndsInRange

\* The calls of a list are its first call and those of its rest.
LEMMA CallsHeadTail ==
    ASSUME NEW s \in Seq(Call), s # <<>>
    PROVE  Calls(s) = {Head(s)} \cup Calls(Tail(s)) /\ Calls(s) \subseteq Call
<1>1. /\ Len(s) \in Nat /\ Len(s) # 0 /\ DOMAIN s = 1..Len(s)
      /\ Head(s) = s[1] /\ DOMAIN Tail(s) = 1..(Len(s) - 1)
      /\ \A i \in 1..(Len(s) - 1) : Tail(s)[i] = s[i + 1]
      /\ \A i \in 1..Len(s) : s[i] \in Call
  BY HeadTailProperties, EmptySeq, LenProperties, ElementOfSeq
<1>2. ASSUME NEW i \in 1..Len(s) PROVE s[i] \in {Head(s)} \cup Calls(Tail(s))
  <2>1. CASE i # 1
    <3>1. i - 1 \in 1..(Len(s) - 1) /\ (i - 1) + 1 = i
      BY <1>1, <2>1
    <3> QED
      BY <1>1, <3>1 DEF Calls
  <2> QED
    BY <1>1, <2>1
<1>3. ASSUME NEW i \in 1..(Len(s) - 1) PROVE Tail(s)[i] \in Calls(s)
  <2>1. i + 1 \in 1..Len(s)
    BY <1>1
  <2> QED
    BY <1>1, <2>1 DEF Calls
<1>4. Calls(s) \subseteq {Head(s)} \cup Calls(Tail(s))
  BY <1>1, <1>2 DEF Calls
<1>5. Calls(Tail(s)) \subseteq Calls(s)
  BY <1>1, <1>3 DEF Calls
<1>6. Head(s) \in Calls(s)
  BY <1>1 DEF Calls
<1> QED
  BY <1>1, <1>4, <1>5, <1>6 DEF Calls

\* The client inside is the one whose calls are to be made.
LEMMA TodoOfInside ==
    ASSUME BusInv, NEW c \in Clients, pc[c] \in Inside
    PROVE  region = c /\ Todo = Calls(job[c])
  BY ClientsAssumption DEF BusInv, HoldsPorts, Todo

\* A call that ends, done or timed out, is no longer to be made; the others are.
LEMMA EndCallTodo ==
    ASSUME BusInv, JobPlaces, NEW c \in Clients, pc[c] \in Inside \ {"release"}, EndCall(c),
           region' = region
    PROVE  /\ Todo = {Head(job[c])} \cup Todo' /\ Head(job[c]) \in Call
           /\ Todo \subseteq Call
           /\ JobPlaces'
<1>1. job[c] \in Seq(Call) /\ job[c] # <<>>
  BY DEF BusInv, TypeInv, TypeOK, JobsPending
<1>2. Todo = Calls(job[c]) /\ region = c /\ NoClient # c
  BY TodoOfInside, ClientsAssumption
<1>3. job' = [job EXCEPT ![c] = Tail(@)] /\ job'[c] = Tail(job[c])
  BY DEF EndCall, BusInv, TypeInv, TypeOK
<1>4. Todo' = Calls(Tail(job[c]))
  BY <1>2, <1>3 DEF Todo, Calls
<1>5. JobPlaces'
  <2> SUFFICES ASSUME NEW d \in Clients
               PROVE  /\ pc'[d] = "request" => job'[d] \in Jobs[d]
                      /\ pc'[d] = "release" => job'[d] = <<>>
    BY DEF JobPlaces
  <2>1. CASE d # c
    BY <1>3, <2>1 DEF EndCall, Goto, JobPlaces, BusInv, TypeInv, TypeOK
  <2>2. CASE d = c
    <3>1. pc'[c] = IF Len(job[c]) = 1 THEN "release" ELSE "waitCmd"
      BY DEF EndCall, Goto, BusInv, TypeInv, TypeOK
    <3>2. Len(job[c]) = 1 => Tail(job[c]) = <<>>
      <4>1. Tail(job[c]) \in Seq(Call) /\ Len(Tail(job[c])) = Len(job[c]) - 1
        BY <1>1, HeadTailProperties
      <4>2. Len(job[c]) = 1 => Len(Tail(job[c])) = 0
        BY <4>1
      <4> QED
        BY <4>1, <4>2, EmptySeq
    <3> QED
      BY <1>3, <2>2, <3>1, <3>2
  <2> QED
    BY <2>1, <2>2
<1> QED
  BY <1>1, <1>2, <1>4, <1>5, CallsHeadTail

\* A step that leaves the job's destination where it was.
DestinationKept ==
    /\ JobPlaces'
    /\ OneValueEach(Todo)'
    /\ ~failed' => ~failed /\ \A r, v \in Byte : Ends(r, v)' <=> Ends(r, v)

\* The calls to be made and the bytes under way may change hands, not meaning.
LEMMA SameDestination ==
    ASSUME WholeInv, JobPlaces', Todo' = Todo, failed' = failed,
           \A r \in Byte : Latest(r)' = Latest(r)
    PROVE  DestinationKept
<1>1. OneValueEach(Todo)'
  BY DEF WholeInv, OneValueEach
<1>2. ASSUME NEW r \in Byte, NEW v \in Byte PROVE Ends(r, v)' <=> Ends(r, v)
  BY <1>2 DEF Ends, Written
<1> QED
  BY <1>1, <1>2 DEF DestinationKept

\* The EC takes a byte: the value of a write goes from the buffer to its register.
LEMMA EcTakeKeepsDestination == WholeInv /\ EcTake => DestinationKept
<1> SUFFICES ASSUME WholeInv, EcTake PROVE DestinationKept
  OBVIOUS
<1>1. UNCHANGED <<region, pc, job, failed>> /\ ibf'.port = "none"
  BY DEF EcTake, clientVars, history, Empty
<1>2. JobPlaces' /\ Todo' = Todo
  BY <1>1 DEF WholeInv, JobPlaces, Todo, Calls
<1>3. ASSUME NEW r \in Byte PROVE Latest(r)' = Latest(r)
  BY <1>1 DEF EcTake, EcCommand, EcReadAddress, EcWriteAddress, EcWriteValue, EcStrayByte,
              Latest, WholeInv, BusInv, TypeInv, TypeOK
<1> QED
  BY <1>1, <1>2, <1>3, SameDestination

\* A client polls, sends a command or an address, starts a job or gives the ports back.
LEMMA PassingKeepsDestination ==
    ASSUME WholeInv, Unlocked = {}, ~MayRefuse, NEW c \in Clients,
           Begin(c) \/ PollReady(c) \/ PollBusy(c) \/ SendCommand(c) \/ SendAddress(c)
             \/ ReleasePorts(c)
    PROVE  DestinationKept
<1> USE DEF WholeInv, BusInv, TypeInv, TypeOK
<1>1. failed' = failed /\ UNCHANGED <<mem, ecst, eaddr>>
  BY DEF Begin, PollReady, PollBusy, SendCommand, SendAddress, ReleasePorts, SendByte,
         ecVars, history
<1>2. ASSUME NEW r \in Byte PROVE Latest(r)' = Latest(r)
  <2>1. CASE SendCommand(c)
    BY <1>1, <2>1 DEF SendCommand, SendByte, InStep, Latest
  <2>2. CASE SendAddress(c)
    BY <1>1, <2>2 DEF SendAddress, SendByte, InStep, AddressState, Latest
  <2>3. CASE ~SendCommand(c) /\ ~SendAddress(c)
    BY <1>1, <2>3 DEF Begin, PollReady, PollBusy, ReleasePorts, Latest, ecVars
  <2> QED
    BY <2>1, <2>2, <2>3
<1>3. CASE Begin(c)
  <2>1. /\ region' = region /\ region # c /\ pc'[c] = "request" /\ job'[c] \in Jobs[c]
        /\ \A d \in Clients : d # c => job'[d] = job[d] /\ pc'[d] = pc[d]
    BY <1>3 DEF Begin, Goto, HoldsPorts, Inside, Polling
  <2>2. Todo' = Todo
    <3>1. CASE region = NoClient
      BY <2>1, <3>1 DEF Todo
    <3>2. CASE region # NoClient
      <4>1. job'[region'] = job[region] /\ region' # NoClient
        BY <2>1, <3>2
      <4> QED
        BY <3>2, <4>1 DEF Todo, Calls
    <3> QED
      BY <3>1, <3>2
  <2>3. JobPlaces'
    BY <2>1 DEF JobPlaces
  <2> QED
    BY <1>1, <1>2, <2>2, <2>3, SameDestination
<1>4. CASE ReleasePorts(c)
  <2>1. /\ region = c /\ region' = NoClient /\ job' = job /\ pc'[c] = "idle"
        /\ \A d \in Clients : d # c => pc'[d] = pc[d]
    BY <1>4, TodoOfInside DEF ReleasePorts, Goto, Inside
  <2>2. job[c] = <<>>
    BY <1>4 DEF ReleasePorts, JobPlaces
  <2>3. Todo = {} /\ Todo' = {}
    BY <2>1, <2>2, ClientsAssumption DEF Todo, Calls
  <2>4. JobPlaces'
    BY <2>1 DEF JobPlaces
  <2> QED
    BY <1>1, <1>2, <2>3, <2>4, SameDestination
<1>5. CASE PollReady(c) \/ PollBusy(c) \/ SendCommand(c) \/ SendAddress(c)
  <2>1. /\ region' = region /\ job' = job /\ pc'[c] \notin {"request", "release"}
        /\ \A d \in Clients : d # c => pc'[d] = pc[d]
    BY <1>5
    DEF PollReady, PollBusy, SendCommand, SendAddress, Goto, AfterWait, Polling, history
  <2>2. JobPlaces' /\ Todo' = Todo
    BY <2>1 DEF JobPlaces, Todo, Calls
  <2> QED
    BY <1>1, <1>2, <2>2, SameDestination
<1> QED
  BY <1>3, <1>4, <1>5

\* The last byte of a call: a value goes from the job to the buffer, an answer from the EC
\* to the client.
LEMMA LastByteKeepsDestination ==
    ASSUME WholeInv, NEW c \in Clients, SendValue(c) \/ ReceiveData(c)
    PROVE  DestinationKept
<1> USE DEF WholeInv, BusInv, TypeInv, TypeOK
<1>1. /\ pc[c] \in {"outVal", "inByte"} /\ EndCall(c) /\ failed' = failed
      /\ UNCHANGED <<region, mem, ecst, eaddr, call>>
  BY DEF SendValue, ReceiveData, SendByte, history
<1>2. /\ Todo = {Head(job[c])} \cup Todo' /\ Head(job[c]) \in Call /\ Todo \subseteq Call
      /\ JobPlaces'
  BY <1>1, EndCallTodo DEF Inside
<1>3. OneValueEach(Todo)'
  BY <1>2 DEF OneValueEach
<1>4. CASE SendValue(c)
  <2> DEFINE k == Head(job[c])
  <2>1. /\ k.op = "write" /\ ibf.port = "none" /\ ecst = "wdata" /\ eaddr = k.addr
        /\ ibf' = [port |-> "D", byte |-> k.val]
    BY <1>4 DEF SendValue, SendByte, InStep, BusBelongsToCall
  <2>2. k = WriteCall(k.addr, k.val)
    BY <1>2, <2>1 DEF Call, WriteCall
  <2>3. ASSUME NEW r \in Byte, NEW v \in Byte PROVE Ends(r, v)' <=> Ends(r, v)
    <3>1. CASE r # k.addr
      <4>1. Latest(r)' = Latest(r)
        BY <1>1, <2>1, <3>1 DEF Latest
      <4>2. WriteCall(r, v) # k
        BY <3>1 DEF WriteCall
      <4>3. Written(Todo', r) <=> Written(Todo, r)
        BY <1>2, <3>1 DEF Written
      <4> QED
        BY <1>2, <4>1, <4>2, <4>3 DEF Ends, Written
    <3>2. CASE r = k.addr
      <4>1. Latest(r)' = k.val
        BY <1>1, <2>1, <3>2 DEF Latest
      <4>2. \A l \in Todo : l.op = "write" /\ l.addr = r => l.val = k.val
        BY <1>2, <2>1, <3>2 DEF OneValueEach
      <4>3. Ends(r, v) <=> v = k.val
        <5>1. Written(Todo, r)
          BY <1>2, <2>1, <3>2 DEF Written
        <5>2. WriteCall(r, v) \in Todo => v = k.val
          BY <4>2 DEF WriteCall
        <5> QED
          BY <1>2, <2>2, <3>2, <5>1, <5>2 DEF Ends
      <4>4. Ends(r, v)' <=> v = k.val
        <5> Todo' \subseteq Todo /\ Todo \subseteq Call
          BY <1>2
        <5>1. WriteCall(r, v) \in Todo' => v = k.val
          BY <4>2 DEF WriteCall
        <5>2. Written(Todo', r) => k \in Todo'
          <6> SUFFICES ASSUME NEW l \in Todo', l.op = "write", l.addr = r PROVE l = k
            BY DEF Written
          <6>1. l \in Call /\ k \in Call /\ l.val = k.val
            BY <1>2, <4>2
          <6>2. l = WriteCall(r, k.val)
            BY <6>1 DEF Call, WriteCall
          <6> QED
            BY <2>2, <3>2, <6>2
        <5> QED
          BY <2>2, <3>2, <4>1, <5>1, <5>2 DEF Ends, Written
      <4> QED
        BY <4>3, <4>4
    <3> QED
      BY <3>1, <3>2
  <2> QED
    BY <1>1, <1>2, <1>3, <2>3 DEF DestinationKept
<1>5. CASE ReceiveData(c)
  <2>1. Head(job[c]).op = "read" /\ ibf' = ibf
    BY <1>5 DEF ReceiveData, InStep
  <2>2. ASSUME NEW r \in Byte, NEW v \in Byte PROVE Ends(r, v)' <=> Ends(r, v)
    <3>1. Latest(r)' = Latest(r)
      BY <1>1, <2>1 DEF Latest
    <3>2. Written(Todo', r) <=> Written(Todo, r)
      BY <1>2, <2>1 DEF Written
    <3>3. WriteCall(r, v) # Head(job[c])
      BY <2>1 DEF WriteCall
    <3> QED
      BY <1>2, <3>1, <3>2, <3>3 DEF Ends, Written
  <2> QED
    BY <1>1, <1>2, <1>3, <2>2 DEF DestinationKept
<1> QED
  BY <1>4, <1>5

\* After a call that timed out nothing is promised.
LEMMA TimeoutKeepsDestination ==
    ASSUME WholeInv, NEW c \in Clients, PollTimeout(c)
    PROVE  DestinationKept
<1>1. pc[c] \in Inside \ {"release"} /\ EndCall(c) /\ region' = region /\ failed'
  BY DEF PollTimeout, Inside, Polling
<1>2. Todo' \subseteq Todo /\ JobPlaces'
  BY <1>1, EndCallTodo DEF WholeInv
<1>3. OneValueEach(Todo)'
  BY <1>2 DEF WholeInv, OneValueEach
<1> QED
  BY <1>1, <1>2, <1>3 DEF DestinationKept

\* What JobsWhole needs of a job: its pairs get the same bytes, and a watchdog it starts
\* gets both bytes of a timeout in the range.
WrittenAlike(S, r, s) ==
    /\ Written(S, r) <=> Written(S, s)
    /\ \A v \in Byte : WriteCall(r, v) \in S <=> WriteCall(s, v) \in S

TimeoutInRange(S) ==
    /\ Written(S, EC_IT55_WDT_TIME_MSB) /\ Written(S, EC_IT55_WDT_TIME_LSB)
    /\ \A m, l \in Byte :
        WriteCall(EC_IT55_WDT_TIME_MSB, m) \in S /\ WriteCall(EC_IT55_WDT_TIME_LSB, l) \in S
        => 256 * m + l \in MIN_TIMEOUT..MAX_TIMEOUT

TimeoutUntouched(S) ==
    /\ ~Written(S, EC_IT55_WDT_TIME_MSB) /\ ~Written(S, EC_IT55_WDT_TIME_LSB)
    /\ WriteCall(EC_IT55_WDT_SWITCH, 1) \notin S

WholeJob(S) ==
    /\ OneValueEach(S)
    /\ WrittenAlike(S, DEVICE_FAN1_PWM, DEVICE_FAN2_PWM)
    /\ WrittenAlike(S, DEVICE_FAN3_PWM, DEVICE_FAN4_PWM)
    /\ WrittenAlike(S, DEVICE_FAN1_MODE, DEVICE_FAN2_MODE)
    /\ WrittenAlike(S, DEVICE_FAN3_MODE, DEVICE_FAN4_MODE)
    /\ TimeoutInRange(S) \/ TimeoutUntouched(S)

\* A set of calls that writes none of the registers of JobsWhole but for the switch of the
\* watchdog, which it turns off.
LEMMA OtherRegistersWhole ==
    ASSUME NEW S, OneValueEach(S),
           \A k \in S : k.op = "write" => \/ k.addr \notin GroupedRegisters
                                          \/ k.addr = EC_IT55_WDT_SWITCH /\ k.val = 0
    PROVE  WholeJob(S)
<1>1. ASSUME NEW r \in GroupedRegisters \ {EC_IT55_WDT_SWITCH}
      PROVE  ~Written(S, r) /\ \A v \in Byte : WriteCall(r, v) \notin S
  BY DEF Written, WriteCall
<1>2. WriteCall(EC_IT55_WDT_SWITCH, 1) \notin S
  BY DEF WriteCall, GroupedRegisters
<1> USE DEF DEVICE_FAN1_MODE, DEVICE_FAN1_PWM, DEVICE_FAN2_MODE, DEVICE_FAN2_PWM,
            DEVICE_FAN3_MODE, DEVICE_FAN3_PWM, DEVICE_FAN4_MODE, DEVICE_FAN4_PWM,
            EC_IT55_WDT_SWITCH, EC_IT55_WDT_TIME_MSB, EC_IT55_WDT_TIME_LSB
<1>3. {176, 177, 178, 179, 180, 181, 182, 183, 162, 163}
        \subseteq GroupedRegisters \ {EC_IT55_WDT_SWITCH}
  BY DEF GroupedRegisters
<1> QED
  BY <1>1, <1>2, <1>3 DEF WholeJob, WrittenAlike, TimeoutUntouched

\* The calls of a list written out.
LEMMA CallsOf1 == ASSUME NEW a PROVE Calls(<<a>>) = {a}
  BY DEF Calls

LEMMA CallsOf2 == ASSUME NEW a, NEW b PROVE Calls(<<a, b>>) = {a, b}
  BY DEF Calls

LEMMA CallsOf3 == ASSUME NEW a, NEW b, NEW c PROVE Calls(<<a, b>> \o <<c>>) = {a, b, c}
  BY DEF Calls

LEMMA CallsOf4 == ASSUME NEW a, NEW b, NEW c, NEW d PROVE Calls(<<a, b, c, d>>) = {a, b, c, d}
  BY DEF Calls

\* fan_write sets both fans of a group.
LEMMA FanJobsWhole ==
    ASSUME NEW pwm
    PROVE  WholeJob(Calls(set_sys_fan(pwm))) /\ WholeJob(Calls(set_cpu_fan(pwm)))
<1> USE DEF DEVICE_FAN1_MODE, DEVICE_FAN1_PWM, DEVICE_FAN2_MODE, DEVICE_FAN2_PWM,
            DEVICE_FAN3_MODE, DEVICE_FAN3_PWM, DEVICE_FAN4_MODE, DEVICE_FAN4_PWM,
            EC_IT55_WDT_SWITCH, EC_IT55_WDT_TIME_MSB, EC_IT55_WDT_TIME_LSB
<1>1. ASSUME NEW a \in Nat, NEW w, a = 176 \/ a = 180,
             NEW S, S = {WriteCall(a, 1), WriteCall(a + 1, w), WriteCall(a + 2, 1),
                         WriteCall(a + 3, w)}
      PROVE  WholeJob(S)
  <2>1. OneValueEach(S)
    BY <1>1 DEF OneValueEach, WriteCall
  <2>2. ASSUME NEW r \in Nat, NEW v
        PROVE  WriteCall(r, v) \in S <=> \/ r \in {a, a + 2} /\ v = 1
                                         \/ r \in {a + 1, a + 3} /\ v = w
    BY <1>1 DEF WriteCall
  <2>3. ASSUME NEW r \in Nat PROVE Written(S, r) <=> r \in {a, a + 1, a + 2, a + 3}
    BY <1>1 DEF Written, WriteCall
  <2>4. WrittenAlike(S, 177, 179) /\ WrittenAlike(S, 181, 183)
        /\ WrittenAlike(S, 176, 178) /\ WrittenAlike(S, 180, 182)
    BY <1>1, <2>2, <2>3 DEF WrittenAlike
  <2>5. TimeoutUntouched(S)
    BY <1>1, <2>2, <2>3 DEF TimeoutUntouched
  <2> QED
    BY <2>1, <2>4, <2>5 DEF WholeJob
<1>2. Calls(set_cpu_fan(pwm)) = {WriteCall(176, 1), WriteCall(177, Clamp(pwm)),
                                 WriteCall(178, 1), WriteCall(179, Clamp(pwm))}
  BY CallsOf4 DEF set_cpu_fan
<1>3. Calls(set_sys_fan(pwm)) = {WriteCall(180, 1), WriteCall(181, Clamp(pwm)),
                                 WriteCall(182, 1), WriteCall(183, Clamp(pwm))}
  BY CallsOf4 DEF set_sys_fan
<1>4. WholeJob(Calls(set_cpu_fan(pwm)))
  <2> 176 \in Nat /\ 176 + 1 = 177 /\ 176 + 2 = 178 /\ 176 + 3 = 179
    OBVIOUS
  <2> QED
    BY <1>1, <1>2
<1>5. WholeJob(Calls(set_sys_fan(pwm)))
  <2> 180 \in Nat /\ 180 + 1 = 181 /\ 180 + 2 = 182 /\ 180 + 3 = 183
    OBVIOUS
  <2> QED
    BY <1>1, <1>3
<1> QED
  BY <1>4, <1>5

\* wdt_start writes both bytes of the timeout and then the switch.
LEMMA WatchdogJobWhole ==
    ASSUME NEW t \in MIN_TIMEOUT..MAX_TIMEOUT
    PROVE  WholeJob(Calls(wdt_start(t)))
<1> DEFINE S == {WriteCall(162, MSB(t)), WriteCall(163, LSB(t)), WriteCall(152, 1)}
<1>1. Calls(wdt_start(t)) = S
  BY CallsOf3
  DEF wdt_start, wdt_update, EC_IT55_WDT_SWITCH, EC_IT55_WDT_TIME_MSB, EC_IT55_WDT_TIME_LSB
<1>2. OneValueEach(S)
  BY DEF OneValueEach, WriteCall
<1>3. ASSUME NEW r \in Nat
      PROVE  /\ Written(S, r) <=> r \in {152, 162, 163}
             /\ \A v : WriteCall(r, v) \in S => r \in {152, 162, 163}
  BY DEF Written, WriteCall
<1>4. \A m : WriteCall(162, m) \in S => m = MSB(t)
  BY DEF WriteCall
<1>5. \A l : WriteCall(163, l) \in S => l = LSB(t)
  BY DEF WriteCall
<1>6. 256 * MSB(t) + LSB(t) = t
  BY DEF MSB, LSB, MIN_TIMEOUT, MAX_TIMEOUT
<1> HIDE DEF S
<1>7. TimeoutInRange(S)
  BY <1>3, <1>4, <1>5, <1>6 DEF TimeoutInRange, EC_IT55_WDT_TIME_MSB, EC_IT55_WDT_TIME_LSB
<1>8. WholeJob(S)
  BY <1>2, <1>3, <1>7
  DEF WholeJob, WrittenAlike, DEVICE_FAN1_MODE, DEVICE_FAN1_PWM, DEVICE_FAN2_MODE,
      DEVICE_FAN2_PWM, DEVICE_FAN3_MODE, DEVICE_FAN3_PWM, DEVICE_FAN4_MODE, DEVICE_FAN4_PWM
<1> QED
  BY <1>1, <1>8

\* A job of one call, of a register JobsWhole is not about or of the watchdog's switch.
LEMMA OneCallWhole ==
    ASSUME NEW k,
           \/ k.op = "read"
           \/ k.addr \notin GroupedRegisters
           \/ k.addr = EC_IT55_WDT_SWITCH /\ k.val = 0
    PROVE  WholeJob(Calls(<<k>>))
<1>1. Calls(<<k>>) = {k}
  BY CallsOf1
<1>2. OneValueEach({k})
  BY DEF OneValueEach
<1> QED
  BY <1>1, <1>2, OtherRegistersWhole

\* Every job of the functions is whole.
LEMMA FunctionJobsWhole == \A j \in FunctionJobs : WholeJob(Calls(j))
<1> USE DEF GroupedRegisters, WriteCall, ReadCall,
            DEVICE_FAN1_MODE, DEVICE_FAN1_PWM, DEVICE_FAN2_MODE, DEVICE_FAN2_PWM,
            DEVICE_FAN3_MODE, DEVICE_FAN3_PWM, DEVICE_FAN4_MODE, DEVICE_FAN4_PWM,
            EC_IT55_WDT_SWITCH, EC_IT55_WDT_TIME_MSB, EC_IT55_WDT_TIME_LSB
<1>1. ASSUME NEW level PROVE WholeJob(Calls(pwr_write(level)))
  <2> DEFINE S == {WriteCall(160, 1), WriteCall(161, level)}
  <2>1. Calls(pwr_write(level)) = S
    BY CallsOf2 DEF pwr_write, EC_PWR_ENABLE, EC_PWR_VALUE
  <2>2. OneValueEach(S) /\ \A k \in S : k.addr \notin GroupedRegisters
    BY DEF OneValueEach
  <2> QED
    BY ONLY <2>1, <2>2, OtherRegistersWhole
<1>2. ASSUME NEW text PROVE WholeJob(Calls(g3wakeup_write(text)))
  BY OneCallWhole DEF g3wakeup_write, G3_WAKEUP_ADR
<1>3. ASSUME NEW text PROVE WholeJob(Calls(lanwakeup_write(text)))
  BY OneCallWhole DEF lanwakeup_write, LAN_WAKEUP_ADR
<1>4. WholeJob(Calls(fan_read))
  BY OtherRegistersWhole DEF fan_read, Calls, OneValueEach
<1>5. WholeJob(Calls(pwr_read)) /\ WholeJob(Calls(g3wakeup_read))
      /\ WholeJob(Calls(lanwakeup_read))
  BY OneCallWhole DEF pwr_read, g3wakeup_read, lanwakeup_read
<1>6. WholeJob(Calls(wdt_stop))
  BY OneCallWhole DEF wdt_stop
<1>7. ASSUME NEW b PROVE WholeJob(Calls(mipi_backlight_update_status(b)))
  BY OneCallWhole DEF mipi_backlight_update_status, BKLT_PWM_Value
<1> QED
  BY ONLY <1>1, <1>2, <1>3, <1>4, <1>5, <1>6, <1>7, FanJobsWhole, WatchdogJobWhole
  DEF FunctionJobs

\* A job that gets the ports moves the destination of the registers it writes: of both of
\* a pair, to the same value.
LEMMA RequestKeepsWhole ==
    ASSUME WholeInv, Unlocked = {}, ~MayRefuse, NEW c \in Clients, RequestPorts(c)
    PROVE  /\ JobPlaces'
           /\ OneValueEach(Todo)'
           /\ ~failed' => (FansEndTogether /\ WatchdogEndsInRange)'
<1> DEFINE S == Calls(job[c])
<1>1. /\ pc[c] = "request" /\ region = NoClient /\ region' = c /\ job' = job
      /\ pc' = [pc EXCEPT ![c] = "waitCmd"]
      /\ UNCHANGED <<mem, ibf, ecst, eaddr, failed>>
  BY DEF RequestPorts, Goto, ecVars, history
<1>2. JobPlaces'
  BY <1>1 DEF WholeInv, JobPlaces, BusInv, TypeInv, TypeOK
<1>3. WholeJob(S)
  BY <1>1, FunctionsAssumption, FunctionJobsWhole DEF WholeInv, JobPlaces
<1>4. Todo = {} /\ Todo' = S
  BY <1>1, ClientsAssumption DEF Todo, Calls
<1> HIDE DEF S
<1>5. OneValueEach(Todo)'
  BY <1>3, <1>4 DEF WholeJob, OneValueEach
<1>6. \A r, v : Ends(r, v) <=> Latest(r) = v
  BY <1>4 DEF Ends, Written
<1>7. \A r : Latest(r)' = Latest(r)
  BY <1>1 DEF Latest
<1>8. ASSUME NEW r, NEW v
      PROVE  Ends(r, v)' <=> WriteCall(r, v) \in S \/ (~Written(S, r) /\ Ends(r, v))
  BY <1>4, <1>6, <1>7 DEF Ends, Written
<1>9. ASSUME NEW r, NEW s, EndTogether(r, s), WrittenAlike(S, r, s) PROVE EndTogether(r, s)'
  BY <1>8, <1>9 DEF EndTogether, WrittenAlike
<1>10. FansEndTogether => FansEndTogether'
  BY <1>3, <1>9 DEF FansEndTogether, WholeJob
<1>11. WatchdogEndsInRange => WatchdogEndsInRange'
  <2>1. CASE TimeoutInRange(S)
    BY <1>8, <2>1 DEF WatchdogEndsInRange, TimeoutInRange
  <2>2. CASE TimeoutUntouched(S)
    <3> SUFFICES ASSUME WatchdogEndsInRange, NEW m \in Byte, NEW l \in Byte,
                        Ends(EC_IT55_WDT_SWITCH, 1)', Ends(EC_IT55_WDT_TIME_MSB, m)',
                        Ends(EC_IT55_WDT_TIME_LSB, l)'
                 PROVE  256 * m + l \in MIN_TIMEOUT..MAX_TIMEOUT
      BY DEF WatchdogEndsInRange
    <3>1. Ends(EC_IT55_WDT_SWITCH, 1)
      BY <1>8, <2>2 DEF TimeoutUntouched
    <3>2. Ends(EC_IT55_WDT_TIME_MSB, m) /\ Ends(EC_IT55_WDT_TIME_LSB, l)
      <4>1. ASSUME NEW r, NEW v PROVE WriteCall(r, v) \in S => Written(S, r)
        BY DEF Written, WriteCall
      <4> QED
        BY <1>8, <2>2, <4>1 DEF TimeoutUntouched
    <3> QED
      BY <3>1, <3>2 DEF WatchdogEndsInRange
  <2> QED
    BY <1>3, <2>1, <2>2 DEF WholeJob
<1> QED
  BY <1>1, <1>2, <1>5, <1>10, <1>11 DEF WholeInv

\* What each of the other steps shows is enough.
LEMMA DestinationKeepsWhole ==
    ASSUME WholeInv, BusInv', DestinationKept
    PROVE  WholeInv'
<1>1. GroupedRegisters \subseteq Byte /\ 1 \in Byte
  BY FunctionsAssumption
<1>2. ASSUME ~failed', NEW r \in Byte, NEW s \in Byte, EndTogether(r, s)
      PROVE  EndTogether(r, s)'
  BY <1>2 DEF DestinationKept, EndTogether
<1>3. ASSUME ~failed' PROVE FansEndTogether'
  <2>1. FansEndTogether
    BY <1>3 DEF DestinationKept, WholeInv
  <2> QED
    BY <1>1, <1>2, <1>3, <2>1 DEF FansEndTogether, GroupedRegisters
<1>4. ASSUME ~failed' PROVE WatchdogEndsInRange'
  <2>1. WatchdogEndsInRange
    BY <1>4 DEF DestinationKept, WholeInv
  <2> QED
    BY <1>1, <1>4, <2>1 DEF DestinationKept, WatchdogEndsInRange, GroupedRegisters
<1> QED
  BY <1>3, <1>4 DEF DestinationKept, WholeInv

LEMMA WholeInvStep ==
    ASSUME Unlocked = {}, ~MayRefuse, WholeInv, [Next]_vars
    PROVE  WholeInv'
<1>1. BusInv'
  BY BusInvStep DEF WholeInv
<1>2. CASE UNCHANGED vars
  <2>1. DestinationKept
    <3>1. Todo' = Todo /\ JobPlaces' /\ failed' = failed
      BY <1>2 DEF vars, clientVars, history, Todo, Calls, WholeInv, JobPlaces
    <3>2. \A r \in Byte : Latest(r)' = Latest(r)
      BY <1>2 DEF vars, ecVars, Latest
    <3> QED
      BY <3>1, <3>2, SameDestination
  <2> QED
    BY <1>1, <2>1, DestinationKeepsWhole
<1>3. CASE EcTake
  BY <1>1, <1>3, EcTakeKeepsDestination, DestinationKeepsWhole
<1>4. ASSUME NEW c \in Clients, RequestPorts(c) PROVE WholeInv'
  BY <1>1, <1>4, RequestKeepsWhole DEF WholeInv
<1>5. ASSUME NEW c \in Clients, ClientStep(c), ~RequestPorts(c) PROVE WholeInv'
  BY <1>1, <1>5, PassingKeepsDestination, LastByteKeepsDestination, TimeoutKeepsDestination,
     DestinationKeepsWhole
  DEF ClientStep, Run, Poll, Transfer
<1> QED
  BY <1>2, <1>3, <1>4, <1>5 DEF Next

LEMMA WholeInvInit == Init => WholeInv
<1> SUFFICES ASSUME Init PROVE WholeInv
  OBVIOUS
<1>1. BusInv
  BY BusInvInit
<1>2. JobPlaces
  BY DEF Init, JobPlaces
<1>3. Todo = {} /\ OneValueEach(Todo)
  BY DEF Init, Todo, OneValueEach
<1>4. ASSUME NEW r \in Byte, NEW v \in Byte PROVE Ends(r, v) <=> v = 0
  BY <1>3 DEF Init, Ends, Written, Latest, Empty
<1>5. GroupedRegisters \subseteq Byte /\ 1 \in Byte
  BY FunctionsAssumption
<1>6. FansEndTogether
  BY <1>4, <1>5 DEF FansEndTogether, EndTogether, GroupedRegisters
<1>7. WatchdogEndsInRange
  BY <1>4, <1>5 DEF WatchdogEndsInRange, GroupedRegisters
<1> QED
  BY <1>1, <1>2, <1>3, <1>6, <1>7 DEF WholeInv

\* A job of several calls is whole when nobody is on the ports, for every number of clients
\* that run the functions' jobs and every timeout, as long as every client gets the region:
\* both fans of a group agree, and a running watchdog holds a timeout in the range.
THEOREM JobsAreWhole ==
    ASSUME Unlocked = {}, ~MayRefuse
    PROVE  Spec => []JobsWhole
<1>1. WholeInv /\ [Next]_vars => WholeInv'
  BY WholeInvStep
<1>2. ASSUME WholeInv, Quiet, ~failed
      PROVE  \A r \in Byte, v \in Byte : Ends(r, v) <=> mem[r] = v
  BY <1>2 DEF Quiet, Ends, Todo, Written, Latest
<1>3. ASSUME WholeInv PROVE JobsWhole
  <2> SUFFICES ASSUME Quiet, ~failed
               PROVE  /\ mem[DEVICE_FAN1_PWM] = mem[DEVICE_FAN2_PWM]
                      /\ mem[DEVICE_FAN3_PWM] = mem[DEVICE_FAN4_PWM]
                      /\ mem[DEVICE_FAN1_MODE] = mem[DEVICE_FAN2_MODE]
                      /\ mem[DEVICE_FAN3_MODE] = mem[DEVICE_FAN4_MODE]
                      /\ mem[EC_IT55_WDT_SWITCH] = 1 => WdtTime \in MIN_TIMEOUT..MAX_TIMEOUT
    BY DEF JobsWhole
  <2>1. GroupedRegisters \subseteq Byte /\ 1 \in Byte /\ \A r \in Byte : mem[r] \in Byte
    BY <1>3, FunctionsAssumption DEF WholeInv, BusInv, TypeInv, TypeOK
  <2>2. FansEndTogether /\ WatchdogEndsInRange
    BY <1>3 DEF WholeInv
  <2>3. ASSUME NEW r \in Byte, NEW s \in Byte, EndTogether(r, s) PROVE mem[r] = mem[s]
    BY <1>2, <1>3, <2>1, <2>3 DEF EndTogether
  <2>4. mem[EC_IT55_WDT_SWITCH] = 1 => WdtTime \in MIN_TIMEOUT..MAX_TIMEOUT
    BY <1>2, <1>3, <2>1, <2>2 DEF WatchdogEndsInRange, WdtTime, GroupedRegisters
  <2> QED
    BY <2>1, <2>2, <2>3, <2>4 DEF FansEndTogether, GroupedRegisters
<1> QED
  BY <1>1, <1>3, WholeInvInit, PTL DEF Spec

----------------------------------------------------------------------------
\* Jobs are carried out in order.

OrderInv == BusInv /\ JobPlaces /\ (abandoned => failed)

LEMMA JobPlacesStep ==
    ASSUME Unlocked = {}, ~MayRefuse, BusInv, JobPlaces, [Next]_vars
    PROVE  JobPlaces'
<1> USE DEF BusInv, TypeInv, TypeOK
<1>1. CASE EcTake \/ UNCHANGED vars
  BY <1>1 DEF EcTake, vars, clientVars, JobPlaces
<1>2. ASSUME NEW c \in Clients, Begin(c) PROVE JobPlaces'
  BY <1>2 DEF Begin, Goto, JobPlaces
<1>3. ASSUME NEW c \in Clients, RequestPorts(c) \/ ReleasePorts(c) PROVE JobPlaces'
  BY <1>3 DEF RequestPorts, ReleasePorts, Goto, JobPlaces
<1>4. ASSUME NEW c \in Clients,
             PollReady(c) \/ PollBusy(c) \/ SendCommand(c) \/ SendAddress(c)
      PROVE  JobPlaces'
  <2>1. /\ job' = job /\ pc'[c] \notin {"request", "release"}
        /\ \A d \in Clients : d # c => pc'[d] = pc[d]
    BY <1>4
    DEF PollReady, PollBusy, SendCommand, SendAddress, Goto, AfterWait, Polling, history
  <2> QED
    BY <2>1 DEF JobPlaces
<1>5. ASSUME NEW c \in Clients, PollTimeout(c) \/ SendValue(c) \/ ReceiveData(c)
      PROVE  JobPlaces'
  <2>1. pc[c] \in Inside \ {"release"} /\ EndCall(c) /\ region' = region
    BY <1>5 DEF PollTimeout, SendValue, ReceiveData, Inside, Polling
  <2> QED
    BY <2>1, EndCallTodo
<1> QED
  BY <1>1, <1>2, <1>3, <1>4, <1>5 DEF Next, ClientStep, Run, Poll, Transfer

LEMMA OrderInvStep ==
    ASSUME Unlocked = {}, ~MayRefuse, OrderInv, [Next]_vars
    PROVE  OrderInv'
<1>1. BusInv' /\ JobPlaces'
  BY BusInvStep, JobPlacesStep DEF OrderInv
<1>2. (abandoned => failed)'
  BY DEF OrderInv, Next, EcTake, ClientStep, Begin, RequestPorts, Run, Poll, PollReady, PollBusy,
         PollTimeout, Transfer, SendCommand, SendAddress, SendValue, ReceiveData, ReleasePorts,
         vars, history
<1> QED
  BY <1>1, <1>2 DEF OrderInv

\* A list of calls and its first one.
LEMMA FirstCall ==
    ASSUME NEW k \in Call, NEW s \in Seq(Call)
    PROVE  /\ <<>> \o s = s /\ s \o <<>> = s
           /\ <<k>> \o s # <<>> /\ Head(<<k>> \o s) = k /\ Tail(<<k>> \o s) = s
           /\ s # <<>> => <<Head(s)>> \o Tail(s) = s
<1>1. <<k>> \in Seq(Call) /\ Len(<<k>>) = 1 /\ <<k>>[1] = k /\ Len(s) \in Nat
  OBVIOUS
<1>2. <<>> \o s = s /\ s \o <<>> = s
  BY ConcatEmptySeq
<1>3. <<k>> \o s # <<>> /\ Head(<<k>> \o s) = k /\ Tail(<<k>> \o s) = s
  BY <1>1, ConcatProperties, HeadTailProperties
<1>4. s # <<>> => <<Head(s)>> \o Tail(s) = s
  BY HeadTailProperties, ConcatProperties
<1> QED
  BY <1>2, <1>3, <1>4

Queue == Sent \o Remaining

\* Who holds the region, and what the job has left.
LEMMA RemainingOfInside ==
    ASSUME BusInv, NEW c \in Clients, pc[c] \in Inside
    PROVE  region = c /\ Remaining = IF ReadDone(c) THEN Tail(job[c]) ELSE job[c]
  BY ClientsAssumption DEF BusInv, HoldsPorts, Remaining

\* The EC takes a byte: nothing seen of it, an answer, or a write carried out.
LEMMA EcTakeInOrder ==
    ASSUME OrderInv, EcTake, ~failed
    PROVE  \/ InOrder!Read \/ InOrder!Write
           \/ UNCHANGED <<mem, odata, region, Queue, failed>>
<1> USE DEF OrderInv, BusInv, TypeInv, TypeOK
<1>1. /\ UNCHANGED <<region, pc, job, call, failed>> /\ ibf'.port = "none"
      /\ Sent' = <<>> /\ ~abandoned
  BY DEF EcTake, clientVars, history, Empty, Sent
<1>2. ASSUME ecst # "raddr" \/ ibf.port = "C" PROVE Remaining' = Remaining
  <2>1. ASSUME NEW c \in Clients PROVE ~ReadDone(c) /\ ~ReadDone(c)'
    BY <1>1, <1>2 DEF ReadDone, InStep, EcTake, EcCommand, EcReadAddress, EcWriteAddress,
                      EcWriteValue, EcStrayByte
  <2> QED
    BY <1>1, <2>1 DEF Remaining
<1>3. CASE EcCommand \/ EcWriteAddress
  <2>1. Sent = <<>> /\ UNCHANGED <<mem, odata>>
    BY <1>3 DEF EcCommand, EcWriteAddress, Sent
  <2>2. Remaining' = Remaining
    BY <1>2, <1>3 DEF EcCommand, EcWriteAddress
  <2> QED
    BY <1>1, <2>1, <2>2 DEF Queue
<1>4. CASE EcWriteValue
  <2>1. /\ Sent = <<call>> /\ call.op = "write" /\ call \in Call
        /\ mem' = [mem EXCEPT ![call.addr] = call.val] /\ odata' = odata
    BY <1>4 DEF EcWriteValue, Sent, BusBelongsToCall
  <2>2. Remaining' = Remaining
    BY <1>2, <1>4 DEF EcWriteValue
  <2>3. Remaining \in Seq(Call)
    <3>1. ASSUME NEW c \in Clients, ReadDone(c) PROVE Tail(job[c]) \in Seq(Call)
      <4>1. job[c] \in Seq(Call) /\ job[c] # <<>>
        BY <3>1 DEF ReadDone, JobsPending, Inside, Polling
      <4> QED
        BY <4>1, HeadTailProperties
    <3>2. <<>> \in Seq(Call)
      OBVIOUS
    <3> QED
      BY <3>1, <3>2 DEF Remaining
  <2>4. Queue # <<>> /\ Head(Queue) = call /\ Queue' = Tail(Queue)
    BY <1>1, <2>1, <2>2, <2>3, FirstCall DEF Queue
  <2> QED
    BY <1>1, <2>1, <2>4 DEF InOrder!Write, Queue
<1>5. CASE EcReadAddress
  <2>1. PICK c \in Clients : pc[c] \in {"waitObf", "inByte"}
    BY <1>1, <1>5 DEF EcReadAddress, AnswerIsFresh, Answering
  <2>2. /\ region = c /\ ibf.port = "D" /\ job[c] # <<>> /\ job[c] \in Seq(Call)
        /\ call = Head(job[c]) /\ call.op = "read" /\ call \in Call /\ ibf.byte = call.addr
    BY <1>5, <2>1 DEF EcReadAddress, HoldsPorts, Inside, Polling, InStep, BusBelongsToCall,
                    JobsPending
  <2>3. Sent = <<>> /\ Remaining = job[c] /\ Remaining' = Tail(job[c])
    BY <1>1, <1>5, <2>1, <2>2, ClientsAssumption DEF EcReadAddress, Sent, Remaining, ReadDone
  <2>4. Queue = job[c] /\ Queue' = Tail(job[c])
    BY <1>1, <2>2, <2>3, FirstCall, HeadTailProperties DEF Queue
  <2>5. odata' = mem[call.addr] /\ mem' = mem
    BY <1>5, <2>2 DEF EcReadAddress
  <2> QED
    BY <1>1, <2>2, <2>4, <2>5 DEF InOrder!Read, Queue
<1>6. ~EcStrayByte
  BY DEF EcStrayByte, BusBelongsToCall
<1> QED
  BY <1>3, <1>4, <1>5, <1>6 DEF EcTake

\* What a client does inside a call moves a call from its job to the buffer, or nothing.
LEMMA TransferInOrder ==
    ASSUME OrderInv, NEW c \in Clients, ~failed,
           PollReady(c) \/ PollBusy(c) \/ SendCommand(c) \/ SendAddress(c) \/ SendValue(c)
             \/ ReceiveData(c)
    PROVE  UNCHANGED <<mem, odata, region, Queue, failed>>
<1> USE DEF OrderInv, BusInv, TypeInv, TypeOK
<1>1. UNCHANGED <<mem, odata, ecst, region, failed>> /\ pc[c] \in Inside \ {"release"} /\ ~abandoned
  BY DEF PollReady, PollBusy, SendCommand, SendAddress, SendValue, ReceiveData, SendByte, ecVars,
         history, Inside, Polling
<1>2. /\ region = c /\ c # NoClient /\ job[c] \in Seq(Call) /\ job[c] # <<>>
      /\ Remaining = (IF ReadDone(c) THEN Tail(job[c]) ELSE job[c])
      /\ Remaining' = IF ReadDone(c)' THEN Tail(job'[c]) ELSE job'[c]
  BY <1>1, RemainingOfInside, ClientsAssumption DEF Remaining, JobsPending, ReadDone
<1>3. CASE PollReady(c) \/ PollBusy(c)
  <2>1. /\ UNCHANGED <<ibf, job, call>>
        /\ (pc'[c] \in {"waitObf", "inByte"} <=> pc[c] \in {"waitObf", "inByte"})
    BY <1>3 DEF PollReady, PollBusy, Goto, AfterWait, Polling, ecVars, history
  <2> QED
    BY <1>1, <1>2, <2>1 DEF Queue, Sent, ReadDone
<1>4. CASE SendCommand(c) \/ SendAddress(c)
  <2>1. /\ ibf.port = "none" /\ job' = job /\ pc[c] \notin {"waitObf", "inByte"}
        /\ ibf'.port # "none" /\ (ibf'.port = "D" => ecst # "wdata")
    BY <1>4 DEF SendCommand, SendAddress, SendByte, InStep, AddressState
  <2> QED
    BY <1>1, <1>2, <2>1 DEF Queue, Sent, ReadDone
<1>5. CASE SendValue(c)
  <2>1. /\ ibf.port = "none" /\ ecst = "wdata" /\ call = Head(job[c]) /\ call' = call
        /\ ibf'.port = "D" /\ job'[c] = Tail(job[c]) /\ pc[c] = "outVal"
    BY <1>5 DEF SendValue, SendByte, InStep, EndCall, history
  <2>2. Queue = <<>> \o job[c] /\ Queue' = <<Head(job[c])>> \o Tail(job[c])
    BY <1>1, <1>2, <2>1 DEF Queue, Sent, ReadDone
  <2> QED
    BY <1>1, <1>2, <2>2, FirstCall
<1>6. CASE ReceiveData(c)
  <2>1. ibf' = ibf /\ ibf.port = "none" /\ job'[c] = Tail(job[c]) /\ pc[c] = "inByte"
    BY <1>1, <1>6 DEF ReceiveData, EndCall, AnswerIsFresh
  <2>2. pc'[c] \notin {"waitObf", "inByte"}
    BY <1>6 DEF ReceiveData, EndCall, Goto
  <2> QED
    BY <1>1, <1>2, <2>1, <2>2 DEF Queue, Sent, ReadDone
<1> QED
  BY <1>3, <1>4, <1>5, <1>6

\* A job arrives, gets the region, and gives it back.
LEMMA HoldingInOrder ==
    ASSUME Unlocked = {}, ~MayRefuse, OrderInv, NEW c \in Clients,
           Begin(c) \/ RequestPorts(c) \/ ReleasePorts(c)
    PROVE  \/ InOrder!Start(c) \/ InOrder!Finish
           \/ UNCHANGED <<mem, odata, region, Queue, failed>>
<1> USE DEF OrderInv, BusInv, TypeInv, TypeOK
<1>1. UNCHANGED <<mem, odata, failed>> /\ Sent' = Sent /\ Sent \in Seq(Call)
  BY DEF Begin, RequestPorts, ReleasePorts, Sent, ecVars, history
<1>2. CASE Begin(c)
  <2>1. /\ region' = region /\ region # c /\ ibf' = ibf
        /\ \A d \in Clients \ {c} : job'[d] = job[d] /\ pc'[d] = pc[d]
    BY <1>2 DEF Begin, Goto, HoldsPorts, Inside, Polling, ecVars
  <2>2. Remaining' = Remaining
    BY <2>1 DEF Remaining, ReadDone
  <2> QED
    BY <1>1, <2>1, <2>2 DEF Queue
<1>3. CASE RequestPorts(c)
  <2>1. /\ region = NoClient /\ region' = c /\ job' = job /\ job[c] \in Jobs[c]
        /\ c # NoClient /\ pc'[c] = "waitCmd"
    BY <1>3, ClientsAssumption DEF RequestPorts, Goto, JobPlaces
  <2>2. Remaining = <<>> /\ Remaining' = job[c]
    BY <2>1 DEF Remaining, ReadDone
  <2>3. Queue = Sent /\ Queue' = Sent \o job[c]
    BY <1>1, <2>2, ConcatEmptySeq DEF Queue
  <2> QED
    BY <1>1, <2>1, <2>3 DEF InOrder!Start, Queue
<1>4. CASE ReleasePorts(c)
  <2>1. /\ region = c /\ region' = NoClient /\ c # NoClient /\ job[c] = <<>>
        /\ pc[c] = "release"
    BY <1>4, ClientsAssumption DEF ReleasePorts, JobPlaces, HoldsPorts, Inside
  <2>2. Remaining = <<>> /\ Remaining' = <<>>
    BY <2>1 DEF Remaining, ReadDone
  <2>3. Queue = Sent /\ Queue' = Queue
    BY <1>1, <2>2, ConcatEmptySeq DEF Queue
  <2>4. Sent = <<>> \/ (Len(Sent) = 1 /\ Head(Sent).op = "write")
    BY DEF Sent, BusBelongsToCall
  <2> QED
    BY <1>1, <2>1, <2>3, <2>4 DEF InOrder!Finish, Queue
<1> QED
  BY <1>2, <1>3, <1>4

\* Every step of the bus is a step of the jobs carried out in order, or changes nothing
\* they see.
LEMMA InOrderStep ==
    ASSUME Unlocked = {}, ~MayRefuse, OrderInv, [Next]_vars
    PROVE  [InOrder!Next]_<<mem, odata, region, Queue, failed>>
<1>1. CASE failed'
  BY <1>1 DEF InOrder!Next, InOrder!GiveUp, OrderInv, BusInv, TypeInv, TypeOK
<1>2. CASE ~failed'
  <2>1. ~failed /\ \A c \in Clients : ~PollTimeout(c)
    BY <1>2
    DEF Next, EcTake, ClientStep, Begin, RequestPorts, Run, Poll, PollReady,
         PollBusy, PollTimeout, Transfer, SendCommand, SendAddress, SendValue, ReceiveData, ReleasePorts,
         vars, history
  <2>2. CASE EcTake
    BY <2>1, <2>2, EcTakeInOrder DEF InOrder!Next
  <2>3. ASSUME NEW c \in Clients, ClientStep(c)
        PROVE  [InOrder!Next]_<<mem, odata, region, Queue, failed>>
    BY <2>1, <2>3, TransferInOrder, HoldingInOrder
    DEF InOrder!Next, ClientStep, Run, Poll, Transfer
  <2>4. CASE UNCHANGED vars
    BY <2>4 DEF vars, ecVars, clientVars, history, Queue, Sent, Remaining, ReadDone
  <2> QED
    BY <2>2, <2>3, <2>4 DEF Next
<1> QED
  BY <1>1, <1>2

\* The bus of EcBus implements the jobs of EcJobs: for any clients that get the region, any
\* jobs and any timeout, the calls of a job are carried out in order, each once, with no
\* call of another job in between, until one times out.
THEOREM BusRunsJobsInOrder ==
    ASSUME Unlocked = {}, ~MayRefuse
    PROVE  Spec => JobsInOrder
<1>1. Init => OrderInv /\ InOrder!Init
  <2> SUFFICES ASSUME Init PROVE OrderInv /\ InOrder!Init
    OBVIOUS
  <2>1. BusInv /\ JobPlaces
    BY BusInvInit DEF Init, JobPlaces
  <2>2. Sent \o Remaining = <<>>
    BY ConcatEmptySeq DEF Init, Empty, Sent, Remaining
  <2> QED
    BY <2>1, <2>2 DEF Init, OrderInv, InOrder!Init, BusInv, TypeInv, TypeOK
<1>2. OrderInv /\ [Next]_vars => OrderInv'
  BY OrderInvStep
<1>3. OrderInv /\ [Next]_vars => [InOrder!Next]_<<mem, odata, region, Sent \o Remaining, failed>>
  BY InOrderStep DEF Queue
<1> QED
  BY <1>1, <1>2, <1>3, PTL DEF Spec, JobsInOrder, InOrder!Spec

----------------------------------------------------------------------------
\* The beeper thread that reads its register back in peace.
BeeperPlaces == {<<"idle", 0>>, <<"check", 5>>} \cup ({"out", "delay"} \X (1..5))

BeeperTypes ==
    /\ DOMAIN mem = Byte
    /\ bpc \in [Beepers -> BeeperPlaces]
    /\ bval \in [Beepers -> {0, 1}]
    /\ reading \in [Beepers -> BOOLEAN]

Taken(st) == ibf.port = "none" /\ ecst = st

AddressSent(st) == ibf.port = "D" /\ ibf.byte = BEEPER_ADR_6011PRO /\ ecst = st

\* The answer is what the register holds, or held before the EC changed it from 1 to 2.
Answered ==
    \/ odata = mem[BEEPER_ADR_6011PRO]
    \/ odata = 1 /\ mem[BEEPER_ADR_6011PRO] = 2

\* How far the thread at place "at" and the EC are with the reading back, together.
ReadInStep(at) ==
    /\ at = <<"delay", 4>> => (ibf.port = "C" /\ ibf.byte = EC_C_READ_MEM) \/ Taken("raddr")
    /\ at = <<"out", 5>> => Taken("raddr")
    /\ at = <<"delay", 5>> => AddressSent("raddr") \/ (Taken("idle") /\ Answered)
    /\ at = <<"check", 5>> => Taken("idle") /\ Answered

\* The command discards what the EC had begun, and from then on the thread and the EC stay
\* in step as long as no other thread sends a byte and no delay is too short.
ReadingInv ==
    /\ BeeperTypes
    /\ \A b \in Beepers : reading[b] => ReadInStep(bpc[b])

\* A step that sends no byte, and takes none, of a thread that is reading back.
LEMMA PortsUntouched ==
    ASSUME ReadingInv, UNCHANGED <<ecVars, bpc, bval>>,
           reading' \in [Beepers -> BOOLEAN],
           \A b \in Beepers : reading'[b] => reading[b]
    PROVE  ReadingInv'
<1>1. \A at : ReadInStep(at) => ReadInStep(at)'
  BY DEF ReadInStep, Taken, AddressSent, Answered, ecVars
<1> QED
  BY <1>1 DEF ReadingInv, BeeperTypes, ecVars

\* The EC takes the byte the thread sent.
LEMMA EcTakeKeepsReading ==
    ASSUME ReadingInv, EcTake, UNCHANGED bvars
    PROVE  ReadingInv'
<1> USE DEF ReadingInv, BeeperTypes
<1>1. /\ UNCHANGED <<bpc, bval, reading>> /\ ibf'.port = "none" /\ DOMAIN mem' = DOMAIN mem
  BY DEF EcTake, EcCommand, EcReadAddress, EcWriteAddress, EcWriteValue, EcStrayByte, bvars,
         Empty
<1>2. ASSUME NEW at, ReadInStep(at) PROVE ReadInStep(at)'
  <2> USE DEF ReadInStep, Taken, AddressSent, Answered
  <2>1. CASE EcCommand
    BY <1>1, <1>2, <2>1 DEF EcCommand, EC_C_READ_MEM, EC_C_WRITE_MEM
  <2>2. CASE EcReadAddress
    BY <1>1, <1>2, <2>2 DEF EcReadAddress
  <2>3. CASE EcWriteAddress
    BY <1>1, <1>2, <2>3 DEF EcWriteAddress
  <2>4. CASE EcWriteValue
    BY <1>1, <1>2, <2>4 DEF EcWriteValue
  <2>5. CASE EcStrayByte
    BY <1>1, <1>2, <2>5 DEF EcStrayByte
  <2> QED
    BY <2>1, <2>2, <2>3, <2>4, <2>5 DEF EcTake
<1> QED
  BY <1>1, <1>2

\* The EC turns a 1 into a 2 in the beeper's register.
LEMMA EcBeeperOnKeepsReading ==
    ASSUME ReadingInv, EcBeeperOn
    PROVE  ReadingInv'
<1>1. UNCHANGED <<ibf, odata, ecst, bpc, bval, reading>> /\ mem[BEEPER_ADR_6011PRO] = 1
      /\ mem' = [mem EXCEPT ![BEEPER_ADR_6011PRO] = 2]
  BY DEF EcBeeperOn, bvars
<1>2. mem'[BEEPER_ADR_6011PRO] = 2 /\ DOMAIN mem' = DOMAIN mem
  BY <1>1, BeepersAssumption DEF ReadingInv, BeeperTypes, BEEPER_ADR_6011PRO
<1>3. Answered => Answered'
  BY <1>1, <1>2 DEF Answered
<1>4. ASSUME NEW at, ReadInStep(at) PROVE ReadInStep(at)'
  BY <1>1, <1>3, <1>4 DEF ReadInStep, Taken, AddressSent
<1> QED
  BY <1>1, <1>2, <1>4 DEF ReadingInv, BeeperTypes

\* A client that sends or takes a byte meets every thread that is reading back.
LEMMA ClientKeepsReading ==
    ASSUME TypeInv, ReadingInv, NEW c \in Clients, SharedClientStep(c)
    PROVE  ReadingInv'
<1> USE DEF ReadingInv, BeeperTypes
<1>1. /\ UNCHANGED <<mem, bpc, bval>>
      /\ reading' = [b \in Beepers |-> reading[b] /\ pc'[c] \notin Inside]
  BY DEF SharedClientStep, ClientStep, Begin, RequestPorts, Run, Poll,
         PollReady, PollBusy, PollTimeout, Transfer, SendCommand, SendAddress, SendValue,
         SendByte, ReceiveData, ReleasePorts, ecVars
<1>2. reading' \in [Beepers -> BOOLEAN] /\ \A b \in Beepers : reading'[b] => reading[b]
  BY <1>1
<1>3. CASE UNCHANGED ecVars
  BY <1>1, <1>2, <1>3, PortsUntouched
<1>4. CASE ~UNCHANGED ecVars
  <2>1. SendCommand(c) \/ SendAddress(c) \/ SendValue(c) \/ ReceiveData(c)
    BY <1>4 DEF SharedClientStep, ClientStep, Begin, RequestPorts, Run, Poll,
                PollReady, PollBusy, PollTimeout, Transfer, ReleasePorts
  <2>2. pc'[c] \in {"waitAddr", "waitObf", "waitVal", "inByte", "waitCmd", "release"}
    BY <2>1
    DEF SendCommand, SendAddress, SendValue, ReceiveData, EndCall, Goto, TypeInv, TypeOK
  <2>3. \A b \in Beepers : ~reading'[b]
    BY <1>1, <2>2 DEF Inside, Polling
  <2> QED
    BY <1>1, <1>2, <2>3
<1> QED
  BY <1>3, <1>4

\* A thread that goes on from one place of superio_write_byte to the next.
LEMMA MoveKeepsReading ==
    ASSUME ReadingInv, NEW b \in Beepers, NEW at \in BeeperPlaces,
           bpc' = [bpc EXCEPT ![b] = at],
           UNCHANGED <<mem, ibf, odata, ecst>>, bval' \in [Beepers -> {0, 1}],
           reading' \in [Beepers -> BOOLEAN],
           \A x \in Beepers : reading'[x] => reading[x],
           reading'[b] /\ ReadInStep(bpc[b]) => ReadInStep(at)
    PROVE  ReadingInv'
<1> USE DEF ReadingInv, BeeperTypes
<1>1. \A x : ReadInStep(x) => ReadInStep(x)'
  BY DEF ReadInStep, Taken, AddressSent, Answered
<1>2. bpc'[b] = at /\ \A y \in Beepers \ {b} : bpc'[y] = bpc[y]
  OBVIOUS
<1> QED
  BY <1>1, <1>2

\* The steps of superio_write_byte.
LEMMA SuperioKeepsReading ==
    ASSUME ReadingInv, NEW b \in Beepers, SuperioBegin(b) \/ SuperioStep(b)
    PROVE  ReadingInv'
<1>1. /\ bpc[b] \in BeeperPlaces /\ bval[b] \in {0, 1}
      /\ bval \in [Beepers -> {0, 1}] /\ reading \in [Beepers -> BOOLEAN]
  BY DEF ReadingInv, BeeperTypes
<1>2. CASE SuperioBegin(b)
  <2>1. /\ bpc' = [bpc EXCEPT ![b] = <<"out", 1>>] /\ bval' \in [Beepers -> {0, 1}]
        /\ UNCHANGED <<mem, ibf, odata, ecst, reading>>
    BY <1>1, <1>2 DEF SuperioBegin, vars, ecVars
  <2>2. <<"out", 1>> \in BeeperPlaces /\ ReadInStep(<<"out", 1>>)
    BY DEF BeeperPlaces, ReadInStep
  <2> QED
    BY <1>1, <2>1, <2>2, MoveKeepsReading
<1>3. CASE SuperioOut(b)
  <2>1. PICK n \in 1..5 : bpc[b] = <<"out", n>>
    BY <1>1, <1>3 DEF SuperioOut, BeeperPlaces
  <2>2. /\ bpc' = [bpc EXCEPT ![b] = <<"delay", n>>]
        /\ reading' = [x \in Beepers |-> x = b /\ (n = 4 \/ (n = 5 /\ reading[b]))]
        /\ ibf'.port = Outb(n, bval[b])[1] /\ ibf'.byte = Outb(n, bval[b])[2]
        /\ UNCHANGED <<mem, ecst, bval>>
    BY <1>3, <2>1 DEF SuperioOut, SendByte
  <2>3. <<"delay", n>> \in BeeperPlaces
    BY DEF BeeperPlaces
  <2>4. BeeperTypes'
    BY <1>1, <2>2, <2>3 DEF ReadingInv, BeeperTypes
  <2>5. ASSUME NEW x \in Beepers, reading'[x] PROVE ReadInStep(bpc[x])'
    <3>1. x = b /\ bpc'[b] = <<"delay", n>> /\ (n = 4 \/ (n = 5 /\ reading[b]))
      BY <2>2, <2>5 DEF ReadingInv, BeeperTypes
    <3>2. CASE n = 4
      BY <2>2, <3>1, <3>2 DEF ReadInStep, Outb
    <3>3. CASE n = 5 /\ reading[b]
      BY <2>1, <2>2, <3>1, <3>3 DEF ReadInStep, ReadingInv, Outb, Taken, AddressSent
    <3> QED
      BY <3>1, <3>2, <3>3
  <2> QED
    BY <2>4, <2>5 DEF ReadingInv
<1>4. CASE SuperioDelay(b)
  <2>1. PICK n \in 1..5 : bpc[b] = <<"delay", n>>
    BY <1>1, <1>4 DEF SuperioDelay, BeeperPlaces
  <2> DEFINE at == IF n = 5 THEN <<"check", 5>> ELSE <<"out", n + 1>>
  <2>2. /\ bpc' = [bpc EXCEPT ![b] = at]
        /\ reading' = [reading EXCEPT ![b] = @ /\ ibf.port = "none"]
        /\ UNCHANGED <<mem, ibf, odata, ecst, bval>>
    BY <1>4, <2>1 DEF SuperioDelay, vars, ecVars
  <2>3. /\ reading' \in [Beepers -> BOOLEAN] /\ \A x \in Beepers : reading'[x] => reading[x]
        /\ reading'[b] => ibf.port = "none"
    BY <1>1, <2>2
  <2>4. ReadInStep(<<"delay", n>>) /\ ibf.port = "none" => ReadInStep(at)
    <3> USE DEF ReadInStep, Taken, AddressSent
    <3>1. CASE n = 5
      BY <3>1
    <3>2. CASE n # 5
      BY <3>2
    <3> QED
      BY <3>1, <3>2
  <2>5. at \in BeeperPlaces
    BY DEF BeeperPlaces
  <2> HIDE DEF at
  <2> QED
    BY <1>1, <2>1, <2>2, <2>3, <2>4, <2>5, MoveKeepsReading
<1>5. CASE SuperioCheck(b)
  <2>1. PICK at \in {<<"idle", 0>>, <<"out", 1>>} : bpc' = [bpc EXCEPT ![b] = at]
    BY <1>5 DEF SuperioCheck
  <2>2. /\ at \in BeeperPlaces /\ ReadInStep(at)
        /\ UNCHANGED <<mem, ibf, odata, ecst, bval, reading>>
    BY <1>5, <2>1 DEF SuperioCheck, BeeperPlaces, ReadInStep
  <2> QED
    BY <1>1, <2>1, <2>2, MoveKeepsReading
<1> QED
  BY <1>2, <1>3, <1>4, <1>5 DEF SuperioStep

LEMMA ReadingInvInit == SharedInit => ReadingInv
  BY DEF SharedInit, Init, ReadingInv, BeeperTypes, BeeperPlaces, ReadInStep

LEMMA ReadingInvStep ==
    TypeInv /\ ReadingInv /\ [SharedNext]_sharedVars => ReadingInv'
<1> SUFFICES ASSUME TypeInv, ReadingInv, [SharedNext]_sharedVars PROVE ReadingInv'
  OBVIOUS
<1>1. CASE UNCHANGED sharedVars
  <2>1. UNCHANGED <<ecVars, bpc, bval, reading>>
    BY <1>1 DEF sharedVars, vars, bvars
  <2> QED
    BY <2>1, PortsUntouched DEF ReadingInv, BeeperTypes
<1> QED
  BY <1>1, EcTakeKeepsReading, EcBeeperOnKeepsReading, ClientKeepsReading,
     SuperioKeepsReading
  DEF SharedNext

\* The bytes a beeper thread sends keep the types of the EC and of the clients.
LEMMA SharedTypesStep ==
    ASSUME TypeInv, ReadingInv, [SharedNext]_sharedVars
    PROVE  TypeInv'
<1>1. CASE Next \/ UNCHANGED vars
  BY <1>1, TypeInvStep
<1>2. CASE EcBeeperOn
  BY <1>2, BeepersAssumption
  DEF EcBeeperOn, clientVars, history, TypeInv, TypeOK, JobsPending
<1>3. ASSUME NEW b \in Beepers, SuperioOut(b) PROVE TypeInv'
  <2>1. PICK n \in 1..5 : bpc[b] = <<"out", n>>
    BY <1>3 DEF SuperioOut, ReadingInv, BeeperTypes, BeeperPlaces
  <2>2. ibf' = [port |-> Outb(n, bval[b])[1], byte |-> Outb(n, bval[b])[2]]
        /\ UNCHANGED <<mem, obf, odata, ecst, eaddr, region, clientVars, history>>
    BY <1>3, <2>1 DEF SuperioOut, SendByte
  <2>3. bval[b] \in Byte /\ BEEPER_ADR_6011PRO \in Byte
    BY BeepersAssumption, ByteAssumption DEF ReadingInv, BeeperTypes, BEEPER_ADR_6011PRO
  <2>4. /\ ibf' \in [port : {"none", "C", "D"},
                     byte : Byte \cup {EC_C_READ_MEM, EC_C_WRITE_MEM}]
        /\ ibf'.port = "D" => ibf'.byte \in Byte
    BY <2>2, <2>3 DEF Outb
  <2> QED
    BY <2>2, <2>4 DEF clientVars, history, TypeInv, TypeOK, JobsPending
<1>4. ASSUME NEW b \in Beepers, SuperioCheck(b) PROVE TypeInv'
  BY <1>4 DEF SuperioCheck, clientVars, history, TypeInv, TypeOK, JobsPending
<1> QED
  BY <1>1, <1>2, <1>3, <1>4
  DEF SharedNext, SharedClientStep, SuperioBegin, SuperioStep, SuperioDelay, Next, sharedVars

SharedInv == TypeInv /\ ReadingInv

LEMMA SharedInvInit == SharedInit => SharedInv
<1>1. SharedInit => TypeInv
  BY TypeInvInit DEF SharedInit
<1> QED
  BY <1>1, ReadingInvInit DEF SharedInv

LEMMA SharedInvStep == SharedInv /\ [SharedNext]_sharedVars => SharedInv'
BY ReadingInvStep, SharedTypesStep DEF SharedInv

\* superio_write_byte returns only with its value in the register if its reading back was
\* in peace: for every number of beeper threads and of clients, whether or not the clients
\* get the region, and whatever delays are too short.
THEOREM BeeperByteVerified == SharedSpec => WriteVerified
<1>1. ASSUME SharedInv, [SharedNext]_sharedVars, NEW b \in Beepers, Returns(b), reading[b]
      PROVE  Matches(mem[BEEPER_ADR_6011PRO], bval[b])
  <2>1. bpc[b] = <<"check", 5>> /\ Answered
    BY <1>1 DEF Returns, SharedInv, ReadingInv, BeeperTypes, BeeperPlaces, ReadInStep
  <2>2. bpc' # bpc
    BY <1>1, <2>1 DEF Returns
  <2>3. PICK x \in Beepers : SuperioBegin(x) \/ SuperioStep(x)
    BY <1>1, <2>2
    DEF SharedNext, EcTake, EcBeeperOn, SharedClientStep, bvars, sharedVars
  <2>4. x = b
    BY <1>1, <2>1, <2>3
    DEF SuperioBegin, SuperioStep, SuperioOut, SuperioDelay, SuperioCheck, Returns,
        SharedInv, ReadingInv, BeeperTypes
  <2>5. /\ bpc \in [Beepers -> BeeperPlaces] /\ SuperioCheck(b)
        /\ bpc' = [bpc EXCEPT ![b] =
                      IF Matches(odata, bval[b]) THEN <<"idle", 0>> ELSE <<"out", 1>>]
    BY <1>1, <2>1, <2>3, <2>4
    DEF SuperioBegin, SuperioStep, SuperioOut, SuperioDelay, SuperioCheck, SharedInv, ReadingInv,
        BeeperTypes
  <2>6. Matches(odata, bval[b])
    BY <1>1, <2>5 DEF Returns
  <2> QED
    BY <2>1, <2>6 DEF Matches, Answered
<1>2. SharedInv /\ [SharedNext]_sharedVars
        => [\A b \in Beepers :
             Returns(b) /\ reading[b] => Matches(mem[BEEPER_ADR_6011PRO], bval[b])]_sharedVars
  BY <1>1
<1> QED
  BY <1>2, SharedInvInit, SharedInvStep, PTL DEF SharedSpec, WriteVerified

\* The bytes the beeper driver sends past everybody keep the types of the EC and of the
\* clients: a client's polls never go below 0 whatever a beeper thread overwrites.
THEOREM SharedTypeCorrect == SharedSpec => []TypeOK
<1>1. SharedInv => TypeOK
  BY DEF SharedInv, TypeInv
<1> QED
  BY <1>1, SharedInvInit, SharedInvStep, PTL DEF SharedSpec
====
