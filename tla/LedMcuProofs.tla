---- MODULE LedMcuProofs ----
\* Proofs about LedMcu for any number of LEDs, any levels and any number of tries: the
\* types, the mutex, the answer of an exchange that met no other one, and that the last
\* command asked of an LED is the last one shown.
EXTENDS LedMcu, TLAPS

\* Where the threads are and what the exchange's history holds.
ThreadTypes ==
    /\ pc \in [Threads -> {"idle", "lock", "check"} \cup Exchanging]
    /\ mutex \in Users \cup {None}
    /\ ran \subseteq Threads /\ met \subseteq Threads
    /\ flag \in {0, 1}
    /\ buf = None \/ buf.from \in Threads \cup {Boot}

\* Two threads in an exchange at once have met.
OverlapIsMet ==
    \A t, u \in Threads : t # u /\ Busy(t) /\ Busy(u) => t \in met

\* Nobody else's command is with the MCU while an exchange that met no other one polls,
\* and the flag is set only by its own.
AnswerIsOwn ==
    \A t \in Threads :
        pc[t] = "ack" /\ t \notin met =>
            /\ flag = 1 => t \in ran
            /\ buf = None \/ buf.from = t

LedInv == ThreadTypes /\ MutexGuardsExchange /\ OverlapIsMet /\ AnswerIsOwn

----------------------------------------------------------------------------
\* The threads of an LED are four different ones; only the works take no mutex.
LEMMA ThreadsDiffer ==
    /\ \A l \in Leds : /\ user(l) \in Users /\ delay(l) \in Users /\ color(l) \in Users
                       /\ work(l) \in Works
                       /\ user(l) \in Blinkers /\ delay(l) \in Blinkers /\ color(l) \notin Blinkers
    /\ \A t \in Users : t \notin Works /\ t # None
    /\ Users \subseteq Threads /\ Works \subseteq Threads
<1>1. \A l \in Leds : /\ user(l) \in Users /\ delay(l) \in Users /\ color(l) \in Users
                      /\ work(l) \in Works /\ user(l) \in Blinkers /\ delay(l) \in Blinkers
  BY DEF Users, Works, Blinkers
<1>2. \A l, m \in Leds : /\ user(l) # work(m) /\ delay(l) # work(m) /\ color(l) # work(m)
                         /\ color(l) # user(m) /\ color(l) # delay(m)
  BY DEF user, delay, color, work
<1>3. \A t \in Users : t \notin Works
  BY <1>2 DEF Users, Works
<1>4. \A l \in Leds : color(l) \notin Blinkers
  BY <1>2 DEF Blinkers
<1> QED
  BY <1>1, <1>3, <1>4, LedAssumption DEF Threads

\* Nobody is in an exchange at the start.
LEMMA LedInvInit == Init => LedInv
  BY ThreadsDiffer
  DEF Init, LedInv, ThreadTypes, MutexGuardsExchange, OverlapIsMet, AnswerIsOwn, Busy, Inside,
      Exchanging

\* A thread that is not in an exchange starts waiting for the mutex, or a sysfs write ends
\* at once: the exchanges do not notice.
LEMMA WriterKeepsLedInv ==
    ASSUME LedInv, NEW l \in Leds,
           SetBrightness(l) \/ SetTrigger(l) \/ SetDelay(l) \/ color_set(l)
    PROVE  LedInv'
<1>1. UNCHANGED <<mutex, buf, flag, ran, met>>
  BY DEF SetBrightness, SetTrigger, SetDelay, color_set, threadVars, mcuVars, history
<1>2. pc' = pc \/ \E t \in Users : pc[t] = "idle" /\ pc' = [pc EXCEPT ![t] = "lock"]
  <2>1. CASE SetBrightness(l)
    BY <2>1 DEF SetBrightness, threadVars
  <2>2. CASE SetTrigger(l)
    BY <2>2, ThreadsDiffer DEF SetTrigger, Blink, Start, Free, Activating
  <2>3. CASE SetDelay(l)
    BY <2>3, ThreadsDiffer DEF SetDelay, Blink, Start
  <2>4. CASE color_set(l)
    BY <2>4, ThreadsDiffer DEF color_set, Start
  <2> QED
    BY <2>1, <2>2, <2>3, <2>4
<1>3. \A t \in Threads : (pc'[t] = pc[t] \/ (pc[t] = "idle" /\ pc'[t] = "lock"))
  BY <1>2, ThreadsDiffer DEF LedInv, ThreadTypes
<1>4. \A t \in Threads : (Busy(t)' <=> Busy(t)) /\ (Inside(t)' <=> Inside(t))
  BY <1>3 DEF Busy, Inside, Exchanging
<1>5. ThreadTypes'
  BY <1>1, <1>2, ThreadsDiffer DEF LedInv, ThreadTypes, Exchanging
<1> QED
  BY <1>1, <1>3, <1>4, <1>5, ThreadsDiffer
  DEF LedInv, MutexGuardsExchange, OverlapIsMet, AnswerIsOwn

\* A thread enters an exchange: everyone in one is met, and meets it.
LEMMA EnterKeepsLedInv ==
    ASSUME LedInv, NEW t \in Threads, ~Busy(t), Enter(t), UNCHANGED <<buf, flag, ran>>,
           \/ t \in Users /\ mutex = None /\ mutex' = t
           \/ t \in Users /\ Inside(t) /\ mutex' = mutex
           \/ t \in Works /\ mutex' = mutex
    PROVE  LedInv'
<1>1. pc'[t] = "send" /\ \A u \in Threads : u # t => pc'[u] = pc[u]
  BY DEF LedInv, ThreadTypes, Enter
<1>2. /\ Busy(t)' /\ Inside(t)'
      /\ \A u \in Threads : u # t => (Busy(u)' <=> Busy(u)) /\ (Inside(u)' <=> Inside(u))
  BY <1>1 DEF Busy, Inside, Exchanging
<1>3. /\ met' \subseteq Threads
      /\ \A u \in Threads : u \in met \/ Busy(u) => u \in met'
      /\ \A u \in Threads : Busy(u) => t \in met'
  BY DEF Enter, Exchangers, LedInv, ThreadTypes
<1>4. ThreadTypes'
  BY <1>3 DEF LedInv, ThreadTypes, Exchanging, Enter
<1>5. MutexGuardsExchange'
  BY <1>2, ThreadsDiffer DEF LedInv, MutexGuardsExchange
<1>6. OverlapIsMet'
  BY <1>2, <1>3 DEF OverlapIsMet
<1>7. AnswerIsOwn'
  <2> SUFFICES ASSUME NEW u \in Threads, pc'[u] = "ack", u \notin met'
               PROVE  (flag' = 1 => u \in ran') /\ (buf' = None \/ buf'.from = u)
    BY DEF AnswerIsOwn
  <2>1. u # t /\ pc[u] = "ack" /\ Busy(u)
    BY <1>1 DEF Busy, Exchanging
  <2> QED
    BY <1>3, <2>1
<1> QED
  BY <1>4, <1>5, <1>6, <1>7 DEF LedInv

\* A color that waited gets the mutex, with nothing sent yet.
LEMMA CheckKeepsLedInv ==
    ASSUME LedInv, NEW t \in Users, pc[t] = "lock", mutex = None, mutex' = t,
           pc' = [pc EXCEPT ![t] = "check"], UNCHANGED <<buf, flag, ran, met>>
    PROVE  LedInv'
<1>1. /\ t \in Threads /\ pc'[t] = "check"
      /\ \A u \in Threads : u # t => pc'[u] = pc[u]
  BY ThreadsDiffer DEF LedInv, ThreadTypes
<1>2. /\ ~Busy(t) /\ ~Busy(t)' /\ Inside(t)'
      /\ \A u \in Threads : u # t => (Busy(u)' <=> Busy(u)) /\ (Inside(u)' <=> Inside(u))
  BY <1>1 DEF Busy, Inside, Exchanging
<1>3. ThreadTypes'
  BY DEF LedInv, ThreadTypes
<1>4. MutexGuardsExchange'
  BY <1>2, ThreadsDiffer DEF LedInv, MutexGuardsExchange
<1>5. OverlapIsMet' /\ AnswerIsOwn'
  BY <1>1, <1>2 DEF LedInv, OverlapIsMet, AnswerIsOwn
<1> QED
  BY <1>3, <1>4, <1>5 DEF LedInv

\* A thread leaves its exchange, or a color is refused.
LEMMA LeaveKeepsLedInv ==
    ASSUME LedInv, NEW t \in Threads, Inside(t), Return(t), UNCHANGED <<buf, flag>>
    PROVE  LedInv'
<1>1. pc'[t] = "idle" /\ \A u \in Threads : u # t => pc'[u] = pc[u]
  BY DEF Return, Start, LedInv, ThreadTypes
<1>2. /\ ~Busy(t)' /\ ~Inside(t)'
      /\ \A u \in Threads : u # t => (Busy(u)' <=> Busy(u)) /\ (Inside(u)' <=> Inside(u))
  BY <1>1 DEF Busy, Inside, Exchanging
<1>3. \A u \in Threads : u # t => (u \in met' <=> u \in met) /\ (u \in ran' <=> u \in ran)
  BY DEF Return
<1>4. ThreadTypes'
  BY DEF Return, Start, LedInv, ThreadTypes
<1>5. MutexGuardsExchange'
  BY <1>2, ThreadsDiffer DEF Return, LedInv, MutexGuardsExchange
<1>6. OverlapIsMet'
  BY <1>2, <1>3 DEF LedInv, OverlapIsMet
<1>7. AnswerIsOwn'
  BY <1>1, <1>3 DEF LedInv, AnswerIsOwn
<1> QED
  BY <1>4, <1>5, <1>6, <1>7 DEF LedInv

\* A step inside an exchange that neither leaves it nor sends.
LEMMA StayKeepsLedInv ==
    ASSUME LedInv, NEW t \in Threads, Busy(t),
           pc' = pc \/ pc' = [pc EXCEPT ![t] = "send"],
           UNCHANGED <<mutex, buf, flag, ran, met>>
    PROVE  LedInv'
<1>1. \A u \in Threads : pc'[u] = pc[u] \/ (u = t /\ pc'[u] = "send")
  BY DEF LedInv, ThreadTypes
<1>2. \A u \in Threads : (Busy(u)' <=> Busy(u)) /\ (Inside(u)' <=> Inside(u))
  BY <1>1 DEF Busy, Inside, Exchanging
<1>3. ThreadTypes'
  BY DEF LedInv, ThreadTypes, Exchanging
<1> QED
  BY <1>1, <1>2, <1>3, ThreadsDiffer
  DEF LedInv, MutexGuardsExchange, OverlapIsMet, AnswerIsOwn

\* A transfer or a poll that fails is tried again or ends the exchange.
LEMMA RetryKeepsLedInv ==
    ASSUME LedInv, NEW t \in Threads, Busy(t), Retry(t), UNCHANGED <<buf, flag>>
    PROVE  LedInv'
  BY LeaveKeepsLedInv, StayKeepsLedInv DEF Retry, GiveUp, Inside

\* One step of an exchange.
LEMMA ExchangeKeepsLedInv ==
    ASSUME LedInv, NEW t \in Threads, Exchange(t)
    PROVE  LedInv'
<1>1. CASE AckMiss(t)
  BY <1>1, RetryKeepsLedInv DEF AckMiss, Busy, Exchanging, mcuVars
<1>2. CASE AckOk(t)
  BY <1>2, LeaveKeepsLedInv, StayKeepsLedInv DEF AckOk, Busy, Inside, Exchanging, mcuVars, Start
<1>3. CASE Send(t) /\ Retry(t) /\ UNCHANGED <<buf, flag>>
  BY <1>3, RetryKeepsLedInv DEF Send, Busy, Exchanging
<1>4. CASE /\ pc[t] = "send" /\ pc' = [pc EXCEPT ![t] = "ack"]
           /\ buf' = [from |-> t, cmd |-> Head(job[t])] /\ flag' = 0
           /\ ran' = ran \ {t} /\ UNCHANGED <<mutex, met>>
  <2>1. pc'[t] = "ack" /\ \A u \in Threads : u # t => pc'[u] = pc[u]
    BY <1>4 DEF LedInv, ThreadTypes
  <2>2. Busy(t) /\ \A u \in Threads : (Busy(u)' <=> Busy(u)) /\ (Inside(u)' <=> Inside(u))
    BY <1>4, <2>1 DEF Busy, Inside, Exchanging
  <2>3. ThreadTypes'
    BY <1>4 DEF LedInv, ThreadTypes, Exchanging
  <2>4. MutexGuardsExchange' /\ OverlapIsMet'
    BY <1>4, <2>2, ThreadsDiffer DEF LedInv, MutexGuardsExchange, OverlapIsMet
  <2>5. AnswerIsOwn'
    <3> SUFFICES ASSUME NEW u \in Threads, pc'[u] = "ack", u \notin met'
                 PROVE  u = t
      BY <1>4 DEF AnswerIsOwn
    <3>1. Busy(u) /\ u \notin met
      BY <1>4, <2>2 DEF Busy, Exchanging
    <3> QED
      BY <2>2, <3>1 DEF LedInv, OverlapIsMet
  <2> QED
    BY <2>3, <2>4, <2>5 DEF LedInv
<1> QED
  BY <1>1, <1>2, <1>3, <1>4 DEF Exchange, Send

\* The MCU runs a command or rejects it.
LEMMA McuKeepsLedInv ==
    ASSUME LedInv, McuRun \/ McuReject
    PROVE  LedInv'
<1>1. UNCHANGED <<pc, mutex, met>> /\ buf # None /\ buf' = None
  BY DEF McuRun, McuReject, threadVars
<1>2. \A u \in Threads : (Busy(u)' <=> Busy(u)) /\ (Inside(u)' <=> Inside(u))
  BY <1>1 DEF Busy, Inside
<1>3. CASE McuRun
  <2>1. ran' = ran \cup {t \in Threads : t = buf.from /\ pc[t] = "ack"} /\ flag' = 1
    BY <1>3 DEF McuRun
  <2>2. ThreadTypes'
    BY <1>1, <2>1 DEF LedInv, ThreadTypes
  <2>3. AnswerIsOwn'
    BY <1>1, <2>1 DEF LedInv, AnswerIsOwn, ThreadTypes
  <2> QED
    BY <1>1, <1>2, <2>2, <2>3, ThreadsDiffer DEF LedInv, MutexGuardsExchange, OverlapIsMet
<1>4. CASE McuReject
  <2>1. UNCHANGED <<flag, ran>>
    BY <1>4 DEF McuReject
  <2> QED
    BY <1>1, <1>2, <2>1, ThreadsDiffer
    DEF LedInv, ThreadTypes, MutexGuardsExchange, OverlapIsMet, AnswerIsOwn
<1> QED
  BY <1>3, <1>4

\* The reboot notifier meets everyone who is in an exchange.
LEMMA BootKeepsLedInv ==
    ASSUME LedInv, ug_notifier_call
    PROVE  LedInv'
<1>1. /\ UNCHANGED <<pc, mutex, ran>> /\ flag' = 0
      /\ met' = met \cup Exchangers /\ buf'.from = Boot
  BY DEF ug_notifier_call, threadVars, Cmd
<1>2. \A t \in Threads : (Busy(t)' <=> Busy(t)) /\ (Inside(t)' <=> Inside(t))
  BY <1>1 DEF Busy, Inside
<1>3. ThreadTypes'
  BY <1>1 DEF LedInv, ThreadTypes, Exchangers
<1>4. OverlapIsMet' /\ AnswerIsOwn'
  BY <1>1, <1>2 DEF LedInv, ThreadTypes, OverlapIsMet, AnswerIsOwn, Exchangers, Busy, Exchanging
<1> QED
  BY <1>1, <1>2, <1>3, <1>4, ThreadsDiffer DEF LedInv, MutexGuardsExchange

\* Every step keeps the invariant.
LEMMA LedInvStep == LedInv /\ [Next]_vars => LedInv'
<1> SUFFICES ASSUME LedInv, [Next]_vars PROVE LedInv'
  OBVIOUS
<1>1. ASSUME NEW t \in Threads, Lock(t) PROVE LedInv'
  <2>1. ~Busy(t) /\ t \in Users
    BY <1>1 DEF Lock, Busy, Exchanging
  <2>2. CASE t \in Blinkers
    BY <1>1, <2>1, <2>2, EnterKeepsLedInv DEF Lock, mcuVars
  <2>3. CASE t \notin Blinkers
    BY <1>1, <2>1, <2>3, CheckKeepsLedInv DEF Lock, mcuVars
  <2> QED
    BY <2>2, <2>3
<1>2. ASSUME NEW l \in Leds, brightness_work(l) PROVE LedInv'
  <2>1. ~Busy(work(l)) /\ work(l) \in Works /\ work(l) \in Threads
    BY <1>2, ThreadsDiffer DEF brightness_work, Busy, Exchanging
  <2> QED
    BY <1>2, <2>1, EnterKeepsLedInv DEF brightness_work, mcuVars
<1>3. ASSUME NEW l \in Leds, color_set_accepted(l) \/ color_set_refused(l) PROVE LedInv'
  <2>1. /\ color(l) \in Users /\ color(l) \in Threads
        /\ Inside(color(l)) /\ ~Busy(color(l)) /\ UNCHANGED <<buf, flag>>
    BY <1>3, ThreadsDiffer
    DEF color_set_accepted, color_set_refused, Inside, Busy, Exchanging, mcuVars
  <2> QED
    BY <1>3, <2>1, EnterKeepsLedInv, LeaveKeepsLedInv DEF color_set_accepted, color_set_refused
<1>4. CASE UNCHANGED <<threadVars, mcuVars, history>>
  BY <1>4 DEF threadVars, mcuVars, history, LedInv, ThreadTypes, MutexGuardsExchange,
              OverlapIsMet, AnswerIsOwn, Busy, Inside
<1>5. RemoveCancel \/ RemoveUnregister \/ RemoveFree \/ UNCHANGED vars
        => UNCHANGED <<threadVars, mcuVars, history>>
  BY DEF RemoveCancel, RemoveUnregister, RemoveFree, vars
<1> QED
  BY <1>1, <1>2, <1>3, <1>4, <1>5, WriterKeepsLedInv, ExchangeKeepsLedInv, McuKeepsLedInv,
     BootKeepsLedInv DEF Next

\* The invariant holds throughout.
THEOREM LedsCorrect == Spec => []LedInv
  BY LedInvInit, LedInvStep, PTL DEF Spec

\* The mutex is held exactly by the writer that is inside, for any number of LEDs: two
\* writers never use the MCU at once, and every error path gives the mutex back.
THEOREM MutexCorrect == Spec => []MutexGuardsExchange
<1>1. LedInv => MutexGuardsExchange
  BY DEF LedInv
<1> QED
  BY <1>1, LedsCorrect, PTL

\* For any number of LEDs, a command reported done was run by the MCU if no other exchange
\* overlapped this one.
THEOREM AnswersAloneAreOwn == Spec => AckIsOwnAlone
<1>1. LedInv /\ [Next]_vars => [\A t \in Threads : Succeeds(t) /\ t \notin met => t \in ran]_vars
  BY DEF LedInv, AnswerIsOwn, Succeeds, AckOk
<1> QED
  BY <1>1, LedsCorrect, PTL DEF Spec, AckIsOwnAlone

----------------------------------------------------------------------------
\* What a thread has left to send, and its types.

\* The commands leds_blink_set sends, and what is left of them after the first.
BlinkJobs(l) ==
    {<< Cmd(l, "switch", 255), Cmd(l, "light", 0) >>} \cup {<< Cmd(l, m, 0) >> : m \in Modes}

JobFits(t, j) ==
    \A l \in Leds :
        /\ t \in {user(l), delay(l)} => j \in BlinkJobs(l)
        /\ t = work(l) => \E v \in 0..255 : j = << Cmd(l, "light", v) >>
        /\ t = color(l) => j = << Cmd(l, "color", 0) >>

JobsOwn == \A t \in Threads : pc[t] # "idle" => JobFits(t, job[t])

LedTypeInv == TypeOK /\ JobsOwn

\* Every thread belongs to one LED and has one role.
LEMMA ThreadsApart ==
    /\ \A t \in Threads : \E l \in Leds : t \in {user(l), delay(l), work(l), color(l)}
    /\ \A l \in Leds : /\ user(l) \in Threads /\ delay(l) \in Threads
                       /\ work(l) \in Threads /\ color(l) \in Threads
    /\ \A l, m \in Leds : /\ user(l) # work(m) /\ user(l) # color(m) /\ work(l) # color(m)
                          /\ delay(l) # user(m) /\ delay(l) # work(m) /\ delay(l) # color(m)
    /\ \A l, m \in Leds : (\/ user(l) = user(m) \/ delay(l) = delay(m)
                           \/ work(l) = work(m) \/ color(l) = color(m)) => l = m
    /\ Boot \notin Threads /\ None \notin Threads
<1>1. \A l, m \in Leds : /\ user(l) # work(m) /\ user(l) # color(m) /\ work(l) # color(m)
                         /\ delay(l) # user(m) /\ delay(l) # work(m) /\ delay(l) # color(m)
  BY DEF user, delay, work, color
<1>2. \A l, m \in Leds : (\/ user(l) = user(m) \/ delay(l) = delay(m)
                          \/ work(l) = work(m) \/ color(l) = color(m)) => l = m
  BY DEF user, delay, work, color
<1>3. \A l \in Leds : Boot # user(l) /\ Boot # delay(l) /\ Boot # work(l) /\ Boot # color(l)
  BY DEF Boot, user, delay, work, color
<1> QED
  BY <1>1, <1>2, <1>3, LedAssumption DEF Threads, Users, Works

\* Sequences of one and of two.
LEMMA ShortSeqs ==
    ASSUME NEW a, NEW b
    PROVE  /\ Len(<<a>>) = 1 /\ Head(<<a>>) = a /\ <<a>>[1] = a
           /\ Len(<<a, b>>) = 2 /\ Head(<<a, b>>) = a /\ <<a, b>>[1] = a /\ <<a, b>>[2] = b
           /\ Tail(<<a, b>>) = <<b>>
  OBVIOUS

\* The commands of a thread: at least one, each a command; what is left after the first is
\* again a job of the thread.
LEMMA JobFacts ==
    ASSUME NEW t \in Threads, NEW j, JobFits(t, j)
    PROVE  /\ j \in Seq(Command) /\ Len(j) \in {1, 2} /\ Head(j) = j[1] /\ j[1] \in Command
           /\ Len(j) = 2 => \E l \in Leds :
                /\ t \in {user(l), delay(l)} /\ Tail(j) = << Cmd(l, "light", 0) >>
                /\ j[2] = Cmd(l, "light", 0) /\ Tail(j) \in BlinkJobs(l)
<1>1. PICK l \in Leds : t \in {user(l), delay(l), work(l), color(l)}
  BY ThreadsApart
<1>2. ASSUME NEW k \in {"switch", "color"} \cup Modes, NEW v \in 0..255
      PROVE  Cmd(l, k, v) \in Command
  BY <1>1 DEF Cmd, Command, Kinds
<1>3. CASE \E c \in Command : j = <<c>>
  BY <1>3, ShortSeqs
<1>4. CASE t \in {user(l), delay(l)}
  <2>1. j \in BlinkJobs(l)
    BY <1>4 DEF JobFits
  <2>2. CASE j = << Cmd(l, "switch", 255), Cmd(l, "light", 0) >>
    <3>1. Cmd(l, "switch", 255) \in Command /\ Cmd(l, "light", 0) \in Command
      BY <1>2 DEF Modes
    <3>2. /\ Len(j) = 2 /\ Head(j) = Cmd(l, "switch", 255)
          /\ j[1] = Cmd(l, "switch", 255) /\ j[2] = Cmd(l, "light", 0)
          /\ Tail(j) = << Cmd(l, "light", 0) >>
      BY <2>2, ShortSeqs
    <3>3. j \in Seq(Command)
      BY <2>2, <3>1
    <3>4. Tail(j) \in BlinkJobs(l)
      BY <3>2 DEF BlinkJobs, Modes
    <3> QED
      BY <1>4, <3>1, <3>2, <3>3, <3>4
  <2>3. CASE \E k \in Modes : j = << Cmd(l, k, 0) >>
    <3>1. PICK k \in Modes : j = << Cmd(l, k, 0) >>
      BY <2>3
    <3>2. Cmd(l, k, 0) \in Command
      <4>1. k \in {"switch", "color"} \cup Modes /\ 0 \in 0..255
        OBVIOUS
      <4> QED
        BY <1>2, <4>1, Zenon
    <3> QED
      BY <1>3, <3>1, <3>2
  <2> QED
    BY <2>1, <2>2, <2>3 DEF BlinkJobs
<1>5. CASE t = work(l)
  <2>1. PICK v \in 0..255 : j = << Cmd(l, "light", v) >>
    BY <1>5 DEF JobFits
  <2>2. Cmd(l, "light", v) \in Command
    BY <1>2 DEF Modes
  <2> QED
    BY <1>3, <2>1, <2>2
<1>6. CASE t = color(l)
  <2>1. Cmd(l, "color", 0) \in Command
    BY <1>2
  <2> QED
    BY <1>3, <1>6, <2>1 DEF JobFits
<1> QED
  BY <1>1, <1>4, <1>5, <1>6

\* The kinds of job fit their threads.
LEMMA FittingJobs ==
    ASSUME NEW l \in Leds
    PROVE  /\ \A j \in BlinkJobs(l) : JobFits(user(l), j) /\ JobFits(delay(l), j)
           /\ \A v \in 0..255 : JobFits(work(l), << Cmd(l, "light", v) >>)
           /\ JobFits(color(l), << Cmd(l, "color", 0) >>)
  BY ThreadsApart DEF JobFits

\* What leds_blink_set sends for a trigger and what it leaves in the mode.
LEMMA BlinkFits ==
    ASSUME mode \in [Leds -> Modes], NEW l \in Leds, NEW tr \in Triggers
    PROVE  leds_blink_set(l, tr) \in BlinkJobs(l) /\ blink_mode(l, tr) \in Modes
<1>1. tr \in {"normal", "timer"} \cup Patterns /\ mode[l] \in Modes
  BY LedAssumption DEF HaveDelays
<1>2. tr # "none"
  BY <1>1 DEF Patterns
<1>3. CASE tr = "normal"
  BY <1>3 DEF leds_blink_set, blink_mode, BlinkJobs, Modes
<1>4. CASE tr \in Patterns
  BY <1>4 DEF leds_blink_set, blink_mode, BlinkJobs, Modes, Patterns
<1>5. CASE tr = "timer"
  BY <1>1, <1>5 DEF leds_blink_set, blink_mode, BlinkJobs, Patterns
<1> QED
  BY <1>1, <1>3, <1>4, <1>5

\* The part of the invariant that is about the threads.
ThreadsTyped ==
    /\ pc \in [Threads -> {"idle", "lock", "check"} \cup Exchanging]
    /\ job \in [Threads -> Seq(Command)]
    /\ left \in [Threads -> 1..Tries]
    /\ JobsOwn

\* A thread starts with a job of its own, or stops.
LEMMA StartTyped ==
    ASSUME ThreadsTyped, NEW t \in Threads, NEW j, NEW at \in {"idle", "lock", "send"},
           Start(t, j, at), IF at = "idle" THEN j = <<>> ELSE JobFits(t, j)
    PROVE  ThreadsTyped'
<1>1. j \in Seq(Command)
  <2>1. CASE at = "idle"
    <3>1. j = <<>>
      BY <2>1
    <3> QED
      BY <3>1
  <2>2. CASE at # "idle"
    <3>1. JobFits(t, j)
      BY <2>2
    <3> QED
      BY <3>1, JobFacts
  <2> QED
    BY <2>1, <2>2
<1>2. Tries \in 1..Tries
  BY LedAssumption
<1>3. /\ pc' \in [Threads -> {"idle", "lock", "check"} \cup Exchanging]
      /\ job' \in [Threads -> Seq(Command)] /\ left' \in [Threads -> 1..Tries]
  BY <1>1, <1>2 DEF ThreadsTyped, Start, Exchanging
<1>4. pc'[t] = at /\ job'[t] = j /\ \A u \in Threads \ {t} : pc'[u] = pc[u] /\ job'[u] = job[u]
  BY DEF ThreadsTyped, Start
<1> QED
  BY <1>3, <1>4 DEF ThreadsTyped, JobsOwn

\* Who is in an exchange has something to send, one or two commands.
LEMMA BusyFacts ==
    ASSUME ThreadsTyped, NEW t \in Threads, pc[t] # "idle"
    PROVE  /\ JobFits(t, job[t]) /\ Head(job[t]) \in Command /\ Head(job[t]) = job[t][1]
           /\ Len(job[t]) \in {1, 2} /\ job[t][Len(job[t])] \in Command
           /\ Len(job[t]) > 1 => JobFits(t, Tail(job[t]))
<1>1. PICK j : j = job[t]
  OBVIOUS
<1>2. JobFits(t, j)
  BY <1>1 DEF ThreadsTyped, JobsOwn
<1>3. /\ j \in Seq(Command) /\ Len(j) \in {1, 2} /\ Head(j) = j[1] /\ j[1] \in Command
      /\ Len(j) = 2 => \E l \in Leds : /\ t \in {user(l), delay(l)}
                                       /\ Tail(j) \in BlinkJobs(l)
  BY <1>2, JobFacts
<1>4. Len(j) > 1 => JobFits(t, Tail(j))
  <2> SUFFICES ASSUME Len(j) > 1 PROVE JobFits(t, Tail(j))
    OBVIOUS
  <2>1. Len(j) = 2
    <3>1. Len(j) \in Nat /\ (Len(j) = 1 \/ Len(j) = 2)
      BY <1>3
    <3> QED
      BY <3>1
  <2>2. PICK l \in Leds : t \in {user(l), delay(l)} /\ Tail(j) \in BlinkJobs(l)
    BY <1>3, <2>1
  <2>3. JobFits(user(l), Tail(j)) /\ JobFits(delay(l), Tail(j))
    BY <2>2, FittingJobs
  <2> QED
    BY <2>2, <2>3
<1>5. j[Len(j)] \in Command
  BY <1>3
<1> QED
  BY <1>1, <1>2, <1>3, <1>4, <1>5

\* One step of an exchange keeps the types of the threads.
LEMMA ExchangeTyped ==
    ASSUME ThreadsTyped, NEW t \in Threads, Exchange(t)
    PROVE  ThreadsTyped'
<1>1. ASSUME Retry(t), Busy(t) PROVE ThreadsTyped'
  <2>1. CASE left[t] > 1
    <3>1. UNCHANGED <<pc, job>> /\ left' = [left EXCEPT ![t] = left[t] - 1]
      BY <1>1, <2>1 DEF Retry
    <3>2. left' \in [Threads -> 1..Tries]
      BY <2>1, <3>1, LedAssumption DEF ThreadsTyped
    <3> QED
      BY <3>1, <3>2 DEF ThreadsTyped, JobsOwn
  <2>2. CASE ~(left[t] > 1)
    BY <1>1, <2>2, StartTyped DEF Retry, GiveUp, Return
  <2> QED
    BY <2>1, <2>2
<1>2. CASE AckMiss(t)
  BY <1>1, <1>2 DEF AckMiss, Busy, Exchanging
<1>3. CASE AckOk(t)
  <2>1. pc[t] # "idle"
    BY <1>3 DEF AckOk
  <2>2. CASE Len(job[t]) > 1
    BY <1>3, <2>1, <2>2, BusyFacts, StartTyped DEF AckOk
  <2>3. CASE ~(Len(job[t]) > 1)
    BY <1>3, <2>3, StartTyped DEF AckOk, Return
  <2> QED
    BY <2>2, <2>3
<1>4. CASE Send(t)
  <2>1. Busy(t)
    BY <1>4 DEF Send, Busy, Exchanging
  <2>2. CASE pc' = [pc EXCEPT ![t] = "ack"] /\ left' = [left EXCEPT ![t] = Tries] /\ job' = job
    <3>1. Tries \in 1..Tries
      BY LedAssumption
    <3>2. JobsOwn'
      BY <2>2, <1>4 DEF ThreadsTyped, JobsOwn, Send
    <3> QED
      BY <2>2, <3>1, <3>2 DEF ThreadsTyped, Exchanging
  <2> QED
    BY <1>1, <1>4, <2>1, <2>2 DEF Send
<1> QED
  BY <1>2, <1>3, <1>4 DEF Exchange

\* What TypeOK says of the variables that are not the threads'.
LedsTyped ==
    /\ trigger \in [Leds -> Triggers \cup {"none"}]
    /\ light \in [Leds -> (Levels \cup {0, LED_FULL}) \ {1}] /\ pending \in [Leds -> BOOLEAN]
    /\ mode \in [Leds -> Modes]
    /\ mutex \in Users \cup {None}
    /\ life \in {"loaded", "cancelled", "unregistered", "freed"}

McuTyped ==
    /\ buf = None \/ buf \in Message
    /\ flag \in {0, 1} /\ last \in [Leds -> Command]

HistoryTyped ==
    /\ want \in [Leds -> SUBSET Command]
    /\ ran \subseteq Threads /\ met \subseteq Threads

\* The type invariant in these parts, before and after a step.
LEMMA TypeParts ==
    /\ LedTypeInv <=> ThreadsTyped /\ LedsTyped /\ McuTyped /\ HistoryTyped
    /\ LedTypeInv' <=> ThreadsTyped' /\ LedsTyped' /\ McuTyped' /\ HistoryTyped'
  BY DEF LedTypeInv, TypeOK, ThreadsTyped, LedsTyped, McuTyped, HistoryTyped

\* A level that is stored makes a command of the work.
LEMMA LevelFits ==
    ASSUME NEW l \in Leds, NEW v \in Levels \cup {0, LED_FULL}
    PROVE  v \in 0..255 /\ Cmd(l, "light", v) \in Command
<1>1. v \in 0..255
  BY LedAssumption DEF LED_FULL
<1> QED
  BY <1>1 DEF Cmd, Command, Kinds, Modes

\* What is to come are commands.
LEMMA ToComeTyped ==
    ASSUME NEW l \in Leds
    PROVE  /\ LedsTyped /\ ThreadsTyped => LightToCome(l) \subseteq Command
           /\ (LedsTyped /\ ThreadsTyped)' => LightToCome(l)' \subseteq Command
           /\ ThreadsTyped => BlinkToCome(l) \subseteq Command
<1>1. user(l) \in Threads /\ delay(l) \in Threads /\ work(l) \in Threads
  BY ThreadsApart
<1>2. ASSUME LedsTyped, ThreadsTyped PROVE LightToCome(l) \subseteq Command
  <2>1. CASE pending[l]
    BY <1>2, <2>1, LevelFits DEF LedsTyped, LightToCome
  <2>2. CASE ~pending[l]
    BY <1>1, <1>2, <2>2, BusyFacts DEF LightToCome
  <2> QED
    BY <2>1, <2>2
<1>3. ASSUME LedsTyped', ThreadsTyped' PROVE LightToCome(l)' \subseteq Command
  <2>1. CASE pending'[l]
    BY <1>3, <2>1, LevelFits DEF LedsTyped, LightToCome
  <2>2. CASE ~pending'[l]
    <3>1. ASSUME pc'[work(l)] = "send" PROVE Head(job'[work(l)]) \in Command
      <4>1. JobFits(work(l), job'[work(l)])
        BY <1>1, <1>3, <3>1 DEF ThreadsTyped, JobsOwn
      <4> QED
        BY <1>1, <4>1, JobFacts
    <3> QED
      BY <2>2, <3>1 DEF LightToCome
  <2> QED
    BY <2>1, <2>2
<1>4. ASSUME ThreadsTyped PROVE BlinkToCome(l) \subseteq Command
  BY <1>1, <1>4, BusyFacts DEF BlinkToCome
<1> QED
  BY <1>2, <1>3, <1>4

\* What is asked of an LED are commands.
LEMMA AskTyped ==
    ASSUME want \in [Leds -> SUBSET Command],
           NEW l \in Leds, NEW cmds \in SUBSET Command, Ask(l, cmds)
    PROVE  want' \in [Leds -> SUBSET Command]
  BY DEF Ask

\* What a trigger's commands end with is a command.
LEMMA FinalTyped ==
    ASSUME mode \in [Leds -> Modes], NEW l \in Leds, NEW tr \in Triggers
    PROVE  Final(l, tr) \in Command
<1>1. JobFits(user(l), leds_blink_set(l, tr)) /\ user(l) \in Threads
  <2>1. leds_blink_set(l, tr) \in BlinkJobs(l)
    BY BlinkFits
  <2> QED
    BY <2>1, FittingJobs, ThreadsApart
<1>2. \A j : JobFits(user(l), j) => j[Len(j)] \in Command
  <2> SUFFICES ASSUME NEW j, JobFits(user(l), j) PROVE j[Len(j)] \in Command
    OBVIOUS
  <2>1. Len(j) \in {1, 2} /\ j[1] \in Command /\ j \in Seq(Command)
    BY <1>1, JobFacts
  <2> QED
    BY <2>1
<1> QED
  BY <1>1, <1>2 DEF Final

\* The types hold at the start.
LEMMA LedTypeInit == Init => LedTypeInv
<1> SUFFICES ASSUME Init PROVE LedTypeInv
  OBVIOUS
<1>1. ThreadsTyped
  BY LedAssumption DEF Init, ThreadsTyped, JobsOwn, Exchanging
<1>2. LedsTyped
  BY DEF Init, LedsTyped, Modes, LED_FULL
<1>3. \A l \in Leds : Cmd(l, "light", LED_FULL) \in Command
  BY LevelFits
<1>4. McuTyped /\ HistoryTyped
  BY <1>3 DEF Init, McuTyped, HistoryTyped
<1> QED
  BY <1>1, <1>2, <1>4, TypeParts

\* The brightness that is stored is a value of eight bits.
LEMMA LevelTyped ==
    ASSUME LedsTyped, NEW l \in Leds, NEW v \in Levels \cup {0}, leds_brightness_set(l, v)
    PROVE  /\ light' \in [Leds -> (Levels \cup {0, LED_FULL}) \ {1}]
           /\ pending' \in [Leds -> BOOLEAN]
  BY LedAssumption DEF LedsTyped, leds_brightness_set, LED_FULL

\* Led_blink_set keeps the types of the threads and of the modes.
LEMMA BlinkTyped ==
    ASSUME ThreadsTyped, mode \in [Leds -> Modes], NEW l \in Leds, NEW tr \in Triggers,
           NEW t \in {user(l), delay(l)}, Blink(t, l, tr)
    PROVE  ThreadsTyped' /\ mode' \in [Leds -> Modes]
<1>1. JobFits(t, leds_blink_set(l, tr)) /\ t \in Threads
  <2>1. leds_blink_set(l, tr) \in BlinkJobs(l)
    BY BlinkFits
  <2>2. JobFits(user(l), leds_blink_set(l, tr)) /\ JobFits(delay(l), leds_blink_set(l, tr))
    BY <2>1, FittingJobs
  <2> QED
    BY <2>2, ThreadsApart
<1> QED
  BY <1>1, BlinkFits, StartTyped DEF Blink

\* A sysfs write keeps the types.
LEMMA WriterTyped ==
    ASSUME LedTypeInv, NEW l \in Leds,
           SetBrightness(l) \/ SetTrigger(l) \/ SetDelay(l) \/ color_set(l)
    PROVE  LedTypeInv'
<1>1. ThreadsTyped /\ LedsTyped /\ McuTyped /\ HistoryTyped /\ mode \in [Leds -> Modes]
  BY TypeParts DEF LedsTyped
<1>2. UNCHANGED <<mutex, buf, flag, last, life, ran, met>>
  BY DEF SetBrightness, SetTrigger, SetDelay, color_set, threadVars, mcuVars, history
<1>3. user(l) \in Threads /\ color(l) \in Threads /\ work(l) \in Threads
  BY ThreadsApart
<1>4. McuTyped'
  BY <1>1, <1>2 DEF McuTyped
<1>5. CASE SetBrightness(l)
  <2>1. UNCHANGED <<pc, job, left, mode>>
    BY <1>5 DEF SetBrightness, threadVars
  <2>2. PICK v \in Levels :
            /\ leds_brightness_set(l, v)
            /\ trigger' = IF v = 0 THEN [trigger EXCEPT ![l] = "none"] ELSE trigger
            /\ Ask(l, {Cmd(l, "light", light'[l])} \cup BlinkToCome(l))
    BY <1>5 DEF SetBrightness
  <2>3. LedsTyped'
    BY <1>1, <1>2, <2>1, <2>2, LevelTyped DEF LedsTyped
  <2>4. {Cmd(l, "light", light'[l])} \cup BlinkToCome(l) \subseteq Command
    BY <1>1, <2>3, LevelFits, ToComeTyped DEF LedsTyped
  <2>5. HistoryTyped'
    BY <1>1, <1>2, <2>2, <2>4, AskTyped DEF HistoryTyped
  <2>6. ThreadsTyped'
    BY <1>1, <2>1 DEF ThreadsTyped, JobsOwn
  <2> QED
    BY <1>4, <2>3, <2>5, <2>6, TypeParts
<1>6. CASE SetTrigger(l)
  <2>1. light' \in [Leds -> (Levels \cup {0, LED_FULL}) \ {1}] /\ pending' \in [Leds -> BOOLEAN]
    <3>1. CASE trigger[l] = "none"
      BY <1>1, <1>6, <3>1 DEF SetTrigger, LedsTyped
    <3>2. CASE trigger[l] # "none"
      BY <1>1, <1>6, <3>2, LevelTyped DEF SetTrigger
    <3> QED
      BY <3>1, <3>2
  <2>2. PICK tr \in (Triggers \cup {"none"}) \ {trigger[l]} :
            /\ trigger' = [trigger EXCEPT ![l] = tr]
            /\ IF tr = "none"
                 THEN UNCHANGED <<pc, job, left, mode>> /\ Ask(l, {Cmd(l, "light", 0)})
                 ELSE Blink(user(l), l, tr) /\ Ask(l, {Final(l, tr)} \cup LightToCome(l)')
    BY <1>6 DEF SetTrigger
  <2>3. CASE tr = "none"
    <3>1. UNCHANGED <<pc, job, left, mode>> /\ Ask(l, {Cmd(l, "light", 0)})
      BY <2>2, <2>3
    <3>2. LedsTyped'
      BY <1>1, <1>2, <2>1, <2>2, <3>1 DEF LedsTyped
    <3>3. HistoryTyped'
      BY <1>1, <1>2, <3>1, LevelFits, AskTyped DEF HistoryTyped
    <3>4. ThreadsTyped'
      BY <1>1, <3>1 DEF ThreadsTyped, JobsOwn
    <3> QED
      BY <1>4, <3>2, <3>3, <3>4, TypeParts
  <2>4. CASE tr # "none"
    <3>1. Blink(user(l), l, tr) /\ Ask(l, {Final(l, tr)} \cup LightToCome(l)') /\ tr \in Triggers
      BY <2>2, <2>4
    <3>2. ThreadsTyped' /\ mode' \in [Leds -> Modes]
      BY <1>1, <3>1, BlinkTyped
    <3>3. LedsTyped'
      BY <1>1, <1>2, <2>1, <2>2, <3>2 DEF LedsTyped
    <3>4. {Final(l, tr)} \cup LightToCome(l)' \subseteq Command
      BY <1>1, <3>1, <3>2, <3>3, FinalTyped, ToComeTyped
    <3>5. HistoryTyped'
      BY <1>1, <1>2, <3>1, <3>4, AskTyped DEF HistoryTyped
    <3> QED
      BY <1>4, <3>2, <3>3, <3>5, TypeParts
  <2> QED
    BY <2>3, <2>4
<1>7. CASE SetDelay(l)
  <2>1. /\ Blink(delay(l), l, trigger[l]) /\ UNCHANGED <<trigger, light, pending>>
        /\ Ask(l, {Final(l, trigger[l])} \cup LightToCome(l)) /\ trigger[l] \in Triggers
    <3>1. "none" \notin HaveDelays
      BY DEF HaveDelays, Patterns
    <3> QED
      BY <1>1, <1>7, <3>1 DEF SetDelay, LedsTyped
  <2>2. ThreadsTyped' /\ mode' \in [Leds -> Modes]
    BY <1>1, <2>1, BlinkTyped
  <2>3. {Final(l, trigger[l])} \cup LightToCome(l) \subseteq Command
    BY <1>1, <2>1, FinalTyped, ToComeTyped
  <2>4. HistoryTyped'
    BY <1>1, <1>2, <2>1, <2>3, AskTyped DEF HistoryTyped
  <2>5. LedsTyped'
    BY <1>1, <1>2, <2>1, <2>2 DEF LedsTyped
  <2> QED
    BY <1>4, <2>2, <2>4, <2>5, TypeParts
<1>8. CASE color_set(l)
  <2>1. /\ Start(color(l), << Cmd(l, "color", 0) >>, "lock")
        /\ UNCHANGED <<trigger, light, pending, mode, want>>
    BY <1>8 DEF color_set, ledVars, history
  <2>2. ThreadsTyped'
    BY <1>1, <1>3, <2>1, StartTyped, FittingJobs
  <2>3. LedsTyped' /\ HistoryTyped'
    BY <1>1, <1>2, <2>1 DEF LedsTyped, HistoryTyped
  <2> QED
    BY <1>4, <2>2, <2>3, TypeParts
<1> QED
  BY <1>5, <1>6, <1>7, <1>8

\* A step of an exchange keeps the types.
LEMMA ExchangeKeepsTypes ==
    ASSUME LedTypeInv, NEW t \in Threads, Exchange(t)
    PROVE  LedTypeInv'
<1>1. ThreadsTyped /\ LedsTyped /\ McuTyped /\ HistoryTyped
  BY TypeParts
<1>2. ThreadsTyped'
  BY <1>1, ExchangeTyped
<1>3. pc[t] # "idle" /\ UNCHANGED <<trigger, light, pending, mode, last, life>>
  BY DEF Exchange, Send, AckOk, AckMiss, ledVars, mcuVars
<1>4. Head(job[t]) \in Command
  BY <1>1, <1>3, BusyFacts
<1>5. mutex' \in {mutex, None} /\ ran' \subseteq ran /\ met' \subseteq met
  BY DEF Exchange, Send, AckOk, AckMiss, Retry, GiveUp, Return
<1>6. LedsTyped'
  BY <1>1, <1>3, <1>5 DEF LedsTyped
<1>7. flag' \in {0, 1} /\ (buf' = None \/ buf' \in Message)
  BY <1>1, <1>4 DEF Exchange, Send, AckOk, AckMiss, McuTyped, Message, mcuVars
<1>8. McuTyped'
  BY <1>1, <1>3, <1>7 DEF McuTyped
<1>9. UNCHANGED want \/ want' = [l \in Leds |-> {}]
  BY DEF Exchange, Send, AckOk, AckMiss, Lose
<1>10. HistoryTyped'
  BY <1>1, <1>5, <1>9 DEF HistoryTyped
<1> QED
  BY <1>2, <1>6, <1>8, <1>10, TypeParts

\* The MCU and the notifier keep the types.
LEMMA McuKeepsTypes ==
    ASSUME LedTypeInv, McuRun \/ McuReject \/ ug_notifier_call
    PROVE  LedTypeInv'
<1>1. ThreadsTyped /\ LedsTyped /\ McuTyped /\ HistoryTyped
  BY TypeParts
<1>2. UNCHANGED <<trigger, light, pending, mode, pc, job, left, mutex, life>>
  BY DEF McuRun, McuReject, ug_notifier_call, ledVars, threadVars
<1>3. ThreadsTyped' /\ LedsTyped'
  BY <1>1, <1>2 DEF ThreadsTyped, LedsTyped, JobsOwn
<1>4. ASSUME NEW l \in Leds PROVE Cmd(l, "shutdown", 0) \in Command
  BY DEF Cmd, Command, Kinds
<1>5. McuTyped'
  <2>1. CASE McuRun
    BY <1>1, <2>1 DEF McuRun, McuTyped, Message, Command
  <2>2. CASE McuReject
    BY <1>1, <2>2 DEF McuReject, McuTyped
  <2>3. CASE ug_notifier_call
    BY <1>1, <1>4, <2>3 DEF ug_notifier_call, McuTyped, Message
  <2> QED
    BY <2>1, <2>2, <2>3
<1>6. HistoryTyped'
  <2>1. CASE McuRun
    BY <1>1, <2>1 DEF McuRun, HistoryTyped
  <2>2. CASE McuReject
    BY <1>1, <2>2 DEF McuReject, HistoryTyped, Lose
  <2>3. CASE ug_notifier_call
    BY <1>1, <2>3 DEF ug_notifier_call, HistoryTyped, Lose, Exchangers
  <2> QED
    BY <2>1, <2>2, <2>3
<1> QED
  BY <1>3, <1>5, <1>6, TypeParts

\* Who takes the mutex or enters an exchange keeps the types, and so does a refused color.
LEMMA EnterKeepsTypes ==
    ASSUME LedTypeInv,
           \/ \E t \in Threads : Lock(t)
           \/ \E l \in Leds : color_set_accepted(l) \/ color_set_refused(l) \/ brightness_work(l)
    PROVE  LedTypeInv'
<1>1. ThreadsTyped /\ LedsTyped /\ McuTyped /\ HistoryTyped
  BY TypeParts
<1>2. UNCHANGED <<trigger, light, mode, buf, flag, last, life, want>>
  BY DEF Lock, color_set_accepted, color_set_refused, brightness_work, ledVars, mcuVars
<1>3. McuTyped'
  BY <1>1, <1>2 DEF McuTyped
<1>4. ASSUME NEW t \in Threads, Lock(t) \/ (\E l \in Leds : t = color(l) /\ color_set_accepted(l))
      PROVE  LedTypeInv'
  <2>1. /\ mutex' \in Users \cup {None} /\ UNCHANGED <<pending, job, left, ran>>
        /\ pc[t] # "idle" /\ \E at \in {"check", "send"} : pc' = [pc EXCEPT ![t] = at]
        /\ met' \in {met, met \cup Exchangers \cup {t}}
    BY <1>1, <1>4 DEF Lock, color_set_accepted, Enter, ledVars, LedsTyped
  <2>2. ThreadsTyped'
    BY <1>1, <2>1 DEF ThreadsTyped, JobsOwn, Exchanging
  <2>3. LedsTyped' /\ HistoryTyped'
    BY <1>1, <1>2, <2>1 DEF LedsTyped, HistoryTyped, Exchangers
  <2> QED
    BY <1>3, <2>2, <2>3, TypeParts
<1>5. ASSUME NEW l \in Leds, color_set_refused(l) PROVE LedTypeInv'
  <2>1. /\ Return(color(l)) /\ pending' = pending /\ color(l) \in Threads
    BY <1>5, ThreadsApart DEF color_set_refused, ledVars
  <2>2. ThreadsTyped'
    BY <1>1, <2>1, StartTyped DEF Return
  <2>3. LedsTyped' /\ HistoryTyped'
    BY <1>1, <1>2, <2>1 DEF Return, LedsTyped, HistoryTyped
  <2> QED
    BY <1>3, <2>2, <2>3, TypeParts
<1>6. ASSUME NEW l \in Leds, brightness_work(l) PROVE LedTypeInv'
  <2>1. /\ mutex' = mutex /\ ran' = ran /\ pending' = [pending EXCEPT ![l] = FALSE]
        /\ Start(work(l), << Cmd(l, "light", light[l]) >>, "send")
        /\ met' \in {met, met \cup Exchangers \cup {work(l)}}
    BY <1>6 DEF brightness_work, Enter, Start
  <2>2. light[l] \in 0..255
    BY <1>1, LevelFits DEF LedsTyped
  <2>3. JobFits(work(l), << Cmd(l, "light", light[l]) >>) /\ work(l) \in Threads
    BY <2>2, FittingJobs, ThreadsApart
  <2>4. ThreadsTyped'
    BY <1>1, <2>1, <2>3, StartTyped
  <2>5. LedsTyped' /\ HistoryTyped'
    BY <1>1, <1>2, <2>1, <2>3 DEF LedsTyped, HistoryTyped, Exchangers
  <2> QED
    BY <1>3, <2>4, <2>5, TypeParts
<1> QED
  BY <1>4, <1>5, <1>6, ThreadsApart

\* Every step keeps the types.
LEMMA LedTypeStep == LedTypeInv /\ [Next]_vars => LedTypeInv'
<1> SUFFICES ASSUME LedTypeInv, [Next]_vars PROVE LedTypeInv'
  OBVIOUS
<1>1. ThreadsTyped /\ LedsTyped /\ McuTyped /\ HistoryTyped
  BY TypeParts
<1>2. CASE RemoveCancel \/ RemoveUnregister \/ RemoveFree \/ UNCHANGED vars
  <2>1. UNCHANGED <<mode, pc, job, left, mutex, buf, flag, last, ran, met, want>>
    BY <1>2
    DEF RemoveCancel, RemoveUnregister, RemoveFree, vars, ledVars, threadVars, mcuVars, history
  <2>2. LedsTyped'
    <3>1. /\ trigger' = trigger \/ trigger' = [l \in Leds |-> "none"]
          /\ light' = light \/ light' = [l \in Leds |-> 0]
          /\ \/ pending' = pending \/ pending' = [l \in Leds |-> FALSE]
             \/ pending' = [l \in Leds |-> TRUE]
          /\ life' \in {life, "cancelled", "unregistered", "freed"}
      BY <1>2 DEF RemoveCancel, RemoveUnregister, RemoveFree, vars, ledVars
    <3>2. 0 \in (Levels \cup {0, LED_FULL}) \ {1}
      OBVIOUS
    <3> QED
      BY <1>1, <2>1, <3>1, <3>2 DEF LedsTyped
  <2>3. ThreadsTyped' /\ McuTyped' /\ HistoryTyped'
    BY <1>1, <2>1 DEF ThreadsTyped, JobsOwn, McuTyped, HistoryTyped
  <2> QED
    BY <2>2, <2>3, TypeParts
<1> QED
  BY <1>2, WriterTyped, ExchangeKeepsTypes, McuKeepsTypes, EnterKeepsTypes DEF Next

\* For any number of LEDs, any levels and any number of tries, every variable stays in its
\* range, the tries left of an exchange in particular.
THEOREM LedTypes == Spec => []TypeOK
<1>1. LedTypeInv => TypeOK
  BY DEF LedTypeInv
<1> QED
  BY <1>1, LedTypeInit, LedTypeStep, PTL DEF Spec

----------------------------------------------------------------------------
\* The last command asked of an LED is the last one the MCU runs for it.

\* The writer t has its last command still to send.
ToSend(t) == pc[t] # "idle" /\ (pc[t] = "ack" => Len(job[t]) > 1)

\* The MCU has run what was asked of the LED, or holds it.
Shows(l) ==
    IF buf # None /\ buf.cmd.led = l /\ buf.cmd.kind \notin {"color", "shutdown"}
      THEN buf.cmd \in want[l] ELSE last[l] \in want[l]

\* Where the command is that was asked of the LED: in the stored level while the work is
\* queued, with the work or a writer that has it to send, or at the MCU; and whatever is to
\* be sent for the LED was asked.
OnItsWay(l) ==
    want[l] # {} /\ life = "loaded" =>
        /\ pending[l] => Cmd(l, "light", light[l]) \in want[l]
        /\ ~pending[l] /\ pc[work(l)] = "send" => Head(job[work(l)]) \in want[l]
        /\ \A t \in {user(l), delay(l)} : ToSend(t) => job[t][Len(job[t])] \in want[l]
        /\ \/ pending[l] \/ pc[work(l)] = "send" \/ ToSend(user(l)) \/ ToSend(delay(l))
           \/ Shows(l)

AskInv == LedTypeInv /\ \A l \in Leds : OnItsWay(l)

\* The command at the head of a job is one for the thread's own LED, and about its color
\* in the color's thread only.
LEMMA HeadOwn ==
    ASSUME NEW t \in Threads, NEW l \in Leds, NEW j, JobFits(t, j)
    PROVE  /\ t \in {user(l), delay(l), work(l)} =>
                 Head(j).led = l /\ Head(j).kind \notin {"color", "shutdown"}
           /\ t = color(l) => Head(j).kind = "color"
<1>1. \A k, v : Cmd(l, k, v).led = l /\ Cmd(l, k, v).kind = k
  BY DEF Cmd
<1>2. CASE t \in {user(l), delay(l)}
  <2>1. j \in BlinkJobs(l)
    BY <1>2 DEF JobFits
  <2>2. \E k \in {"switch"} \cup Modes : \E v : Head(j) = Cmd(l, k, v)
    <3>1. CASE j = << Cmd(l, "switch", 255), Cmd(l, "light", 0) >>
      BY <3>1, ShortSeqs
    <3>2. CASE \E m \in Modes : j = << Cmd(l, m, 0) >>
      <4>1. PICK m \in Modes : j = << Cmd(l, m, 0) >>
        BY <3>2
      <4>2. Head(j) = Cmd(l, m, 0)
        BY <4>1, ShortSeqs
      <4> QED
        BY <4>2
    <3> QED
      BY <2>1, <3>1, <3>2 DEF BlinkJobs
  <2>3. "color" \notin {"switch"} \cup Modes /\ "shutdown" \notin {"switch"} \cup Modes
    BY DEF Modes, Patterns
  <2> QED
    BY <1>1, <1>2, <2>2, <2>3, ThreadsApart
<1>3. CASE t = work(l)
  <2>1. \E v : Head(j) = Cmd(l, "light", v)
    BY <1>3, ShortSeqs DEF JobFits
  <2> QED
    BY <1>1, <1>3, <2>1, ThreadsApart
<1>4. CASE t = color(l)
  <2>1. Head(j) = Cmd(l, "color", 0)
    BY <1>4, ShortSeqs DEF JobFits
  <2> QED
    BY <1>1, <1>4, <2>1, ThreadsApart
<1> QED
  BY <1>2, <1>3, <1>4

\* A step that leaves the LED's own threads where they are, or lets a writer have the
\* mutex, and does not take from the MCU what it shows.
LEMMA AsideKeeps ==
    ASSUME NEW l \in Leds, OnItsWay(l), want'[l] = want[l], life' = life \/ life' # "loaded",
           pending'[l] = pending[l], light'[l] = light[l],
           \A t \in {user(l), delay(l), work(l)} : job'[t] = job[t],
           pc'[work(l)] = pc[work(l)],
           \A t \in {user(l), delay(l)} :
               pc'[t] = pc[t] \/ (pc[t] = "lock" /\ pc'[t] = "send"),
           Shows(l) => Shows(l)'
    PROVE  OnItsWay(l)'
<1>1. \A t \in {user(l), delay(l)} : ToSend(t)' <=> ToSend(t)
  BY DEF ToSend
<1> QED
  BY <1>1 DEF OnItsWay

\* The start: everything is idle and the MCU shows its initial light.
LEMMA AskInit == Init => AskInv
<1> SUFFICES ASSUME Init PROVE AskInv
  OBVIOUS
<1>1. \A l \in Leds : OnItsWay(l)
  BY ThreadsApart DEF Init, OnItsWay, ToSend, Shows
<1> QED
  BY <1>1, LedTypeInit DEF AskInv

\* leds_blink_set starts in the one thread of the LED that blinks: its last command is asked,
\* and so is the brightness that is still to come.
LEMMA BlinkAsks ==
    ASSUME LedTypeInv, NEW l \in Leds, NEW tr, NEW t \in {user(l), delay(l)},
           pc[user(l)] = "idle", pc[delay(l)] = "idle",
           Blink(t, l, tr), Ask(l, {Final(l, tr)} \cup LightToCome(l)')
    PROVE  OnItsWay(l)'
<1>1. /\ pc \in [Threads -> {"idle", "lock", "check"} \cup Exchanging]
      /\ job \in [Threads -> Seq(Command)] /\ want \in [Leds -> SUBSET Command]
  BY DEF LedTypeInv, TypeOK
<1>2. /\ user(l) \in Threads /\ delay(l) \in Threads /\ work(l) \in Threads
      /\ user(l) # delay(l) /\ work(l) # user(l) /\ work(l) # delay(l)
  BY ThreadsApart
<1>3. /\ pc'[t] = "lock" /\ job'[t] = leds_blink_set(l, tr)
      /\ \A u \in {user(l), delay(l)} \ {t} : pc'[u] = "idle"
  BY <1>1, <1>2 DEF Blink, Start
<1>4. want'[l] # {} => want'[l] = {Final(l, tr)} \cup LightToCome(l)'
  BY <1>1 DEF Ask
<1>5. /\ pending'[l] => Cmd(l, "light", light'[l]) \in LightToCome(l)'
      /\ ~pending'[l] /\ pc'[work(l)] = "send" => Head(job'[work(l)]) \in LightToCome(l)'
  BY DEF LightToCome
<1>6. ToSend(t)' /\ job'[t][Len(job'[t])] = Final(l, tr)
  BY <1>3 DEF ToSend, Final
<1>7. \A u \in {user(l), delay(l)} : ToSend(u)' => u = t
  BY <1>3 DEF ToSend
<1> QED
  BY <1>4, <1>5, <1>6, <1>7 DEF OnItsWay

\* A sysfs write: its LED has a new command on the way, the other LEDs are left alone.
LEMMA WriterAsks ==
    ASSUME LedTypeInv, NEW l \in Leds, NEW k \in Leds, OnItsWay(k),
           SetBrightness(l) \/ SetTrigger(l) \/ SetDelay(l) \/ color_set(l)
    PROVE  OnItsWay(k)'
<1>1. UNCHANGED <<buf, last, life>>
  BY DEF SetBrightness, SetTrigger, SetDelay, color_set, mcuVars
<1>2. /\ light \in [Leds -> (Levels \cup {0, LED_FULL}) \ {1}]
      /\ pending \in [Leds -> BOOLEAN] /\ want \in [Leds -> SUBSET Command]
      /\ pc \in [Threads -> {"idle", "lock", "check"} \cup Exchanging]
      /\ job \in [Threads -> Seq(Command)]
  BY DEF LedTypeInv, TypeOK
<1>3. user(l) \in Threads /\ delay(l) \in Threads /\ color(l) \in Threads
  BY ThreadsApart
<1>4. \A t \in Threads : t \notin {user(l), delay(l), color(l)} => pc'[t] = pc[t] /\ job'[t] = job[t]
  <2>1. \/ UNCHANGED <<pc, job>>
        \/ \E t \in {user(l), delay(l), color(l)} : \E j : Start(t, j, "lock")
    BY DEF SetBrightness, SetTrigger, SetDelay, color_set, Blink, threadVars
  <2> QED
    BY <1>2, <1>3, <2>1 DEF Start
<1>5. CASE k # l
  <2>1. want'[k] = want[k] /\ light'[k] = light[k] /\ pending'[k] = pending[k]
    BY <1>2, <1>5
    DEF SetBrightness, SetTrigger, SetDelay, color_set, Ask, leds_brightness_set, ledVars, history
  <2>2. /\ user(k) \in Threads /\ delay(k) \in Threads /\ work(k) \in Threads
        /\ \A t \in {user(k), delay(k), work(k)} : t \notin {user(l), delay(l), color(l)}
    BY <1>5, ThreadsApart
  <2>3. Shows(k) => Shows(k)'
    BY <1>1, <2>1 DEF Shows
  <2> QED
    BY <1>1, <1>4, <2>1, <2>2, <2>3, AsideKeeps
<1>6. CASE k = l /\ color_set(l)
  <2>1. UNCHANGED <<want, light, pending>>
    BY <1>6 DEF color_set, ledVars, history
  <2>2. \A t \in Threads : t # color(l) => pc'[t] = pc[t] /\ job'[t] = job[t]
    BY <1>2, <1>6 DEF color_set, Start
  <2>3. Shows(k) => Shows(k)'
    BY <1>1, <2>1 DEF Shows
  <2> QED
    BY <1>1, <1>6, <2>1, <2>2, <2>3, AsideKeeps, ThreadsApart
<1>7. CASE k = l /\ SetBrightness(l)
  <2>1. UNCHANGED <<pc, job>> /\ pc[user(l)] = "idle"
    BY <1>7 DEF SetBrightness, Free, Activating, threadVars
  <2>2. pending'[l] = TRUE /\ Ask(l, {Cmd(l, "light", light'[l])} \cup BlinkToCome(l))
    BY <1>2, <1>7 DEF SetBrightness, leds_brightness_set
  <2>3. want'[l] # {} => want'[l] = {Cmd(l, "light", light'[l])} \cup BlinkToCome(l)
    BY <1>2, <2>2 DEF Ask
  <2>4. \A t \in {user(l), delay(l)} : ToSend(t)' => job'[t][Len(job'[t])] \in BlinkToCome(l)
    BY <2>1 DEF ToSend, BlinkToCome
  <2> QED
    BY <1>7, <2>2, <2>3, <2>4 DEF OnItsWay
<1>8. CASE k = l /\ SetDelay(l)
  <2>1. /\ pc[user(l)] = "idle" /\ pc[delay(l)] = "idle" /\ Blink(delay(l), l, trigger[l])
        /\ Ask(l, {Final(l, trigger[l])} \cup LightToCome(l)) /\ UNCHANGED <<light, pending>>
    BY <1>8 DEF SetDelay, Activating
  <2>2. pc'[work(l)] = pc[work(l)] /\ job'[work(l)] = job[work(l)]
    BY <1>4, ThreadsApart
  <2>3. LightToCome(l)' = LightToCome(l)
    BY <2>1, <2>2 DEF LightToCome
  <2> QED
    BY <1>8, <2>1, <2>3, BlinkAsks
<1>9. CASE k = l /\ SetTrigger(l)
  <2>1. PICK tr \in (Triggers \cup {"none"}) \ {trigger[l]} :
            IF tr = "none"
              THEN UNCHANGED <<pc, job, left, mode>> /\ Ask(l, {Cmd(l, "light", 0)})
              ELSE Blink(user(l), l, tr) /\ Ask(l, {Final(l, tr)} \cup LightToCome(l)')
    BY <1>9 DEF SetTrigger
  <2>2. pc[user(l)] = "idle" /\ pc[delay(l)] = "idle"
    BY <1>9 DEF SetTrigger, Free, Activating, Drained
  <2>3. CASE tr # "none"
    BY <1>9, <2>1, <2>2, <2>3, BlinkAsks
  <2>4. CASE tr = "none"
    <3>1. trigger[l] # "none" /\ UNCHANGED pc /\ Ask(l, {Cmd(l, "light", 0)})
      BY <2>1, <2>4
    <3>2. pending'[l] = TRUE /\ light'[l] = 0
      BY <1>2, <1>9, <3>1 DEF SetTrigger, leds_brightness_set
    <3>3. want'[l] # {} => want'[l] = {Cmd(l, "light", 0)}
      BY <1>2, <3>1 DEF Ask
    <3>4. ~ToSend(user(l))' /\ ~ToSend(delay(l))'
      BY <2>2, <3>1 DEF ToSend
    <3> QED
      BY <1>9, <3>2, <3>3, <3>4 DEF OnItsWay
  <2> QED
    BY <2>3, <2>4
<1> QED
  BY <1>5, <1>6, <1>7, <1>8, <1>9

\* Taking the mutex, looking at a color, and starting the work with the level asked for.
LEMMA EnterAsks ==
    ASSUME LedTypeInv, NEW k \in Leds, OnItsWay(k),
           \/ \E t \in Threads : Lock(t)
           \/ \E l \in Leds : color_set_accepted(l) \/ color_set_refused(l) \/ brightness_work(l)
    PROVE  OnItsWay(k)'
<1>1. UNCHANGED <<buf, last, life, light, want>>
  BY DEF Lock, color_set_accepted, color_set_refused, brightness_work, ledVars, mcuVars, history
<1>2. /\ pending \in [Leds -> BOOLEAN]
      /\ pc \in [Threads -> {"idle", "lock", "check"} \cup Exchanging]
      /\ job \in [Threads -> Seq(Command)]
  BY DEF LedTypeInv, TypeOK
<1>3. Shows(k) <=> Shows(k)'
  BY <1>1 DEF Shows
<1>4. user(k) \in Threads /\ delay(k) \in Threads /\ work(k) \in Threads
  BY ThreadsApart
<1>5. ASSUME NEW t \in Threads, Lock(t) PROVE OnItsWay(k)'
  <2>1. /\ pending' = pending /\ job' = job /\ pc[t] = "lock" /\ t \in Users
        /\ \/ pc' = [pc EXCEPT ![t] = "send"]
           \/ t \notin Blinkers /\ pc' = [pc EXCEPT ![t] = "check"]
    BY <1>5 DEF Lock, Enter, ledVars
  <2>2. work(k) \notin Users /\ user(k) \in Blinkers /\ delay(k) \in Blinkers
    BY ThreadsDiffer
  <2> QED
    BY <1>1, <1>2, <1>3, <1>4, <2>1, <2>2, AsideKeeps
<1>6. ASSUME NEW l \in Leds, color_set_accepted(l) \/ color_set_refused(l) PROVE OnItsWay(k)'
  <2>1. /\ pending' = pending
        /\ \E at, j : pc' = [pc EXCEPT ![color(l)] = at] /\ job' = [job EXCEPT ![color(l)] = j]
    <3>1. CASE color_set_accepted(l)
      <4>1. job' = [job EXCEPT ![color(l)] = job[color(l)]]
        BY <1>2, <3>1 DEF color_set_accepted
      <4> QED
        BY <3>1, <4>1 DEF color_set_accepted, Enter, ledVars
    <3>2. CASE color_set_refused(l)
      BY <3>2 DEF color_set_refused, Return, Start, ledVars
    <3> QED
      BY <1>6, <3>1, <3>2
  <2>2. color(l) \notin {user(k), delay(k), work(k)}
    BY ThreadsApart
  <2> QED
    BY <1>1, <1>2, <1>3, <1>4, <2>1, <2>2, AsideKeeps
<1>7. ASSUME NEW l \in Leds, brightness_work(l) PROVE OnItsWay(k)'
  <2>1. /\ pending' = [pending EXCEPT ![l] = FALSE] /\ pending[l] /\ pc[work(l)] = "idle"
        /\ pc' = [pc EXCEPT ![work(l)] = "send"]
        /\ job' = [job EXCEPT ![work(l)] = << Cmd(l, "light", light[l]) >>]
    BY <1>7 DEF brightness_work, Enter
  <2>2. CASE k # l
    <3>1. work(l) \notin {user(k), delay(k), work(k)} /\ work(l) \in Threads
      BY <2>2, ThreadsApart
    <3> QED
      BY <1>1, <1>2, <1>3, <1>4, <2>1, <2>2, <3>1, AsideKeeps
  <2>3. CASE k = l
    <3>1. /\ ~pending'[l] /\ pc'[work(l)] = "send"
          /\ job'[work(l)] = << Cmd(l, "light", light[l]) >>
          /\ \A t \in {user(l), delay(l)} : pc'[t] = pc[t] /\ job'[t] = job[t]
      BY <1>2, <1>4, <2>1, <2>3, ThreadsApart
    <3>2. \A t \in {user(l), delay(l)} : ToSend(t)' <=> ToSend(t)
      BY <3>1 DEF ToSend
    <3>3. Head(job'[work(l)]) = Cmd(l, "light", light[l])
      BY <3>1, ShortSeqs
    <3> QED
      BY <1>1, <2>1, <2>3, <3>1, <3>2, <3>3 DEF OnItsWay
  <2> QED
    BY <2>2, <2>3
<1> QED
  BY <1>5, <1>6, <1>7

\* The MCU runs the command it holds; the other steps here lose one.
LEMMA McuAsks ==
    ASSUME LedTypeInv, NEW k \in Leds, OnItsWay(k), McuRun \/ McuReject \/ ug_notifier_call
    PROVE  OnItsWay(k)'
<1>1. CASE McuReject \/ ug_notifier_call
  <2>1. want'[k] = {}
    BY <1>1 DEF McuReject, ug_notifier_call, Lose
  <2> QED
    BY <2>1 DEF OnItsWay
<1>2. CASE McuRun
  <2>1. UNCHANGED <<pending, light, want, life, pc, job>>
    BY <1>2 DEF McuRun, ledVars, threadVars
  <2>2. last \in [Leds -> Command] /\ buf # None /\ buf' = None
    BY <1>2 DEF McuRun, LedTypeInv, TypeOK
  <2>3. Shows(k) => Shows(k)'
    BY <1>2, <2>1, <2>2 DEF McuRun, Shows
  <2> QED
    BY <2>1, <2>3, AsideKeeps
<1> QED
  BY <1>1, <1>2

\* A thread ends its exchange with nothing left to send.
LEMMA DoneAsks ==
    ASSUME LedTypeInv, NEW k \in Leds, OnItsWay(k), NEW t \in Threads,
           UNCHANGED <<pending, light, last, life, buf, want>>,
           pc' = [pc EXCEPT ![t] = "idle"], job' = [job EXCEPT ![t] = <<>>],
           pc[t] = "ack", ~(Len(job[t]) > 1)
    PROVE  OnItsWay(k)'
<1>1. /\ pc \in [Threads -> {"idle", "lock", "check"} \cup Exchanging]
      /\ job \in [Threads -> Seq(Command)]
  BY DEF LedTypeInv, TypeOK
<1>2. user(k) \in Threads /\ delay(k) \in Threads /\ work(k) \in Threads
  BY ThreadsApart
<1>3. Shows(k) <=> Shows(k)'
  BY DEF Shows
<1>4. \A u \in {user(k), delay(k)} :
          (ToSend(u)' <=> ToSend(u)) /\ (ToSend(u) => job'[u] = job[u])
  BY <1>1, <1>2 DEF ToSend
<1>5. /\ pc'[work(k)] = "send" <=> pc[work(k)] = "send"
      /\ pc[work(k)] = "send" => job'[work(k)] = job[work(k)]
  BY <1>1, <1>2
<1> QED
  BY <1>3, <1>4, <1>5 DEF OnItsWay

\* A thread goes on to the second of its commands.
LEMMA NextAsks ==
    ASSUME LedTypeInv, NEW k \in Leds, OnItsWay(k), NEW t \in Threads,
           UNCHANGED <<pending, light, last, life, buf, want>>,
           pc' = [pc EXCEPT ![t] = "send"], job' = [job EXCEPT ![t] = Tail(job[t])],
           pc[t] = "ack", Len(job[t]) > 1
    PROVE  OnItsWay(k)'
<1>1. /\ pc \in [Threads -> {"idle", "lock", "check"} \cup Exchanging]
      /\ job \in [Threads -> Seq(Command)]
      /\ user(k) \in Threads /\ delay(k) \in Threads /\ work(k) \in Threads
  BY ThreadsApart DEF LedTypeInv, TypeOK
<1>2. Shows(k) <=> Shows(k)'
  BY DEF Shows
<1>3. JobFits(t, job[t])
  BY DEF LedTypeInv, JobsOwn
<1>4. t # work(k)
  <2> SUFFICES ASSUME t = work(k) PROVE FALSE
    OBVIOUS
  <2>1. \E v \in 0..255 : job[t] = << Cmd(k, "light", v) >>
    BY <1>3 DEF JobFits
  <2>2. Len(job[t]) = 1
    BY <2>1, ShortSeqs
  <2> QED
    BY <2>2
<1>5. job'[t] = Tail(job[t]) /\ Len(job'[t]) \in Nat
      /\ job'[t][Len(job'[t])] = job[t][Len(job[t])]
  <2>1. job'[t] = Tail(job[t]) /\ job[t] \in Seq(Command)
    BY <1>1
  <2>2. \A s \in Seq(Command) : Len(s) > 1 =>
            Len(Tail(s)) \in Nat /\ Tail(s)[Len(Tail(s))] = s[Len(s)]
    OBVIOUS
  <2> QED
    BY <2>1, <2>2
<1>6. \A u \in {user(k), delay(k)} :
          (ToSend(u)' <=> ToSend(u)) /\ job'[u][Len(job'[u])] = job[u][Len(job[u])]
  <2>1. CASE t \notin {user(k), delay(k)}
    BY <1>1, <2>1 DEF ToSend
  <2>2. ASSUME NEW u \in {user(k), delay(k)}, u = t
        PROVE  (ToSend(u)' <=> ToSend(u)) /\ job'[u][Len(job'[u])] = job[u][Len(job[u])]
    <3>1. pc'[u] = "send"
      BY <1>1, <2>2
    <3> QED
      BY <1>5, <2>2, <3>1 DEF ToSend
  <2>3. ASSUME NEW u \in {user(k), delay(k)}, u # t
        PROVE  (ToSend(u)' <=> ToSend(u)) /\ job'[u][Len(job'[u])] = job[u][Len(job[u])]
    BY <1>1, <2>3 DEF ToSend
  <2> QED
    BY <2>2, <2>3
<1>7. pc'[work(k)] = pc[work(k)] /\ job'[work(k)] = job[work(k)]
  BY <1>1, <1>4
<1> QED
  BY <1>2, <1>6, <1>7 DEF OnItsWay

\* A transfer arrives at the MCU, which held no command.
LEMMA SentAsks ==
    ASSUME LedTypeInv, NEW k \in Leds, OnItsWay(k), NEW t \in Threads,
           UNCHANGED <<pending, light, last, life, job, want>>,
           pc[t] = "send", pc' = [pc EXCEPT ![t] = "ack"],
           buf = None, buf' = [from |-> t, cmd |-> Head(job[t])]
    PROVE  OnItsWay(k)'
<1>1. /\ pc \in [Threads -> {"idle", "lock", "check"} \cup Exchanging]
      /\ job \in [Threads -> Seq(Command)]
      /\ user(k) \in Threads /\ delay(k) \in Threads /\ work(k) \in Threads
      /\ user(k) # delay(k) /\ user(k) # work(k) /\ delay(k) # work(k)
  BY ThreadsApart DEF LedTypeInv, TypeOK
<1>2. ThreadsTyped
  BY TypeParts
<1>3. /\ JobFits(t, job[t]) /\ Head(job[t]) \in Command /\ Head(job[t]) = job[t][1]
      /\ Len(job[t]) \in {1, 2}
  BY <1>2, BusyFacts
<1>4. buf' # None /\ buf'.cmd = Head(job[t])
  <2>1. [from |-> t, cmd |-> Head(job[t])] \in Message
    BY <1>3 DEF Message
  <2> QED
    BY <2>1, LedAssumption
<1>5. \A l \in Leds :
        /\ t \in {user(l), delay(l), work(l)} =>
                 Head(job[t]).led = l /\ Head(job[t]).kind \notin {"color", "shutdown"}
        /\ t = color(l) => Head(job[t]).kind = "color"
  BY <1>3, HeadOwn
<1>6. CASE t \notin {user(k), delay(k), work(k)}
  <2>1. Head(job[t]).led # k \/ Head(job[t]).kind = "color"
    <3>1. PICK l \in Leds : t \in {user(l), delay(l), work(l), color(l)}
      BY ThreadsApart
    <3>2. CASE t = color(l)
      BY <1>5, <3>2
    <3>3. CASE t # color(l)
      BY <1>5, <1>6, <3>1, <3>3
    <3> QED
      BY <3>2, <3>3
  <2>2. Shows(k) => Shows(k)'
    BY <1>4, <2>1 DEF Shows
  <2> QED
    BY <1>1, <1>6, <2>2, AsideKeeps
<1>7. CASE t = work(k)
  <2>1. /\ pc'[work(k)] = "ack"
        /\ \A u \in {user(k), delay(k)} : ToSend(u)' <=> ToSend(u)
    BY <1>1, <1>7 DEF ToSend
  <2>2. want[k] # {} /\ life = "loaded" /\ ~pending[k] => Shows(k)'
    BY <1>4, <1>5, <1>7 DEF Shows, OnItsWay
  <2> QED
    BY <2>1, <2>2 DEF OnItsWay
<1>8. CASE t \in {user(k), delay(k)}
  <2>1. /\ pc'[t] = "ack" /\ pc'[work(k)] = pc[work(k)]
        /\ \A u \in {user(k), delay(k)} \ {t} : ToSend(u)' <=> ToSend(u)
        /\ ToSend(t) /\ (ToSend(t)' <=> Len(job[t]) > 1)
    BY <1>1, <1>8 DEF ToSend
  <2>2. CASE Len(job[t]) = 2
    <3>1. Len(job[t]) > 1
      BY <2>2
    <3> QED
      BY <1>8, <2>1, <3>1 DEF OnItsWay
  <2>3. CASE Len(job[t]) = 1
    <3>1. ~ToSend(t)'
      BY <2>1, <2>3
    <3>2. want[k] # {} /\ life = "loaded" => Shows(k)'
      BY <1>3, <1>4, <1>5, <1>8, <2>1, <2>3 DEF Shows, OnItsWay
    <3> QED
      BY <1>8, <2>1, <3>1, <3>2 DEF OnItsWay
  <2> QED
    BY <1>3, <2>2, <2>3
<1> QED
  BY <1>6, <1>7, <1>8

\* One step of an exchange.
LEMMA ExchangeAsks ==
    ASSUME LedTypeInv, NEW k \in Leds, OnItsWay(k), NEW t \in Threads, Exchange(t)
    PROVE  OnItsWay(k)'
<1>1. UNCHANGED <<pending, light, last, life>>
  BY DEF Exchange, Send, AckOk, AckMiss, ledVars, mcuVars
<1>2. SUFFICES ASSUME want'[k] # {} PROVE OnItsWay(k)'
  BY DEF OnItsWay
<1>3. UNCHANGED want
  BY <1>2 DEF Exchange, Send, AckOk, AckMiss, Lose
<1>4. CASE UNCHANGED <<pc, job, buf>>
  <2>1. Shows(k) => Shows(k)'
    BY <1>1, <1>3, <1>4 DEF Shows
  <2> QED
    BY <1>1, <1>3, <1>4, <2>1, AsideKeeps
<1>5. left[t] > 1 \/ left[t] = 1
  BY LedAssumption DEF LedTypeInv, TypeOK
<1>6. CASE Send(t) /\ Retry(t) /\ Lose(left[t] = 1) /\ UNCHANGED <<buf, flag>>
  <2>1. left[t] # 1
    BY <1>2, <1>6 DEF Lose
  <2> QED
    BY <1>4, <1>5, <1>6, <2>1 DEF Retry
<1>7. CASE AckMiss(t)
  <2>1. ~(left[t] = 1 /\ t \in Blinkers) /\ pc[t] = "ack" /\ Retry(t) /\ UNCHANGED buf
    BY <1>2, <1>7 DEF AckMiss, Lose, mcuVars
  <2>2. CASE left[t] > 1
    BY <1>4, <2>1, <2>2 DEF Retry
  <2>3. CASE ~(left[t] > 1)
    <3>1. t \notin Blinkers /\ JobFits(t, job[t])
      BY <1>5, <2>1, <2>3 DEF LedTypeInv, JobsOwn
    <3>2. \E l \in Leds : t \in {work(l), color(l)}
      BY <3>1, ThreadsApart, ThreadsDiffer
    <3>3. \E c : job[t] = <<c>>
      BY <3>1, <3>2 DEF JobFits
    <3>4. ~(Len(job[t]) > 1)
      <4>1. Len(job[t]) = 1
        BY <3>3, ShortSeqs
      <4> QED
        BY <4>1
    <3> QED
      BY <1>1, <1>3, <2>1, <2>3, <3>4, DoneAsks DEF Retry, GiveUp, Return, Start
  <2> QED
    BY <2>2, <2>3
<1>8. CASE AckOk(t)
  BY <1>1, <1>3, <1>8, DoneAsks, NextAsks DEF AckOk, Return, Start, mcuVars
<1>9. CASE /\ pc[t] = "send" /\ buf' = [from |-> t, cmd |-> Head(job[t])]
           /\ pc' = [pc EXCEPT ![t] = "ack"] /\ job' = job /\ Lose(buf # None)
  <2>1. buf = None
    BY <1>2, <1>9 DEF Lose
  <2> QED
    BY <1>1, <1>3, <1>9, <2>1, SentAsks
<1> QED
  BY <1>6, <1>7, <1>8, <1>9 DEF Exchange, Send

\* Every step keeps the command on its way.
LEMMA AskStep == AskInv /\ [Next]_vars => AskInv'
<1> SUFFICES ASSUME AskInv, [Next]_vars PROVE AskInv'
  OBVIOUS
<1>1. LedTypeInv'
  BY LedTypeStep DEF AskInv
<1>2. SUFFICES ASSUME NEW k \in Leds PROVE OnItsWay(k)'
  BY <1>1 DEF AskInv
<1>3. LedTypeInv /\ OnItsWay(k)
  BY DEF AskInv
<1>4. CASE RemoveCancel \/ RemoveUnregister \/ RemoveFree
  BY <1>4 DEF RemoveCancel, RemoveUnregister, RemoveFree, OnItsWay
<1>5. CASE UNCHANGED vars
  BY <1>3, <1>5 DEF vars, ledVars, threadVars, mcuVars, history, OnItsWay, ToSend, Shows
<1> QED
  BY <1>3, <1>4, <1>5, WriterAsks, EnterAsks, McuAsks, ExchangeAsks DEF Next

\* For any number of LEDs and tries: an LED at rest shows the command last asked of it, or
\* one that was on its way then and that nothing orders with it, until one is lost.
THEOREM LastAskedShown == Spec => []LastAskedIsLast
<1>1. AskInv => LastAskedIsLast
  BY DEF AskInv, LastAskedIsLast, OnItsWay, Quiet, ToSend, Shows
<1> QED
  BY <1>1, AskInit, AskStep, PTL DEF Spec
====
