---- MODULE BeeperProofs ----
\* Proofs about the beeper driver, for every largest repeat count and any writers.
EXTENDS Beeper, TLAPS

\* Some writer, or every writer, is at one of these places.
Some(S) == \E w \in Writers : at[w] \in S
All(S)  == \A w \in Writers : at[w] \in S

\* Commands are only written while the module is loaded (procfs_remove waits for them); one
\* at a time until two meet, and then each command has its own steps.
Writing ==
    /\ Some({"del", "clear", "set", "sched", "add", "mark"}) => module = "loaded"
    /\ ~raced => \A v, w \in Writers : ~Idle(v) /\ ~Idle(w) => v = w
    /\ ~raced => \A w \in Writers :
        /\ at[w] \in {"sched", "add", "mark"} => ~off
        /\ at[w] \in {"del", "clear", "set"} /\ off => cmd[w] = "off"
        /\ at[w] \in {"del", "clear", "set"} /\ cmd[w] = "off" => off

\* As long as no write met a running handler or another write: where the writer is says
\* whether a handler can run and the timer be armed, and the status tells the rest.
Tracking ==
    ~raced =>
        /\ handler # "idle" => timerStatus = 1 /\ All({"idle", "del"})
        /\ Some({"clear", "set", "sched", "add"}) => ~timer
        /\ Some({"set", "sched", "add", "mark"}) => timerStatus = 0
        /\ Some({"mark"}) => timer
        /\ timer => timerStatus = 1 \/ Some({"mark"})
        /\ handler = "reset" => ~timer
        /\ module # "gone" /\ All({"idle", "del"}) /\ timerStatus = 1
              /\ handler \in {"idle", "count", "stop"} => timer

\* "off" leaves nothing that could sound the beeper.
Silenced == ~raced /\ off /\ All({"idle"}) => beep = 0 /\ ~timer /\ handler = "idle"

\* The beeps of a repetition that nothing disturbed are counted one behind, from the
\* moment the handler sounds one until it counts it, and count starts at 0 each time.
Counting ==
    ~raced /\ ~cut =>
        /\ g_count = 0 => count = 0
        /\ timerStatus = 0 \/ ~All({"idle", "del"}) => count = 0
        /\ Some({"mark"}) => done = 0
        /\ handler \in {"count", "stop", "reset"} => g_count # 0
        /\ timerStatus = 1 /\ g_count # 0 /\ All({"idle", "del"}) =>
            /\ handler \in {"idle", "set"} => count = done /\ count < g_count
            /\ handler \in {"sched", "mod", "count"} => done = count + 1 /\ count < g_count
            /\ handler \in {"stop", "reset"} => count = g_count /\ done = g_count

\* A removal that began in peace has nothing to stop but the work.
Leaving ==
    calm =>
        /\ module # "loaded" /\ ~timer /\ handler = "idle"
        /\ module \in {"deltimer", "gone"} => ~work /\ ~running

BeeperInv == TypeOK /\ Writing /\ Tracking /\ Silenced /\ Counting /\ Leaving

USE RepMaxAssumption DEF CountCap

----------------------------------------------------------------------------
\* The types, the ones that are truth values apart: Zenon proves those, SMT the others.
Truths ==
    /\ timer \in BOOLEAN /\ work \in BOOLEAN /\ running \in BOOLEAN
    /\ raced \in BOOLEAN /\ cut \in BOOLEAN /\ calm \in BOOLEAN
    /\ off \in BOOLEAN

Numbers ==
    /\ beep \in {0, 1}
    /\ handler \in {"idle", "set", "sched", "mod", "count", "stop", "reset"}
    /\ timerStatus \in {0, 1} /\ g_count \in 0..RepMax /\ count \in 0..CountCap
    /\ cmd \in [Writers -> {"on", "off", "one", "other"}]
    /\ at \in [Writers -> {"idle", "del", "clear", "set", "sched", "add", "mark"}]
    /\ module \in {"loaded", "cancel", "deltimer", "gone"}
    /\ done \in 0..CountCap

LEMMA TypeParts == (TypeOK <=> Truths /\ Numbers) /\ (TypeOK' <=> Truths' /\ Numbers')
BY DEF TypeOK, Truths, Numbers

LEMMA TypesInit == Init => TypeOK
<1>1. Init => Truths
  BY Zenon DEF Init, Truths
<1>2. Init => Numbers
  BY DEF Init, Numbers
<1> QED
  BY <1>1, <1>2, TypeParts

LEMMA BeeperInit == Init => BeeperInv
<1> SUFFICES ASSUME Init PROVE BeeperInv
  OBVIOUS
<1>1. TypeOK
  BY TypesInit
<1>2. Writing /\ Silenced /\ Leaving
  BY DEF Init, Writing, Silenced, Leaving, Idle, Some, All
<1>3. Tracking
  BY DEF Init, Tracking, Some, All
<1>4. Counting
  BY DEF Init, Counting, Some, All
<1> QED
  BY <1>1, <1>2, <1>3, <1>4 DEF BeeperInv

LEMMA NumbersStep == Numbers /\ [Next]_vars => Numbers'
<1> SUFFICES ASSUME Numbers, [Next]_vars PROVE Numbers'
  OBVIOUS
<1> USE DEF Numbers, vars, driver, writers, history, Idle, Goto, Return, MeetsHandler, Meets,
  Some, All
<1>1. ASSUME NEW w \in Writers, Write(w)
      PROVE  Numbers'
  <2>1. CASE WriteStop(w)
    BY <2>1 DEF WriteStop
  <2>2. CASE WriteStart(w)
    BY <2>2 DEF WriteStart
  <2>3. CASE WriteDelTimer(w)
    BY <2>3 DEF WriteDelTimer
  <2>4. CASE WriteClear(w)
    BY <2>4 DEF WriteClear
  <2>5. CASE WriteSet(w)
    BY <2>5 DEF WriteSet
  <2>6. CASE WriteSched(w)
    BY <2>6 DEF WriteSched
  <2>7. CASE WriteAddTimer(w)
    BY <2>7 DEF WriteAddTimer
  <2>8. CASE WriteMark(w)
    BY <2>8 DEF WriteMark
  <2> QED
    BY <1>1, <2>1, <2>2, <2>3, <2>4, <2>5, <2>6, <2>7, <2>8 DEF Write, WriteOn
<1>2. CASE Handler
  <2>1. CASE HandlerSet
    BY <2>1 DEF HandlerSet
  <2>2. CASE HandlerSched
    BY <2>2 DEF HandlerSched
  <2>3. CASE HandlerModTimer
    BY <2>3 DEF HandlerModTimer
  <2>4. CASE HandlerCount
    BY <2>4 DEF HandlerCount
  <2>5. CASE HandlerStop
    BY <2>5 DEF HandlerStop
  <2>6. CASE HandlerReset
    BY <2>6 DEF HandlerReset
  <2> QED
    BY <1>2, <2>1, <2>2, <2>3, <2>4, <2>5, <2>6 DEF Handler
<1>3. CASE Exit
  <2>1. CASE ExitProc
    BY <2>1 DEF ExitProc
  <2>2. CASE ExitCancelWork
    BY <2>2 DEF ExitCancelWork
  <2>3. CASE ExitDelTimer
    BY <2>3 DEF ExitDelTimer
  <2> QED
    BY <1>3, <2>1, <2>2, <2>3 DEF Exit
<1>4. CASE TimerFires
  BY <1>4 DEF TimerFires
<1>5. CASE WorkBegins
  BY <1>5 DEF WorkBegins
<1>6. CASE WorkSilences
  BY <1>6 DEF WorkSilences
<1>7. CASE UNCHANGED vars
  BY <1>7
<1> QED
  BY <1>1, <1>2, <1>3, <1>4, <1>5, <1>6, <1>7 DEF Next

LEMMA TruthsStep == Truths /\ [Next]_vars => Truths'
<1> SUFFICES ASSUME Truths, [Next]_vars PROVE Truths'
  OBVIOUS
<1> USE DEF Truths, vars, driver, writers, history, Idle, Goto, Return, MeetsHandler, Meets,
  Some, All
<1>1. ASSUME NEW w \in Writers, Write(w)
      PROVE  Truths'
  <2>1. CASE WriteStop(w)
    BY Zenon, <2>1 DEF WriteStop
  <2>2. CASE WriteStart(w)
    BY Zenon, <2>2 DEF WriteStart
  <2>3. CASE WriteDelTimer(w)
    BY Zenon, <2>3 DEF WriteDelTimer
  <2>4. CASE WriteClear(w)
    BY Zenon, <2>4 DEF WriteClear
  <2>5. CASE WriteSet(w)
    BY Zenon, <2>5 DEF WriteSet
  <2>6. CASE WriteSched(w)
    BY Zenon, <2>6 DEF WriteSched
  <2>7. CASE WriteAddTimer(w)
    BY Zenon, <2>7 DEF WriteAddTimer
  <2>8. CASE WriteMark(w)
    BY Zenon, <2>8 DEF WriteMark
  <2> QED
    BY <1>1, <2>1, <2>2, <2>3, <2>4, <2>5, <2>6, <2>7, <2>8 DEF Write, WriteOn
<1>2. CASE Handler
  <2>1. CASE HandlerSet
    BY Zenon, <2>1 DEF HandlerSet
  <2>2. CASE HandlerSched
    BY Zenon, <2>2 DEF HandlerSched
  <2>3. CASE HandlerModTimer
    BY Zenon, <2>3 DEF HandlerModTimer
  <2>4. CASE HandlerCount
    BY Zenon, <2>4 DEF HandlerCount
  <2>5. CASE HandlerStop
    BY Zenon, <2>5 DEF HandlerStop
  <2>6. CASE HandlerReset
    BY Zenon, <2>6 DEF HandlerReset
  <2> QED
    BY <1>2, <2>1, <2>2, <2>3, <2>4, <2>5, <2>6 DEF Handler
<1>3. CASE Exit
  <2>1. CASE ExitProc
    BY Zenon, <2>1 DEF ExitProc
  <2>2. CASE ExitCancelWork
    BY Zenon, <2>2 DEF ExitCancelWork
  <2>3. CASE ExitDelTimer
    BY Zenon, <2>3 DEF ExitDelTimer
  <2> QED
    BY <1>3, <2>1, <2>2, <2>3 DEF Exit
<1>4. CASE TimerFires
  BY Zenon, <1>4 DEF TimerFires
<1>5. CASE WorkBegins
  BY Zenon, <1>5 DEF WorkBegins
<1>6. CASE WorkSilences
  BY Zenon, <1>6 DEF WorkSilences
<1>7. CASE UNCHANGED vars
  BY Zenon, <1>7
<1> QED
  BY <1>1, <1>2, <1>3, <1>4, <1>5, <1>6, <1>7 DEF Next

LEMMA TypesStep == TypeOK /\ [Next]_vars => TypeOK'
BY TypeParts, NumbersStep, TruthsStep

LEMMA WritingStep == TypeOK /\ Writing /\ [Next]_vars => Writing'
<1> SUFFICES ASSUME TypeOK /\ Writing, [Next]_vars PROVE Writing'
  OBVIOUS
<1> USE DEF TypeOK, Writing, vars, driver, writers, history, Idle, Goto, Return, MeetsHandler,
  Meets, Some, All
<1>1. ASSUME NEW w \in Writers, Write(w)
      PROVE  Writing'
  <2>1. CASE WriteStop(w)
    BY <2>1 DEF WriteStop
  <2>2. CASE WriteStart(w)
    <3>1. CASE timerStatus = 0
      <4>1. at' = [at EXCEPT ![w] = "add"] /\ cmd' = cmd /\ module' = "loaded" /\ ~off'
        BY <2>2, <3>1 DEF WriteStart
      <4>2. ASSUME ~raced' PROVE ~raced /\ \A v \in Writers \ {w} : at[v] = "idle"
        BY <2>2, <4>2 DEF WriteStart
      <4> QED
        BY <4>1, <4>2
    <3>2. CASE timerStatus = 1
      BY <2>2, <3>2 DEF WriteStart
    <3> QED
      BY <3>1, <3>2
  <2>3. CASE WriteDelTimer(w)
    BY <2>3 DEF WriteDelTimer
  <2>4. CASE WriteClear(w)
    BY <2>4 DEF WriteClear
  <2>5. CASE WriteSet(w)
    BY <2>5 DEF WriteSet
  <2>6. CASE WriteSched(w)
    BY <2>6 DEF WriteSched
  <2>7. CASE WriteAddTimer(w)
    BY <2>7 DEF WriteAddTimer
  <2>8. CASE WriteMark(w)
    BY <2>8 DEF WriteMark
  <2> QED
    BY <1>1, <2>1, <2>2, <2>3, <2>4, <2>5, <2>6, <2>7, <2>8 DEF Write, WriteOn
<1>2. CASE Handler
  <2>1. CASE HandlerSet
    BY <2>1 DEF HandlerSet
  <2>2. CASE HandlerSched
    BY <2>2 DEF HandlerSched
  <2>3. CASE HandlerModTimer
    BY <2>3 DEF HandlerModTimer
  <2>4. CASE HandlerCount
    BY <2>4 DEF HandlerCount
  <2>5. CASE HandlerStop
    BY <2>5 DEF HandlerStop
  <2>6. CASE HandlerReset
    BY <2>6 DEF HandlerReset
  <2> QED
    BY <1>2, <2>1, <2>2, <2>3, <2>4, <2>5, <2>6 DEF Handler
<1>3. CASE Exit
  <2>1. CASE ExitProc
    BY <2>1 DEF ExitProc
  <2>2. CASE ExitCancelWork
    BY <2>2 DEF ExitCancelWork
  <2>3. CASE ExitDelTimer
    BY <2>3 DEF ExitDelTimer
  <2> QED
    BY <1>3, <2>1, <2>2, <2>3 DEF Exit
<1>4. CASE TimerFires
  BY <1>4 DEF TimerFires
<1>5. CASE WorkBegins
  BY <1>5 DEF WorkBegins
<1>6. CASE WorkSilences
  BY <1>6 DEF WorkSilences
<1>7. CASE UNCHANGED vars
  BY <1>7
<1> QED
  BY <1>1, <1>2, <1>3, <1>4, <1>5, <1>6, <1>7 DEF Next

LEMMA TrackingStep == TypeOK /\ Writing /\ Tracking /\ [Next]_vars => Tracking'
<1> SUFFICES ASSUME TypeOK /\ Writing /\ Tracking, [Next]_vars PROVE Tracking'
  OBVIOUS
<1> USE DEF TypeOK, Writing, Tracking, vars, driver, writers, history, Idle, Goto, Return,
  MeetsHandler, Meets, Some, All
<1>1. ASSUME NEW w \in Writers, Write(w)
      PROVE  Tracking'
  <2>1. CASE WriteStop(w)
    BY <2>1 DEF WriteStop
  <2>2. CASE WriteStart(w)
    BY <2>2 DEF WriteStart
  <2>3. CASE WriteDelTimer(w)
    BY <2>3 DEF WriteDelTimer
  <2>4. CASE WriteClear(w)
    BY <2>4 DEF WriteClear
  <2>5. CASE WriteSet(w)
    BY <2>5 DEF WriteSet
  <2>6. CASE WriteSched(w)
    BY <2>6 DEF WriteSched
  <2>7. CASE WriteAddTimer(w)
    BY <2>7 DEF WriteAddTimer
  <2>8. CASE WriteMark(w)
    BY <2>8 DEF WriteMark
  <2> QED
    BY <1>1, <2>1, <2>2, <2>3, <2>4, <2>5, <2>6, <2>7, <2>8 DEF Write, WriteOn
<1>2. CASE Handler
  <2>1. CASE HandlerSet
    BY <2>1 DEF HandlerSet
  <2>2. CASE HandlerSched
    BY <2>2 DEF HandlerSched
  <2>3. CASE HandlerModTimer
    BY <2>3 DEF HandlerModTimer
  <2>4. CASE HandlerCount
    BY <2>4 DEF HandlerCount
  <2>5. CASE HandlerStop
    BY <2>5 DEF HandlerStop
  <2>6. CASE HandlerReset
    BY <2>6 DEF HandlerReset
  <2> QED
    BY <1>2, <2>1, <2>2, <2>3, <2>4, <2>5, <2>6 DEF Handler
<1>3. CASE Exit
  <2>1. CASE ExitProc
    BY <2>1 DEF ExitProc
  <2>2. CASE ExitCancelWork
    BY <2>2 DEF ExitCancelWork
  <2>3. CASE ExitDelTimer
    BY <2>3 DEF ExitDelTimer
  <2> QED
    BY <1>3, <2>1, <2>2, <2>3 DEF Exit
<1>4. CASE TimerFires
  BY <1>4 DEF TimerFires
<1>5. CASE WorkBegins
  BY <1>5 DEF WorkBegins
<1>6. CASE WorkSilences
  BY <1>6 DEF WorkSilences
<1>7. CASE UNCHANGED vars
  BY <1>7
<1> QED
  BY <1>1, <1>2, <1>3, <1>4, <1>5, <1>6, <1>7 DEF Next

LEMMA SilencedStep == TypeOK /\ Writing /\ Tracking /\ Silenced /\ [Next]_vars => Silenced'
<1> SUFFICES ASSUME TypeOK /\ Writing /\ Tracking /\ Silenced, [Next]_vars PROVE Silenced'
  OBVIOUS
<1> USE DEF TypeOK, Writing, Tracking, Silenced, vars, driver, writers, history, Idle, Goto,
  Return, MeetsHandler, Meets, Some, All
<1>1. ASSUME NEW w \in Writers, Write(w)
      PROVE  Silenced'
  <2>1. CASE WriteStop(w)
    BY <2>1 DEF WriteStop
  <2>2. CASE WriteStart(w)
    BY <2>2 DEF WriteStart
  <2>3. CASE WriteDelTimer(w)
    BY <2>3 DEF WriteDelTimer
  <2>4. CASE WriteClear(w)
    BY <2>4 DEF WriteClear
  <2>5. CASE WriteSet(w)
    BY <2>5 DEF WriteSet
  <2>6. CASE WriteSched(w)
    BY <2>6 DEF WriteSched
  <2>7. CASE WriteAddTimer(w)
    BY <2>7 DEF WriteAddTimer
  <2>8. CASE WriteMark(w)
    BY <2>8 DEF WriteMark
  <2> QED
    BY <1>1, <2>1, <2>2, <2>3, <2>4, <2>5, <2>6, <2>7, <2>8 DEF Write, WriteOn
<1>2. CASE Handler
  <2>1. CASE HandlerSet
    BY <2>1 DEF HandlerSet
  <2>2. CASE HandlerSched
    BY <2>2 DEF HandlerSched
  <2>3. CASE HandlerModTimer
    BY <2>3 DEF HandlerModTimer
  <2>4. CASE HandlerCount
    BY <2>4 DEF HandlerCount
  <2>5. CASE HandlerStop
    BY <2>5 DEF HandlerStop
  <2>6. CASE HandlerReset
    BY <2>6 DEF HandlerReset
  <2> QED
    BY <1>2, <2>1, <2>2, <2>3, <2>4, <2>5, <2>6 DEF Handler
<1>3. CASE Exit
  <2>1. CASE ExitProc
    BY <2>1 DEF ExitProc
  <2>2. CASE ExitCancelWork
    BY <2>2 DEF ExitCancelWork
  <2>3. CASE ExitDelTimer
    BY <2>3 DEF ExitDelTimer
  <2> QED
    BY <1>3, <2>1, <2>2, <2>3 DEF Exit
<1>4. CASE TimerFires
  BY <1>4 DEF TimerFires
<1>5. CASE WorkBegins
  BY <1>5 DEF WorkBegins
<1>6. CASE WorkSilences
  BY <1>6 DEF WorkSilences
<1>7. CASE UNCHANGED vars
  BY <1>7
<1> QED
  BY <1>1, <1>2, <1>3, <1>4, <1>5, <1>6, <1>7 DEF Next

LEMMA CountingStep == TypeOK /\ Writing /\ Tracking /\ Counting /\ [Next]_vars => Counting'
<1> SUFFICES ASSUME TypeOK /\ Writing /\ Tracking /\ Counting, [Next]_vars PROVE Counting'
  OBVIOUS
<1> USE DEF TypeOK, Writing, Tracking, Counting, vars, driver, writers, history, Idle, Goto,
  Return, MeetsHandler, Meets, Some, All
<1>1. ASSUME NEW w \in Writers, Write(w)
      PROVE  Counting'
  <2>1. CASE WriteStop(w)
    BY <2>1 DEF WriteStop
  <2>2. CASE WriteStart(w)
    <3>1. CASE timerStatus = 0
      BY <2>2, <3>1 DEF WriteStart
    <3>2. CASE timerStatus = 1
      <4>1. UNCHANGED <<at, timerStatus, count, done, handler>> /\ (raced => raced')
        BY <2>2, <3>2 DEF WriteStart
      <4>2. CASE UNCHANGED <<g_count, cut>>
        BY <4>1, <4>2
      <4>3. CASE cut' = (cut \/ (timerStatus = 1 /\ ~raced))
        BY <3>2, <4>1, <4>3
      <4> QED
        BY <2>2, <4>2, <4>3 DEF WriteStart
    <3> QED
      BY <3>1, <3>2
  <2>3. CASE WriteDelTimer(w)
    BY <2>3 DEF WriteDelTimer
  <2>4. CASE WriteClear(w)
    BY <2>4 DEF WriteClear
  <2>5. CASE WriteSet(w)
    BY <2>5 DEF WriteSet
  <2>6. CASE WriteSched(w)
    BY <2>6 DEF WriteSched
  <2>7. CASE WriteAddTimer(w)
    BY <2>7 DEF WriteAddTimer
  <2>8. CASE WriteMark(w)
    BY <2>8 DEF WriteMark
  <2> QED
    BY <1>1, <2>1, <2>2, <2>3, <2>4, <2>5, <2>6, <2>7, <2>8 DEF Write, WriteOn
<1>2. CASE Handler
  <2>1. CASE HandlerSet
    BY <2>1 DEF HandlerSet
  <2>2. CASE HandlerSched
    BY <2>2 DEF HandlerSched
  <2>3. CASE HandlerModTimer
    BY <2>3 DEF HandlerModTimer
  <2>4. CASE HandlerCount
    BY <2>4 DEF HandlerCount
  <2>5. CASE HandlerStop
    BY <2>5 DEF HandlerStop
  <2>6. CASE HandlerReset
    BY <2>6 DEF HandlerReset
  <2> QED
    BY <1>2, <2>1, <2>2, <2>3, <2>4, <2>5, <2>6 DEF Handler
<1>3. CASE Exit
  <2>1. CASE ExitProc
    BY <2>1 DEF ExitProc
  <2>2. CASE ExitCancelWork
    BY <2>2 DEF ExitCancelWork
  <2>3. CASE ExitDelTimer
    BY <2>3 DEF ExitDelTimer
  <2> QED
    BY <1>3, <2>1, <2>2, <2>3 DEF Exit
<1>4. CASE TimerFires
  BY <1>4 DEF TimerFires
<1>5. CASE WorkBegins
  BY <1>5 DEF WorkBegins
<1>6. CASE WorkSilences
  BY <1>6 DEF WorkSilences
<1>7. CASE UNCHANGED vars
  BY <1>7
<1> QED
  BY <1>1, <1>2, <1>3, <1>4, <1>5, <1>6, <1>7 DEF Next

LEMMA LeavingStep == TypeOK /\ Writing /\ Tracking /\ Leaving /\ [Next]_vars => Leaving'
<1> SUFFICES ASSUME TypeOK /\ Writing /\ Tracking /\ Leaving, [Next]_vars PROVE Leaving'
  OBVIOUS
<1> USE DEF TypeOK, Writing, Tracking, Leaving, vars, driver, writers, history, Idle, Goto,
  Return, MeetsHandler, Meets, Some, All
<1>1. ASSUME NEW w \in Writers, Write(w)
      PROVE  Leaving'
  <2>1. CASE WriteStop(w)
    BY <2>1 DEF WriteStop
  <2>2. CASE WriteStart(w)
    BY <2>2 DEF WriteStart
  <2>3. CASE WriteDelTimer(w)
    BY <2>3 DEF WriteDelTimer
  <2>4. CASE WriteClear(w)
    BY <2>4 DEF WriteClear
  <2>5. CASE WriteSet(w)
    BY <2>5 DEF WriteSet
  <2>6. CASE WriteSched(w)
    BY <2>6 DEF WriteSched
  <2>7. CASE WriteAddTimer(w)
    BY <2>7 DEF WriteAddTimer
  <2>8. CASE WriteMark(w)
    BY <2>8 DEF WriteMark
  <2> QED
    BY <1>1, <2>1, <2>2, <2>3, <2>4, <2>5, <2>6, <2>7, <2>8 DEF Write, WriteOn
<1>2. CASE Handler
  <2>1. CASE HandlerSet
    BY <2>1 DEF HandlerSet
  <2>2. CASE HandlerSched
    BY <2>2 DEF HandlerSched
  <2>3. CASE HandlerModTimer
    BY <2>3 DEF HandlerModTimer
  <2>4. CASE HandlerCount
    BY <2>4 DEF HandlerCount
  <2>5. CASE HandlerStop
    BY <2>5 DEF HandlerStop
  <2>6. CASE HandlerReset
    BY <2>6 DEF HandlerReset
  <2> QED
    BY <1>2, <2>1, <2>2, <2>3, <2>4, <2>5, <2>6 DEF Handler
<1>3. CASE Exit
  <2>1. CASE ExitProc
    BY <2>1 DEF ExitProc
  <2>2. CASE ExitCancelWork
    BY <2>2 DEF ExitCancelWork
  <2>3. CASE ExitDelTimer
    BY <2>3 DEF ExitDelTimer
  <2> QED
    BY <1>3, <2>1, <2>2, <2>3 DEF Exit
<1>4. CASE TimerFires
  BY <1>4 DEF TimerFires
<1>5. CASE WorkBegins
  BY <1>5 DEF WorkBegins
<1>6. CASE WorkSilences
  BY <1>6 DEF WorkSilences
<1>7. CASE UNCHANGED vars
  BY <1>7
<1> QED
  BY <1>1, <1>2, <1>3, <1>4, <1>5, <1>6, <1>7 DEF Next

LEMMA BeeperStep == BeeperInv /\ [Next]_vars => BeeperInv'
BY TypesStep, WritingStep, TrackingStep, SilencedStep, CountingStep, LeavingStep DEF BeeperInv

\* The inductive invariant holds for every largest repeat count and any writers.
THEOREM BeeperCorrect == Spec => []BeeperInv
BY BeeperInit, BeeperStep, PTL DEF Spec

\* The types of the beeper driver, for every largest repeat count and any writers.
THEOREM BeeperTypes == Spec => []TypeOK
<1>1. BeeperInv => TypeOK
  BY DEF BeeperInv
<1> QED
  BY <1>1, BeeperCorrect, PTL

\* As long as no write met a running handler, timerStatus tells whether the timer is armed
\* and "off" is silent (beeper_write).
THEOREM OffSilences == Spec => []OffIsSilent
<1>1. BeeperInv => OffIsSilent
  BY DEF BeeperInv, Tracking, Silenced, OffIsSilent, TypeOK, Idle, Some, All
<1> QED
  BY <1>1, BeeperCorrect, PTL

\* A removal in peace leaves neither timer nor work (sataio_beep_exit).
THEOREM ExitIsComplete == Spec => []ExitLeavesNothing
<1>1. BeeperInv => ExitLeavesNothing
  BY DEF BeeperInv, Leaving, ExitLeavesNothing
<1> QED
  BY <1>1, BeeperCorrect, PTL

\* A repetition that nothing disturbed made as many beeps as it was told
\* (beeperTimerHandle), for every number of repetitions.
THEOREM RepeatsAreExact == Spec => RepeatsExactly
<1>1. BeeperInv /\ [Next]_vars =>
        [handler = "reset" /\ handler' = "idle" /\ ~raced /\ ~cut => done = g_count]_vars
  BY DEF BeeperInv, TypeOK, Tracking, Counting
<1> QED
  BY <1>1, BeeperCorrect, PTL DEF Spec, RepeatsExactly
====
