---- MODULE GpioButtonProofs ----
\* Proofs about GpioButton, for every choice of the counts at which the buttons report:
\* types, which presses can leave a key stuck, where a scan can fault, what remove leaves.
EXTENDS GpioButton, TLAPS

\* What the steps of probe and remove have set up.
LifeInv ==
    /\ life \in {"map", "arm", "alloc", "died"} => dev = "none"
    /\ life = "register" => dev = "allocated"
    /\ life \in {"loaded", "deltimer", "free"} => dev = "registered"
    /\ life \in {"map", "arm", "died"} => ~timer /\ at = Idle
    /\ life \in {"map", "deltimer", "free", "gone"} => \A b \in Buttons : ~base[b]

\* A button that is being counted was seen held by the scan before; a key is only ever
\* pressed on a device that exists.
CountInv ==
    /\ \A b \in Buttons : seen[b] > 0 => pre[b]
    /\ dev = "none" => \A b \in Buttons : key[b] = 0

\* Without an edge, a scan runs only while the device exists, and reads only what is mapped.
ScanInv ==
    ~edge =>
        /\ at # Idle => life \notin {"map", "arm", "alloc", "failed"}
        /\ at.step = "read" /\ life # "oops" => base[at.btn] /\ life \in {"register", "loaded"}

\* From the deletion of the timer on.
DeletedInv == life \in {"free", "gone"} /\ ~flight => ~timer /\ at = Idle

ButtonInv ==
    /\ TypeOK
    /\ LifeInv
    /\ CountInv
    /\ ScanInv
    /\ DeletedInv
    /\ StuckOnlyAfterShortPress
    /\ FaultsOnlyAtTheEdges

----------------------------------------------------------------------------
\* A count of 0..SeenMax stays there and is not 0 after it counted.
LEMMA CountBounds ==
    ASSUME NEW n \in 0..SeenMax
    PROVE  Count(n) \in 1..SeenMax
  BY ButtonAssumption DEF Count

\* The driver starts in the invariant.
LEMMA ButtonInvInit == Init => ButtonInv
<1> SUFFICES ASSUME Init PROVE ButtonInv
  OBVIOUS
<1>1. 0 \in 0..SeenMax
  BY ButtonAssumption
<1>2. TypeOK
  BY <1>1 DEF Init, TypeOK, Idle, Buttons
<1>3. LifeInv /\ ScanInv /\ DeletedInv
  BY DEF Init, LifeInv, ScanInv, DeletedInv, Idle
<1>4. CountInv /\ StuckOnlyAfterShortPress /\ FaultsOnlyAtTheEdges
  BY DEF Init, CountInv, StuckOnlyAfterShortPress, FaultsOnlyAtTheEdges, Buttons
<1> QED
  BY <1>2, <1>3, <1>4 DEF ButtonInv

\* The steps of a scan that touch no button.
LEMMA QuietScanStep ==
    ASSUME ButtonInv, life # "oops", TimerFires \/ ScanCheck \/ ScanRearm
    PROVE  ButtonInv'
<1> USE DEF ButtonInv, TypeOK, LifeInv, CountInv, ScanInv, DeletedInv, Idle, Buttons,
            StuckOnlyAfterShortPress, FaultsOnlyAtTheEdges, btnSatate, input, history
<1>1. CASE TimerFires
  BY <1>1 DEF TimerFires
<1>2. CASE ScanCheck
  <2>1. /\ at.step = "check" /\ UNCHANGED <<held, btnSatate, input, timer, life, history>>
        /\ at' = IF base[at.btn] THEN [step |-> "read", btn |-> at.btn] ELSE After(at.btn)
    BY <1>2 DEF ScanCheck
  <2>2. TypeOK'
    BY <2>1 DEF After
  <2>3. LifeInv' /\ CountInv'
    BY <2>1
  <2>4. ScanInv' /\ DeletedInv'
    <3>1. at' = [step |-> "read", btn |-> at.btn] \/ at' = [step |-> "check", btn |-> "reset"]
          \/ at' = [step |-> "rearm", btn |-> "reset"]
      BY <2>1 DEF After
    <3>2. at'.step = "read" => base[at'.btn]
      BY <2>1, <3>1 DEF After
    <3>3. ScanInv'
      <4>1. at # Idle
        BY <2>1
      <4>2. ~edge /\ base[at.btn] => life \in {"register", "loaded"}
        BY <4>1
      <4> QED
        BY <2>1, <3>1, <3>2, <4>1, <4>2
    <3>4. DeletedInv'
      BY <2>1
    <3> QED
      BY <3>3, <3>4
  <2>5. StuckOnlyAfterShortPress' /\ FaultsOnlyAtTheEdges'
    BY <2>1
  <2> QED
    BY <2>2, <2>3, <2>4, <2>5
<1>3. CASE ScanRearm
  BY <1>3 DEF ScanRearm
<1> QED
  BY <1>1, <1>2, <1>3

\* The steps of probe and remove.
LEMMA LifeStep ==
    ASSUME ButtonInv, life # "oops", Probe \/ Remove
    PROVE  ButtonInv'
<1> USE DEF ButtonInv, TypeOK, LifeInv, CountInv, ScanInv, DeletedInv, Idle, Buttons,
            StuckOnlyAfterShortPress, FaultsOnlyAtTheEdges, btnSatate, input, history
<1>1. CASE ProbeMap
  BY <1>1 DEF ProbeMap
<1>2. CASE ProbeArm
  BY <1>2 DEF ProbeArm
<1>3. CASE ProbeAlloc
  BY <1>3 DEF ProbeAlloc
<1>4. CASE ProbeRegister
  <2>1. CASE dev' = "registered"
    BY <1>4, <2>1 DEF ProbeRegister
  <2>2. CASE dev' = "freed"
    <3>1. edge' = (edge \/ at # Idle) /\ life' = "failed" /\ life = "register"
          /\ UNCHANGED <<held, seen, pre, base, key, timer, at, last, flight, told, lost>>
      BY <1>4, <2>2 DEF ProbeRegister
    <3>2. edge' \in BOOLEAN
      BY <3>1
    <3>3. ~edge' => ~edge /\ at = Idle
      BY <3>1
    <3>4. TypeOK' /\ LifeInv' /\ CountInv' /\ DeletedInv'
      BY <2>2, <3>1, <3>2
    <3>5. ScanInv' /\ StuckOnlyAfterShortPress' /\ FaultsOnlyAtTheEdges'
      BY <2>2, <3>1, <3>3
    <3> QED
      BY <3>4, <3>5
  <2> QED
    BY <1>4, <2>1, <2>2 DEF ProbeRegister
<1>5. CASE RemoveUnmap
  BY <1>5 DEF RemoveUnmap
<1>6. CASE RemoveDelTimer
  BY <1>6 DEF RemoveDelTimer
<1>7. CASE RemoveFree
  BY <1>7 DEF RemoveFree
<1> QED
  BY <1>1, <1>2, <1>3, <1>4, <1>5, <1>6, <1>7 DEF Probe, Remove

\* The scan of one button, by what it finds.
LEMMA ScanReadStep ==
    ASSUME ButtonInv, life # "oops", ScanRead
    PROVE  ButtonInv'
<1> DEFINE b == at.btn
<1>1. b \in Buttons /\ seen[b] \in 0..SeenMax /\ at.step = "read"
  BY DEF ButtonInv, TypeOK, ScanRead
<1>2. UNCHANGED <<held, base, dev, timer, edge, flight>>
  BY DEF ScanRead
<1>3. CASE ~base[b]
  <2>1. life' = "oops" /\ UNCHANGED <<seen, pre, key, last, at, told, lost>> /\ edge
    BY <1>1, <1>3 DEF ScanRead, ButtonInv, ScanInv
  <2> QED
    BY <1>2, <2>1
    DEF ButtonInv, TypeOK, LifeInv, CountInv, ScanInv, DeletedInv,
        StuckOnlyAfterShortPress, FaultsOnlyAtTheEdges
<1>4. CASE base[b]
  <2>1. /\ Scan(b) /\ at' = After(b)
        /\ IF Reports(b) THEN Report(b) ELSE UNCHANGED <<key, life>>
    BY <1>4 DEF ScanRead
  <2>2. life' \in {life, "oops"} /\ (life' = "oops" => dev \in {"none", "freed"})
    BY <2>1, <1>1 DEF Report, ButtonInv, TypeOK
  <2>3. key' \in [Buttons -> {0, 1}] /\ (dev \notin {"allocated", "registered"} => key' = key)
        /\ \A c \in Buttons : c # b => key'[c] = key[c]
    BY <2>1, <1>1 DEF Report, ButtonInv, TypeOK
  <2>4. /\ seen' \in [Buttons -> 0..SeenMax] /\ last' \in [Buttons -> 0..SeenMax]
        /\ pre' \in [Buttons -> BOOLEAN]
        /\ \A c \in Buttons : c # b => seen'[c] = seen[c] /\ last'[c] = last[c] /\ pre'[c] = pre[c]
        /\ pre'[b] = held[b]
        /\ held[b] => seen'[b] > 0 /\ last' = last
        /\ ~held[b] => /\ seen'[b] = 0
                       /\ last'[b] = IF seen[b] = 0 THEN last[b] ELSE seen[b]
    BY <2>1, <1>1, CountBounds, ButtonAssumption DEF Scan, ButtonInv, TypeOK
  <2>5. at' \in [step : {"check", "rearm"}, btn : Buttons] /\ at' # Idle /\ at'.step # "read"
        /\ at # Idle
    BY <2>1, <1>1 DEF After, Buttons, Idle
  <2>6. TypeOK'
    <3>1. told' \in BOOLEAN /\ lost' \in BOOLEAN
      BY <2>1 DEF Scan, Listen, ButtonInv, TypeOK
    <3> QED
      BY <1>2, <2>2, <2>3, <2>4, <2>5, <3>1 DEF ButtonInv, TypeOK
  <2>7. ~edge => life \in {"register", "loaded"} /\ dev \in {"allocated", "registered"}
    BY <1>1 DEF ButtonInv, ScanInv, LifeInv
  <2>8. LifeInv' /\ ScanInv' /\ FaultsOnlyAtTheEdges'
    BY <1>2, <2>2, <2>5, <2>7 DEF ButtonInv, LifeInv, ScanInv, FaultsOnlyAtTheEdges
  <2>9. DeletedInv'
    BY <1>2, <2>2, <2>5 DEF ButtonInv, DeletedInv
  <2>10. CountInv'
    BY <1>2, <2>3, <2>4 DEF ButtonInv, CountInv
  <2>11. StuckOnlyAfterShortPress'
    <3>1. CASE held[b]
      BY <1>1, <1>2, <2>3, <2>4, <3>1 DEF ButtonInv, StuckOnlyAfterShortPress, Buttons
    <3>2. CASE ~held[b] /\ ReleaseReports(b)
      <4>1. dev \in {"allocated", "registered"} => key'[b] = 0
        BY <1>1, <2>1, <3>2 DEF Reports, Report, ButtonInv, TypeOK
      <4>2. dev = "none" => \A c \in Buttons : key'[c] = 0
        BY <2>3 DEF ButtonInv, CountInv
      <4> QED
        BY <1>1, <1>2, <2>3, <2>4, <4>1, <4>2
        DEF ButtonInv, TypeOK, StuckOnlyAfterShortPress, Buttons
    <3>3. CASE ~held[b] /\ ~ReleaseReports(b)
      <4>1. key' = key
        BY <2>1, <3>3 DEF Reports
      <4>2. seen[b] > 0 => IF b = "reset" THEN seen[b] <= ResetAt ELSE seen[b] < ReleaseAfter
        BY <1>1, <3>3, ButtonAssumption DEF ReleaseReports, ButtonInv, CountInv
      <4> QED
        BY <1>1, <1>2, <2>4, <3>3, <4>1, <4>2
        DEF ButtonInv, StuckOnlyAfterShortPress, Buttons
    <3> QED
      BY <3>1, <3>2, <3>3
  <2> QED
    BY <2>6, <2>8, <2>9, <2>10, <2>11 DEF ButtonInv
<1> QED
  BY <1>3, <1>4

\* Every step keeps the invariant.
LEMMA ButtonInvStep == ButtonInv /\ [Next]_vars => ButtonInv'
<1> SUFFICES ASSUME ButtonInv, [Next]_vars PROVE ButtonInv'
  OBVIOUS
<1>1. ASSUME NEW b \in Buttons, Push(b) PROVE ButtonInv'
  BY <1>1 DEF Push, ButtonInv, TypeOK, LifeInv, CountInv, ScanInv, DeletedInv,
              StuckOnlyAfterShortPress, FaultsOnlyAtTheEdges, btnSatate, input, history
<1>2. CASE UNCHANGED vars
  BY <1>2 DEF vars, ButtonInv, TypeOK, LifeInv, CountInv, ScanInv, DeletedInv,
              StuckOnlyAfterShortPress, FaultsOnlyAtTheEdges, btnSatate, input, history
<1> QED
  BY <1>1, <1>2, QuietScanStep, LifeStep, ScanReadStep DEF Next, Monitor

\* The invariant holds throughout.
THEOREM ButtonsCorrect == Spec => []ButtonInv
  BY ButtonInvInit, ButtonInvStep, PTL DEF Spec

\* btn_monitor leaves a key pressed only after a press shorter than its release bound, and
\* faults only at the edges of probe and remove, for every choice of the four counts.
THEOREM StuckKeysAreShort == Spec => []StuckOnlyAfterShortPress
<1>1. ButtonInv => StuckOnlyAfterShortPress
  BY DEF ButtonInv
<1> QED
  BY <1>1, ButtonsCorrect, PTL

\* A scan meets an unmapped register or a missing device only after an edge: a scan during
\* probe, after a failed probe, or across the unmapping.
THEOREM FaultsAreAtTheEdges == Spec => []FaultsOnlyAtTheEdges
<1>1. ButtonInv => FaultsOnlyAtTheEdges
  BY DEF ButtonInv
<1> QED
  BY <1>1, ButtonsCorrect, PTL

\* ug_gpiokey_remove leaves no timer behind if no scan ran when it deleted it.
THEOREM RemoveIsComplete == Spec => []RemoveLeavesNothing
<1>1. ButtonInv => RemoveLeavesNothing
  BY DEF ButtonInv, DeletedInv, RemoveLeavesNothing
<1> QED
  BY <1>1, ButtonsCorrect, PTL

\* Types of GpioButton.
THEOREM ButtonTypes == Spec => []TypeOK
<1>1. ButtonInv => TypeOK
  BY DEF ButtonInv
<1> QED
  BY <1>1, ButtonsCorrect, PTL
====
